------------------------------ MODULE UdpProofs ------------------------------
(***************************************************************************)
(* What holds of the sending and of the receiving of datagrams, for every  *)
(* size of the rings and the headers.                                      *)
(***************************************************************************)
EXTENDS UdpSocket, UdpSend, FiniteSetTheorems, TLAPS

(* Pointers wrap: what % does with a modulus that is not a number.         *)
LEMMA ModUnique ==
  ASSUME NEW n \in Nat \ {0}, NEW q \in Int, NEW r \in 0..(n - 1)
  PROVE  (q * n + r) % n = r
OBVIOUS

LEMMA ModSmall ==
  ASSUME NEW n \in Nat \ {0}, NEW r \in 0..(n - 1)
  PROVE  r % n = r
OBVIOUS

LEMMA ModRange ==
  ASSUME NEW n \in Nat \ {0}, NEW a \in Int
  PROVE  a % n \in 0..(n - 1)
OBVIOUS

LEMMA ModParts ==
  ASSUME NEW n \in Nat \ {0}, NEW a \in Int
  PROVE  a \div n \in Int /\ a = (a \div n) * n + (a % n)
OBVIOUS

LEMMA ModAdd ==
  ASSUME NEW n \in Nat \ {0}, NEW a \in Int, NEW b \in Int
  PROVE  ((a % n) + b) % n = (a + b) % n
<1> DEFINE p == a \div n
           s == (a % n) + b
           q == s \div n
           r == s % n
<1>1. /\ p \in Int /\ a % n \in 0..(n - 1) /\ a = p * n + (a % n)
  BY ModParts, ModRange
<1>2. s \in Int
  BY <1>1
<1>3. /\ q \in Int /\ r \in 0..(n - 1) /\ s = q * n + r
  BY <1>2, ModParts, ModRange
<1> HIDE DEF p, q, r
<1>4. a + b = (p + q) * n + r
  BY <1>1, <1>3
<1>5. p + q \in Int
  BY <1>1, <1>3
<1>6. ((p + q) * n + r) % n = r
  BY <1>3, <1>5, ModUnique
<1> QED BY <1>4, <1>6 DEF r
-----------------------------------------------------------------------------
(* Sending.  The lengths of the writes are bytes counted, whatever they    *)
(* are.                                                                    *)
LEMMA PacketsType == \A p \in DOMAIN Packets : Packets[p] \in Seq(Nat)
<1>1. \A n \in Nat, k \in Nat : Repeated(n, k) \in Seq(Nat)
  BY DEF Repeated
<1>2. Packets.internet \in Seq(Nat)
  BY DEF Packets
<1>3. Packets.dhcpDiscover \in Seq(Nat)
  BY <1>1 DEF Packets
<1>4. Packets.dhcpRequest \in Seq(Nat)
  BY <1>1 DEF Packets
<1>5. Packets.dnsQuery \in Seq(Nat)
  BY <1>1 DEF Packets
<1> QED BY <1>2, <1>3, <1>4, <1>5 DEF Packets

Pointers == 0..(PointerSize - 1)

(* SendsWhatWasWritten made inductive: the next write goes to tx_wr +      *)
(* offset, which is where the last one ended.                              *)
SendInv ==
  /\ tx_wr \in Pointers /\ tx_end \in Pointers /\ offset \in Nat
  /\ pieces \in Seq([at : Pointers, len : Nat])
  /\ packet_of \in DOMAIN Packets \cup {"none"}
  /\ packet_of /= "none" =>
       IF pieces = <<>> THEN offset = 0 ELSE tx_end = (tx_wr + offset) % PointerSize
  /\ SendsWhatWasWritten

LEMMA SendInvInit == SendInit => SendInv
BY UdpSendAssumption DEF SendInit, SendInv, SendsWhatWasWritten, Pointers

LEMMA SendBegins == SendInv /\ BeginPacket => SendInv'
BY DEF BeginPacket, SendInv, SendsWhatWasWritten

LEMMA SendEnds == SendInv /\ EndPacket => SendInv'
BY DEF EndPacket, SendInv, SendsWhatWasWritten, Pointers

LEMMA SendWrites == SendInv /\ WritePiece => SendInv'
<1> SUFFICES ASSUME SendInv, WritePiece
             PROVE  SendInv'
  OBVIOUS
<1> DEFINE n == Len(pieces) + 1
           len == Packets[packet_of][n]
           written == IF len > SendBuffer THEN SendBuffer ELSE len
           ptr == (tx_wr + offset) % PointerSize
           piece == [at |-> ptr, len |-> written]
<1>1. packet_of \in DOMAIN Packets /\ n \in 1..Len(Packets[packet_of])
  BY PacketsType DEF SendInv, WritePiece
<1>2. len \in Nat /\ written \in Nat
  BY <1>1, PacketsType, UdpSendAssumption
<1>3. PointerSize \in Nat \ {0}
  BY UdpSendAssumption
<1>4. tx_wr \in Int /\ offset \in Int /\ tx_wr + offset \in Int /\ offset \in Nat
  BY UdpSendAssumption DEF SendInv, Pointers
<1>5. ptr \in Pointers
  BY <1>3, <1>4, ModRange DEF Pointers
<1>6. pieces' = Append(pieces, piece) /\ offset' = offset + written
      /\ tx_end' = (ptr + written) % PointerSize
      /\ UNCHANGED <<tx_wr, packet_of>> /\ packet_of /= "none"
  BY DEF WritePiece, Advanced
<1> HIDE DEF n, len, written
<1>7. piece \in [at : Pointers, len : Nat]
  BY <1>2, <1>5
<1>8. pieces \in Seq([at : Pointers, len : Nat])
  BY DEF SendInv
<1>9. /\ pieces' \in Seq([at : Pointers, len : Nat])
      /\ Len(pieces') = Len(pieces) + 1
      /\ pieces'[Len(pieces) + 1] = piece
      /\ \A i \in 1..Len(pieces) : pieces'[i] = pieces[i]
      /\ pieces' /= <<>>
  BY <1>6, <1>7, <1>8
<1>10. tx_end' = (tx_wr + (offset + written)) % PointerSize
  <2>1. tx_end' = ((tx_wr + offset) + written) % PointerSize
    <3>1. written \in Int
      BY <1>2
    <3>2. (ptr + written) % PointerSize = ((tx_wr + offset) + written) % PointerSize
      BY <3>1, <1>3, <1>4, ModAdd
    <3> QED BY <3>2, <1>6
  <2> QED BY <2>1, <1>2, <1>4
<1>11. tx_end' \in Pointers
  <2>1. ptr + written \in Int
    BY <1>2, <1>5 DEF Pointers
  <2> QED BY <2>1, <1>3, <1>6, ModRange DEF Pointers
<1>12. offset' \in Nat
  BY <1>2, <1>4, <1>6
<1>13. pieces'[1].at = tx_wr
  <2>1. CASE pieces = <<>>
    <3>1. offset = 0 /\ pieces'[1].at = ptr
      BY <2>1, <1>6, <1>9 DEF SendInv
    <3>2. tx_wr + offset = tx_wr /\ tx_wr \in 0..(PointerSize - 1)
      BY <3>1, <1>4 DEF SendInv, Pointers
    <3> QED BY <1>3, <3>1, <3>2, ModSmall
  <2>2. CASE pieces /= <<>>
    <3>1. 1 \in 1..Len(pieces)
      BY <1>8, <2>2
    <3> QED BY <2>2, <3>1, <1>6, <1>9 DEF SendInv, SendsWhatWasWritten
  <2> QED BY <2>1, <2>2
<1>14. ASSUME NEW i \in 1..(Len(pieces') - 1)
       PROVE  pieces'[i + 1].at = (pieces'[i].at + pieces'[i].len) % PointerSize
  <2>1. Len(pieces) \in Nat /\ i \in 1..Len(pieces) /\ i + 1 \in 1..(Len(pieces) + 1)
        /\ pieces /= <<>>
    BY <1>8, <1>9
  <2>2. CASE i = Len(pieces)
    <3>1. Last(pieces) = pieces[i] /\ pieces'[i] = pieces[i]
      BY <2>1, <2>2, <1>9 DEF Last
    <3>2. /\ tx_end = (pieces[i].at + pieces[i].len) % PointerSize
          /\ tx_end = (tx_wr + offset) % PointerSize
      BY <2>1, <3>1, <1>6 DEF SendInv, SendsWhatWasWritten
    <3>3. pieces'[i + 1].at = ptr
      BY <1>9, <2>2
    <3> QED BY <3>1, <3>2, <3>3
  <2>3. CASE i /= Len(pieces)
    <3>1. i \in 1..(Len(pieces) - 1) /\ i + 1 \in 1..Len(pieces)
      BY <2>1, <2>3
    <3>2. pieces[i + 1].at = (pieces[i].at + pieces[i].len) % PointerSize
      BY <2>1, <3>1, <1>6 DEF SendInv, SendsWhatWasWritten
    <3> QED BY <3>1, <3>2, <2>1, <1>9
  <2> QED BY <2>2, <2>3
<1>15. tx_end' = (Last(pieces').at + Last(pieces').len) % PointerSize
  BY <1>6, <1>9 DEF Last
<1> QED
  BY <1>6, <1>9, <1>10, <1>11, <1>12, <1>13, <1>14, <1>15
     DEF SendInv, SendsWhatWasWritten, Pointers

(* The chip sends the writes of a packet one behind the other and nothing  *)
(* else, wherever the ring has got to and whichever packets before it      *)
(* could not be sent.                                                      *)
THEOREM SendsWhatWasWrittenHolds == SendSpec => []SendsWhatWasWritten
<1>1. SendInv /\ [SendNext]_sendVars => SendInv'
  <2> SUFFICES ASSUME SendInv, [SendNext]_sendVars
               PROVE  SendInv'
    OBVIOUS
  <2>1. CASE UNCHANGED sendVars
    BY <2>1 DEF sendVars, SendInv, SendsWhatWasWritten
  <2> QED BY <2>1, SendBegins, SendWrites, SendEnds DEF SendNext
<1>2. SendInv => SendsWhatWasWritten
  BY DEF SendInv
<1> QED BY <1>1, <1>2, SendInvInit, PTL DEF SendSpec
-----------------------------------------------------------------------------
(* The packets of this program are short: a buffer with room for them is   *)
(* never full, and no write is cut off.                                    *)
LargestWrite == 64
MostWrites   == 13
RoomForPackets == MostWrites * LargestWrite <= SendBuffer

Short(s, n) == s \in Seq(1..LargestWrite) /\ Len(s) = n

LEMMA ShortJoined ==
  ASSUME NEW s, NEW t, NEW m \in Nat, NEW n \in Nat, Short(s, m), Short(t, n)
  PROVE  Short(s \o t, m + n)
BY DEF Short

LEMMA ShortRepeated ==
  ASSUME NEW n \in 1..LargestWrite, NEW k \in Nat
  PROVE  Short(Repeated(n, k), k)
BY DEF Repeated, Short

LEMMA PacketsShort ==
  ASSUME NEW p \in DOMAIN Packets
  PROVE  Packets[p] \in Seq(1..LargestWrite) /\ Len(Packets[p]) <= MostWrites
<1>1. Short(<<1, 1, 1, 64, 1>>, 5) /\ Short(<<28, 16>>, 2)
  BY DEF Short, LargestWrite
<1>2. Short(<<30, 9>>, 2) /\ Short(<<30, 12, 9>>, 3)
  BY DEF Short, LargestWrite
<1>3. Short(<<1, 11, 1, 3, 1, 2, 2>>, 7)
  BY DEF Short, LargestWrite
<1>4. Short(Repeated(32, 6), 6) /\ Short(Repeated(2, 6), 6)
  <2>1. 32 \in 1..LargestWrite /\ 2 \in 1..LargestWrite /\ 6 \in Nat
    BY DEF LargestWrite
  <2> QED BY <2>1, ShortRepeated
<1>5. 2 \in Nat /\ 3 \in Nat /\ 6 \in Nat /\ 7 \in Nat /\ 2 + 6 \in Nat
  OBVIOUS
<1>6. Short(<<28, 16>> \o Repeated(32, 6), 2 + 6)
  BY <1>1, <1>4, <1>5, ShortJoined, Zenon
<1>7. Short((<<28, 16>> \o Repeated(32, 6)) \o <<30, 9>>, (2 + 6) + 2)
  BY <1>2, <1>5, <1>6, ShortJoined, Zenon
<1>8. Short((<<28, 16>> \o Repeated(32, 6)) \o <<30, 12, 9>>, (2 + 6) + 3)
  BY <1>2, <1>5, <1>6, ShortJoined, Zenon
<1>9. Short(Repeated(2, 6) \o <<1, 11, 1, 3, 1, 2, 2>>, 6 + 7)
  BY <1>3, <1>4, <1>5, ShortJoined, Zenon
<1>10. /\ Short(Packets.internet, 5) /\ Short(Packets.dhcpDiscover, (2 + 6) + 2)
       /\ Short(Packets.dhcpRequest, (2 + 6) + 3) /\ Short(Packets.dnsQuery, 6 + 7)
  BY <1>1, <1>7, <1>8, <1>9 DEF Packets
<1>11. /\ p \in {"internet", "dhcpDiscover", "dhcpRequest", "dnsQuery"}
  BY DEF Packets
<1>12. \E n \in 0..13 : Short(Packets[p], n)
  BY <1>10, <1>11
<1> QED BY <1>12 DEF Short, MostWrites

(* SendTypeOK made inductive: so many writes, so many bytes at most.       *)
SendBounded ==
  /\ SendTypeOK
  /\ packet_of /= "none" => /\ Len(pieces) <= Len(Packets[packet_of])
                            /\ offset <= LargestWrite * Len(pieces)
                            /\ sends < SendMax

LEMMA SendBoundedWrites ==
  ASSUME RoomForPackets, SendBounded, WritePiece
  PROVE  SendBounded'
<1> DEFINE k == Len(pieces)
           len == Packets[packet_of][k + 1]
           ptr == (tx_wr + offset) % PointerSize
           piece == [at |-> ptr, len |-> len]
<1>1. /\ PointerSize \in Nat \ {0} /\ SendBuffer \in Nat
      /\ tx_wr \in 0..(PointerSize - 1) /\ offset \in Nat /\ k \in Nat
      /\ pieces \in Seq([at : 0..(PointerSize - 1), len : 1..SendBuffer])
      /\ packet_of \in DOMAIN Packets
  BY UdpSendAssumption DEF SendBounded, SendTypeOK, WritePiece
<1>2. k < Len(Packets[packet_of]) /\ offset <= LargestWrite * k
  BY DEF SendBounded, WritePiece
<1>3. /\ Packets[packet_of] \in Seq(1..LargestWrite)
      /\ Len(Packets[packet_of]) <= MostWrites
  BY <1>1, PacketsShort
<1>4. len \in 1..LargestWrite /\ k + 1 <= MostWrites
  <2>1. Len(Packets[packet_of]) \in Nat
    BY <1>3
  <2>2. k + 1 \in 1..Len(Packets[packet_of]) /\ k + 1 <= MostWrites
    BY <1>1, <1>2, <1>3, <2>1 DEF MostWrites
  <2>3. ASSUME NEW R, NEW s \in Seq(R), NEW i \in 1..Len(s)
        PROVE  s[i] \in R
    OBVIOUS
  <2>4. Packets[packet_of][k + 1] \in 1..LargestWrite
    BY <1>3, <2>2, <2>3, Zenon
  <2> QED BY <2>2, <2>4
<1> HIDE DEF len, k
<1>5. len \in 1..SendBuffer /\ ~(len > SendBuffer)
  BY <1>1, <1>4 DEF RoomForPackets, LargestWrite, MostWrites
<1>6. /\ pieces' = Append(pieces, piece) /\ offset' = offset + len
      /\ tx_end' = (ptr + len) % PointerSize
      /\ UNCHANGED <<tx_wr, packet_of, sends>>
  BY <1>5 DEF WritePiece, Advanced, len, k
<1>7. ptr \in 0..(PointerSize - 1) /\ ptr + len \in Int
  <2>1. tx_wr + offset \in Int
    BY <1>1
  <2> QED BY <1>1, <1>5, <2>1, ModRange
<1>8. tx_end' \in 0..(PointerSize - 1)
  BY <1>1, <1>6, <1>7, ModRange
<1> HIDE DEF ptr
<1>9. /\ pieces' \in Seq([at : 0..(PointerSize - 1), len : 1..SendBuffer])
      /\ Len(pieces') = k + 1
  <2>1. piece \in [at : 0..(PointerSize - 1), len : 1..SendBuffer]
    BY <1>5, <1>7
  <2> QED BY <1>1, <1>6, <2>1 DEF k
<1>10. offset' \in Nat /\ offset' <= LargestWrite * (k + 1)
  BY <1>1, <1>2, <1>4, <1>6 DEF LargestWrite
<1>11. offset' <= SendBuffer
  BY <1>1, <1>4, <1>10 DEF RoomForPackets, LargestWrite, MostWrites
<1>12. SendTypeOK'
  BY <1>1, <1>6, <1>8, <1>9, <1>10, <1>11 DEF SendBounded, SendTypeOK
<1>13. Len(pieces') <= Len(Packets[packet_of'])
  BY <1>1, <1>2, <1>3, <1>6, <1>9
<1>14. sends' < SendMax
  BY <1>6 DEF SendBounded, WritePiece
<1> QED BY <1>6, <1>9, <1>10, <1>12, <1>13, <1>14 DEF SendBounded

LEMMA SendBoundedNext ==
  ASSUME RoomForPackets, SendBounded, [SendNext]_sendVars
  PROVE  SendBounded'
<1>1. CASE BeginPacket
  <2>1. /\ packet_of' \in DOMAIN Packets /\ pieces' = <<>> /\ offset' = 0
        /\ sends < SendMax /\ UNCHANGED <<tx_wr, tx_end, sends>>
    BY <1>1 DEF BeginPacket
  <2>2. Len(Packets[packet_of']) \in Nat /\ SendBuffer \in Nat
    BY <2>1, PacketsShort, UdpSendAssumption
  <2> QED BY <2>1, <2>2 DEF SendBounded, SendTypeOK, LargestWrite
<1>2. CASE WritePiece
  BY <1>2, SendBoundedWrites
<1>3. CASE EndPacket
  <2>1. sends < SendMax => sends + 1 \in 0..SendMax
    BY UdpSendAssumption DEF SendBounded, SendTypeOK
  <2> QED BY <1>3, <2>1 DEF EndPacket, SendBounded, SendTypeOK
<1>4. CASE UNCHANGED sendVars
  BY <1>4 DEF sendVars, SendBounded, SendTypeOK
<1> QED BY <1>1, <1>2, <1>3, <1>4 DEF SendNext

(* The offset stays within the buffer, and what is written within the      *)
(* ring: no write of a packet of this program is cut off.                  *)
THEOREM SendTypeCorrect ==
  ASSUME RoomForPackets
  PROVE  SendSpec => []SendTypeOK
<1>1. SendInit => SendBounded
  BY UdpSendAssumption DEF SendInit, SendBounded, SendTypeOK
<1>2. SendBounded /\ [SendNext]_sendVars => SendBounded'
  BY SendBoundedNext
<1>3. SendBounded => SendTypeOK
  BY DEF SendBounded
<1> QED BY <1>1, <1>2, <1>3, PTL DEF SendSpec
-----------------------------------------------------------------------------
(* The n-th of a finite set of numbers.                                    *)
UpTo(S, i) == {j \in S : j <= i}

LEMMA RankRange ==
  ASSUME NEW S, S \subseteq Int, IsFiniteSet(S), NEW i \in S
  PROVE  Cardinality(UpTo(S, i)) \in 1..Cardinality(S)
<1>1. UpTo(S, i) \in SUBSET S /\ i \in UpTo(S, i)
  BY DEF UpTo
<1>2. /\ IsFiniteSet(UpTo(S, i)) /\ Cardinality(UpTo(S, i)) <= Cardinality(S)
  BY <1>1, FS_Subset
<1>3. Cardinality(UpTo(S, i)) \in Nat /\ Cardinality(S) \in Nat
  BY <1>2, FS_CardinalityType
<1>4. Cardinality(UpTo(S, i)) /= 0
  BY <1>1, <1>2, FS_EmptySet
<1> QED BY <1>2, <1>3, <1>4

LEMMA RankUnique ==
  ASSUME NEW S, S \subseteq Int, IsFiniteSet(S), NEW i \in S, NEW j \in S,
         Cardinality(UpTo(S, i)) = Cardinality(UpTo(S, j))
  PROVE  i = j
<1>1. ASSUME NEW a \in S, NEW b \in S, a < b,
             Cardinality(UpTo(S, a)) = Cardinality(UpTo(S, b))
      PROVE  FALSE
  <2>1. a \in Int /\ b \in Int
    OBVIOUS
  <2>2. UpTo(S, a) \in SUBSET UpTo(S, b)
    <3>1. \A k \in S : k \in Int /\ (k <= a => k <= b)
      BY <1>1, <2>1
    <3> QED BY <3>1 DEF UpTo
  <2>3. UpTo(S, b) \in SUBSET S
    BY DEF UpTo
  <2>4. IsFiniteSet(UpTo(S, b))
    BY <2>3, FS_Subset
  <2>5. UpTo(S, a) = UpTo(S, b)
    BY <1>1, <2>2, <2>4, FS_Subset
  <2>6. b \in UpTo(S, b) /\ b \notin UpTo(S, a)
    BY <1>1, <2>1 DEF UpTo
  <2> QED BY <2>5, <2>6
<1>2. i \in Int /\ j \in Int
  OBVIOUS
<1>3. ~(i < j) /\ ~(j < i)
  BY <1>1
<1> QED BY <1>2, <1>3

LEMMA NthIs ==
  ASSUME NEW S, S \subseteq Int, IsFiniteSet(S), NEW i \in S
  PROVE  Nth(S, Cardinality(UpTo(S, i))) = i
BY RankUnique DEF Nth, UpTo

LEMMA NthExists ==
  ASSUME NEW S, S \subseteq Int, IsFiniteSet(S), NEW n \in 1..Cardinality(S)
  PROVE  \E i \in S : Cardinality(UpTo(S, i)) = n
<1> DEFINE T == 1..Cardinality(S)
           f == [i \in S |-> Cardinality(UpTo(S, i))]
<1>1. Cardinality(S) \in Nat
  BY FS_CardinalityType
<1>2. IsFiniteSet(T) /\ Cardinality(T) = Cardinality(S)
  <2>1. /\ IsFiniteSet(T)
        /\ Cardinality(T) = IF 1 > Cardinality(S) THEN 0 ELSE Cardinality(S) - 1 + 1
    BY <1>1, FS_Interval
  <2> QED BY <2>1, <1>1
<1>3. f \in [S -> T]
  BY RankRange
<1>4. f \in Injection(S, T)
  BY <1>3, RankUnique DEF Injection, IsInjective
<1>5. f \in Surjection(S, T)
  BY <1>2, <1>4, FS_Injection
<1> QED BY <1>5 DEF Surjection

LEMMA NthType ==
  ASSUME NEW S, S \subseteq Int, IsFiniteSet(S), NEW n \in 1..Cardinality(S)
  PROVE  Nth(S, n) \in S /\ Cardinality(UpTo(S, Nth(S, n))) = n
<1>1. PICK i \in S : Cardinality(UpTo(S, i)) = n
  BY NthExists
<1>2. Nth(S, n) = i
  BY <1>1, NthIs
<1> QED BY <1>1, <1>2

(* Behind the last.                                                        *)
LEMMA NthAppended ==
  ASSUME NEW S, S \subseteq Int, IsFiniteSet(S), NEW m \in Int,
         \A i \in S : i < m
  PROVE  /\ IsFiniteSet(S \cup {m})
         /\ Cardinality(S \cup {m}) = Cardinality(S) + 1
         /\ Nth(S \cup {m}, Cardinality(S) + 1) = m
         /\ \A n \in 1..Cardinality(S) : Nth(S \cup {m}, n) = Nth(S, n)
<1> DEFINE T == S \cup {m}
<1>1. IsFiniteSet(T) /\ Cardinality(T) = Cardinality(S) + 1
  BY FS_AddElement
<1>2. Cardinality(S) \in Nat /\ T \subseteq Int
  BY FS_CardinalityType
<1>3. UpTo(T, m) = T
  <2>1. \A k \in T : k <= m
    OBVIOUS
  <2> QED BY <2>1 DEF UpTo
<1>4. Nth(T, Cardinality(S) + 1) = m
  BY <1>1, <1>2, <1>3, NthIs
<1>5. ASSUME NEW n \in 1..Cardinality(S)
      PROVE  Nth(T, n) = Nth(S, n)
  <2> DEFINE i == Nth(S, n)
  <2>1. i \in S /\ Cardinality(UpTo(S, i)) = n
    BY NthType
  <2> HIDE DEF i
  <2>2. UpTo(T, i) = UpTo(S, i)
    <3>1. ~(m <= i)
      BY <2>1
    <3> QED BY <3>1 DEF UpTo
  <2>3. Nth(T, n) = i
    BY <1>1, <1>2, <2>1, <2>2, NthIs
  <2> QED BY <2>3 DEF i
<1> QED BY <1>1, <1>4, <1>5

(* Without the first.                                                      *)
LEMMA NthTail ==
  ASSUME NEW S, S \subseteq Int, IsFiniteSet(S), NEW m \in Int,
         \A i \in S : m < i
  PROVE  /\ IsFiniteSet(S \cup {m})
         /\ Cardinality(S \cup {m}) = Cardinality(S) + 1
         /\ Nth(S \cup {m}, 1) = m
         /\ \A n \in 1..Cardinality(S) : Nth(S \cup {m}, n + 1) = Nth(S, n)
<1> DEFINE T == S \cup {m}
<1>1. IsFiniteSet(T) /\ Cardinality(T) = Cardinality(S) + 1
  BY FS_AddElement
<1>2. Cardinality(S) \in Nat /\ T \subseteq Int
  BY FS_CardinalityType
<1>3. Nth(T, 1) = m
  <2>1. UpTo(T, m) = {m}
    <3>1. \A k \in S : ~(k <= m)
      OBVIOUS
    <3>2. m <= m
      OBVIOUS
    <3> QED BY <3>1, <3>2 DEF UpTo
  <2>2. Cardinality(UpTo(T, m)) = 1
    BY <2>1, FS_Singleton
  <2>3. Nth(T, Cardinality(UpTo(T, m))) = m
    BY <1>1, <1>2, NthIs
  <2> QED BY <2>2, <2>3
<1>4. ASSUME NEW n \in 1..Cardinality(S)
      PROVE  Nth(T, n + 1) = Nth(S, n)
  <2> DEFINE i == Nth(S, n)
  <2>1. i \in S /\ Cardinality(UpTo(S, i)) = n
    BY NthType
  <2> HIDE DEF i
  <2>2. UpTo(T, i) = UpTo(S, i) \cup {m} /\ m \notin UpTo(S, i)
    BY <2>1 DEF UpTo
  <2>3. UpTo(S, i) \in SUBSET S
    BY DEF UpTo
  <2>4. IsFiniteSet(UpTo(S, i))
    BY <2>3, FS_Subset
  <2>5. Cardinality(UpTo(T, i)) = n + 1
    BY <2>1, <2>2, <2>4, FS_AddElement
  <2>6. Nth(T, n + 1) = i
    BY <1>1, <1>2, <2>1, <2>5, NthIs
  <2> QED BY <2>6 DEF i
<1> QED BY <1>1, <1>3, <1>4

(* All of them moved.                                                      *)
Moved(S, c) == {i + c : i \in S}

LEMMA MovedFinite ==
  ASSUME NEW S, S \subseteq Int, IsFiniteSet(S), NEW c \in Int
  PROVE  /\ Moved(S, c) \subseteq Int /\ IsFiniteSet(Moved(S, c))
         /\ Cardinality(Moved(S, c)) = Cardinality(S)
<1> DEFINE f == [i \in S |-> i + c]
<1>1. Moved(S, c) \subseteq Int
  BY DEF Moved
<1>2. f \in Bijection(S, Moved(S, c))
  BY DEF Bijection, Injection, IsInjective, Surjection, Moved
<1>3. ExistsBijection(S, Moved(S, c))
  BY <1>2 DEF ExistsBijection
<1> QED BY <1>1, <1>3, FS_Bijection

LEMMA NthMoved ==
  ASSUME NEW S, S \subseteq Int, IsFiniteSet(S), NEW c \in Int,
         NEW n \in 1..Cardinality(S)
  PROVE  Nth(Moved(S, c), n) = Nth(S, n) + c
<1> DEFINE i == Nth(S, n)
<1>1. i \in S /\ Cardinality(UpTo(S, i)) = n
  BY NthType
<1> HIDE DEF i
<1>2. i + c \in Moved(S, c) /\ UpTo(S, i) \in SUBSET S /\ UpTo(S, i) \subseteq Int
  BY <1>1 DEF Moved, UpTo
<1>3. UpTo(Moved(S, c), i + c) = Moved(UpTo(S, i), c)
  BY <1>1 DEF UpTo, Moved
<1>4. IsFiniteSet(UpTo(S, i))
  BY <1>2, FS_Subset
<1>5. Cardinality(UpTo(Moved(S, c), i + c)) = n
  BY <1>1, <1>2, <1>3, <1>4, MovedFinite
<1>6. Nth(Moved(S, c), n) = i + c
  BY <1>2, <1>5, MovedFinite, NthIs
<1> QED BY <1>6 DEF i
-----------------------------------------------------------------------------
(* Receiving.  The ring of a socket, from wherever it was cut: the bytes   *)
(* of a datagram follow each other, the last bytes of all of them have     *)
(* come, and behind each begins a header.                                  *)
IsHeader(c) == c.left = c.of + HeaderSize

Whole(q, i) ==
  /\ i + q[i].left <= Len(q) + 1
  /\ q[i].left <= q[i].of + HeaderSize
  /\ \A j \in 0..(q[i].left - 1) :
       q[i + j] = [of |-> q[i].of, left |-> q[i].left - j]
  /\ i + q[i].left <= Len(q) => IsHeader(q[i + q[i].left])

Ring(q) == \A i \in 1..Len(q) : Whole(q, i)

LEMMA SocketConstants ==
  /\ SocketCount \in Nat \ {0} /\ HeaderSize \in Nat \ {0}
  /\ CommitAt \in 1..256 /\ BufferSize \in Nat /\ AddressSize \in Nat \ {0}
  /\ BufferSize < AddressSize /\ ReadMax \in Nat \ {0}
  /\ \A d \in Sizes : d \in Nat /\ d + HeaderSize <= BufferSize /\ d <= BufferSize
  /\ \A c \in Bytes : c.of \in Sizes /\ c.of \in Nat /\ c.left \in Nat \ {0}
                      /\ c.left <= BufferSize
<1>1. /\ SocketCount \in Nat \ {0} /\ HeaderSize \in Nat \ {0}
      /\ CommitAt \in 1..256 /\ BufferSize \in Nat /\ AddressSize \in Nat \ {0}
      /\ BufferSize < AddressSize /\ ReadMax \in Nat \ {0}
  BY UdpSocketAssumption
<1>2. ASSUME NEW d \in Sizes
      PROVE  d \in Nat /\ d + HeaderSize <= BufferSize /\ d <= BufferSize
  <2>1. d \in 0..(BufferSize - HeaderSize)
    BY UdpSocketAssumption
  <2> QED BY <1>1, <2>1
<1> QED BY <1>1, <1>2 DEF Bytes

LEMMA RingCut ==
  ASSUME NEW q \in Seq(Bytes), Ring(q), NEW n \in 0..Len(q)
  PROVE  LET r == SubSeq(q, n + 1, Len(q))
         IN /\ r \in Seq(Bytes) /\ Len(r) = Len(q) - n
            /\ \A i \in 1..Len(r) : r[i] = q[n + i]
            /\ Ring(r)
<1> DEFINE r == SubSeq(q, n + 1, Len(q))
<1>1. Len(q) \in Nat /\ n \in Nat /\ n <= Len(q)
  OBVIOUS
<1>2. /\ r \in Seq(Bytes) /\ Len(r) = Len(q) - n
      /\ \A i \in 1..Len(r) : r[i] = q[n + i]
  BY <1>1
<1> HIDE DEF r
<1>3. ASSUME NEW i \in 1..Len(r)
      PROVE  Whole(r, i)
  <2> DEFINE c == q[n + i]
  <2>1. n + i \in 1..Len(q) /\ r[i] = c /\ c \in Bytes
    BY <1>1, <1>2
  <2>2. Whole(q, n + i)
    BY <2>1 DEF Ring
  <2>3. c.left \in Nat \ {0} /\ c.of \in Nat
    BY <2>1, SocketConstants
  <2>4. (n + i) + c.left <= Len(q) + 1 /\ c.left <= c.of + HeaderSize
    BY <2>2 DEF Whole
  <2> HIDE DEF c
  <2>5. i + c.left <= Len(r) + 1
    BY <1>1, <1>2, <2>3, <2>4
  <2>6. ASSUME NEW j \in 0..(c.left - 1)
        PROVE  r[i + j] = [of |-> c.of, left |-> c.left - j]
    <3>1. i + j \in 1..Len(r) /\ n + (i + j) = (n + i) + j
      BY <1>1, <1>2, <2>3, <2>5
    <3>2. q[(n + i) + j] = [of |-> c.of, left |-> c.left - j]
      BY <2>2 DEF Whole, c
    <3> QED BY <3>1, <3>2, <1>2
  <2>7. ASSUME i + c.left <= Len(r)
        PROVE  IsHeader(r[i + c.left])
    <3>1. /\ i + c.left \in 1..Len(r) /\ n + (i + c.left) = (n + i) + c.left
          /\ (n + i) + c.left <= Len(q)
      BY <1>1, <1>2, <2>3, <2>7
    <3>2. IsHeader(q[(n + i) + c.left])
      BY <2>2, <3>1 DEF Whole, c
    <3> QED BY <3>1, <3>2, <1>2
  <2> QED BY <2>1, <2>4, <2>5, <2>6, <2>7 DEF Whole
<1> QED BY <1>2, <1>3 DEF Ring, r

(* What the chip puts into the ring when a datagram comes.                 *)
Arrived(d) ==
  [i \in 1..(HeaderSize + d) |-> [of |-> d, left |-> HeaderSize + d + 1 - i]]

LEMMA RingGrows ==
  ASSUME NEW q \in Seq(Bytes), Ring(q), NEW d \in Sizes
  PROVE  LET r == q \o Arrived(d)
         IN /\ r \in Seq(Bytes) /\ Len(r) = Len(q) + HeaderSize + d
            /\ \A i \in 1..Len(q) : r[i] = q[i]
            /\ \A i \in (Len(q) + 1)..Len(r) :
                 r[i] = [of |-> d, left |-> Len(r) + 1 - i]
            /\ Ring(r)
<1> DEFINE a == Arrived(d)
           n == HeaderSize + d
           r == q \o a
<1>1. /\ n \in Nat \ {0} /\ n <= BufferSize /\ d \in Nat /\ BufferSize \in Nat
      /\ HeaderSize \in Nat \ {0}
  BY SocketConstants
<1>2. \A i \in 1..n : [of |-> d, left |-> n + 1 - i] \in Bytes
  BY <1>1 DEF Bytes
<1>3. a \in Seq(Bytes) /\ Len(a) = n /\ \A i \in 1..n : a[i] = [of |-> d, left |-> n + 1 - i]
  BY <1>1, <1>2 DEF Arrived
<1> HIDE DEF a
<1>4. /\ r \in Seq(Bytes) /\ Len(r) = Len(q) + n /\ Len(q) \in Nat
      /\ \A i \in 1..Len(q) : r[i] = q[i]
      /\ \A i \in 1..n : r[Len(q) + i] = a[i]
  BY <1>1, <1>3
<1> HIDE DEF r
<1>5. \A i \in (Len(q) + 1)..Len(r) : r[i] = [of |-> d, left |-> Len(r) + 1 - i]
  <2> TAKE i \in (Len(q) + 1)..Len(r)
  <2>1. i - Len(q) \in 1..n /\ Len(q) + (i - Len(q)) = i
        /\ n + 1 - (i - Len(q)) = Len(r) + 1 - i
    BY <1>1, <1>4
  <2> QED BY <2>1, <1>3, <1>4
<1>6. ASSUME NEW i \in (Len(q) + 1)..Len(r)
      PROVE  Whole(r, i)
  <2>1. r[i].of = d /\ r[i].left = Len(r) + 1 - i
    <3>1. r[i] = [of |-> d, left |-> Len(r) + 1 - i]
      BY <1>5
    <3> QED BY <3>1
  <2>2. i \in Int /\ Len(r) \in Int /\ i + (Len(r) + 1 - i) = Len(r) + 1
        /\ Len(r) + 1 - i <= d + HeaderSize
    BY <1>1, <1>4
  <2>3. ASSUME NEW j \in 0..((Len(r) + 1 - i) - 1)
        PROVE  r[i + j] = [of |-> d, left |-> (Len(r) + 1 - i) - j]
    <3>1. i + j \in (Len(q) + 1)..Len(r)
          /\ Len(r) + 1 - (i + j) = (Len(r) + 1 - i) - j
      <4>1. /\ Len(q) \in Nat /\ Len(r) \in Nat /\ i \in Int
            /\ Len(q) + 1 <= i /\ i <= Len(r)
        BY <1>4
      <4>2. j \in Int /\ 0 <= j /\ j <= Len(r) - i
        BY <4>1
      <4> QED BY <4>1, <4>2
    <3> QED BY <3>1, <1>5
  <2>4. ~(i + (Len(r) + 1 - i) <= Len(r))
    BY <2>2
  <2> QED BY <2>1, <2>2, <2>3, <2>4 DEF Whole
<1>7. ASSUME NEW i \in 1..Len(q)
      PROVE  Whole(r, i)
  <2> DEFINE c == q[i]
  <2>1. Whole(q, i) /\ r[i] = c /\ c \in Bytes
    BY <1>4 DEF Ring
  <2>2. c.left \in Nat \ {0} /\ c.of \in Nat
    BY <2>1, SocketConstants
  <2>3. i + c.left <= Len(q) + 1 /\ c.left <= c.of + HeaderSize
    BY <2>1 DEF Whole
  <2> HIDE DEF c
  <2>4. i + c.left <= Len(r) + 1
    BY <1>1, <1>4, <2>2, <2>3
  <2>5. ASSUME NEW j \in 0..(c.left - 1)
        PROVE  r[i + j] = [of |-> c.of, left |-> c.left - j]
    <3>1. i + j \in 1..Len(q)
      BY <1>4, <2>2, <2>3
    <3>2. q[i + j] = [of |-> c.of, left |-> c.left - j]
      BY <2>1 DEF Whole, c
    <3> QED BY <3>1, <3>2, <1>4
  <2>6. ASSUME i + c.left <= Len(r)
        PROVE  IsHeader(r[i + c.left])
    <3>1. CASE i + c.left <= Len(q)
      <4>1. i + c.left \in 1..Len(q)
        BY <3>1, <2>2, <1>4
      <4>2. IsHeader(q[i + c.left])
        BY <3>1, <2>1 DEF Whole, c
      <4> QED BY <4>1, <4>2, <1>4
    <3>2. CASE i + c.left = Len(q) + 1
      <4>1. /\ Len(q) + 1 \in (Len(q) + 1)..Len(r)
            /\ Len(r) + 1 - (Len(q) + 1) = d + HeaderSize
        BY <1>1, <1>4, <3>2, <2>6
      <4>2. r[Len(q) + 1] = [of |-> d, left |-> d + HeaderSize]
        BY <4>1, <1>5
      <4> QED BY <4>2, <3>2 DEF IsHeader
    <3>3. i + c.left <= Len(q) \/ i + c.left = Len(q) + 1
      BY <2>2, <2>3, <1>4
    <3> QED BY <3>1, <3>2, <3>3
  <2> QED BY <2>1, <2>3, <2>4, <2>5, <2>6 DEF Whole
<1>8. Ring(r)
  <2>1. \A i \in 1..Len(r) : i \in 1..Len(q) \/ i \in (Len(q) + 1)..Len(r)
    BY <1>4
  <2> QED BY <2>1, <1>6, <1>7 DEF Ring
<1>9. Len(r) = Len(q) + HeaderSize + d
  BY <1>1, <1>4
<1> QED BY <1>4, <1>5, <1>8, <1>9 DEF r, a
-----------------------------------------------------------------------------
(* The driver knows where in the ring it is, and does not think there is   *)
(* more than there is.                                                     *)
Left(k) == Len(k.fifo) - k.RX_inc
Cell(k, i) == k.fifo[k.RX_inc + i]

InStep(k) ==
  /\ k \in SocketStates /\ Len(k.fifo) <= BufferSize
  /\ Ring(k.fifo)
  /\ k.RX_inc <= Len(k.fifo)
  /\ k.RX_RD = Wrapped(k.rd + k.RX_inc)
  /\ k.RX_RSR <= Left(k)

LEMMA StateType ==
  ASSUME NEW k \in SocketStates
  PROVE  /\ k.open \in BOOLEAN /\ k.fifo \in Seq(Bytes) /\ Len(k.fifo) \in Nat
         /\ k.rd \in 0..(AddressSize - 1) /\ k.rd \in Int
         /\ k.RX_RD \in 0..(AddressSize - 1) /\ k.RX_RD \in Int
         /\ k.RX_RSR \in Nat /\ k.RX_RSR \in 0..BufferSize
         /\ k.RX_inc \in 0..(CommitAt - 1) /\ k.RX_inc \in Nat
BY SocketConstants DEF SocketStates

(* Pointers that wrap, compared with where the chip is.                    *)
LEMMA Ahead ==
  ASSUME NEW a \in Int, NEW x \in Int, NEW y \in Int, x + y \in 0..BufferSize
  PROVE  /\ Wrapped(Wrapped(a + x) + y - a) = x + y
         /\ Wrapped(Wrapped(a + x) + y) = Wrapped(a + (x + y))
         /\ Wrapped(a + x) \in 0..(AddressSize - 1)
<1>1. AddressSize \in Nat \ {0} /\ a + x \in Int /\ y - a \in Int
  BY SocketConstants
<1>2. Wrapped(a + x) \in 0..(AddressSize - 1)
  BY <1>1, ModRange DEF Wrapped
<1>3. Wrapped(Wrapped(a + x) + (y - a)) = Wrapped((a + x) + (y - a))
  BY <1>1, ModAdd DEF Wrapped
<1>4. /\ Wrapped(a + x) + y - a = Wrapped(a + x) + (y - a)
      /\ (a + x) + (y - a) = x + y /\ (a + x) + y = a + (x + y)
  BY <1>1, <1>2
<1>5. x + y \in 0..(AddressSize - 1)
  BY SocketConstants
<1>6. Wrapped(x + y) = x + y
  BY <1>1, <1>5, ModSmall DEF Wrapped
<1>7. Wrapped(Wrapped(a + x) + y) = Wrapped((a + x) + y)
  BY <1>1, ModAdd DEF Wrapped
<1> QED BY <1>2, <1>3, <1>4, <1>6, <1>7

LEMMA RefreshedIs ==
  ASSUME NEW k, InStep(k)
  PROVE  Left(k) \in Nat /\ Refreshed(k) = Left(k) /\ Left(k) <= BufferSize
<1>1. Left(k) \in 0..BufferSize /\ Left(k) \in Nat
  BY StateType, SocketConstants DEF InStep, Left
<1>2. Left(k) \in 0..(AddressSize - 1) /\ AddressSize \in Nat \ {0}
  BY <1>1, SocketConstants
<1>3. Left(k) % AddressSize = Left(k)
  BY <1>2, ModSmall
<1> QED BY <1>1, <1>3 DEF Refreshed, Wrapped, Left

(* socketRecv returns as much as it is asked for, if there is as much.     *)
LEMMA CountIs ==
  ASSUME NEW k, InStep(k), NEW len \in Nat
  PROVE  /\ Count(k, len) = IF len <= Left(k) THEN len ELSE Left(k)
         /\ Count(k, len) \in Nat /\ Count(k, len) <= Left(k)
         /\ Known(k, len) - Count(k, len) \in 0..(Left(k) - Count(k, len))
<1>1. Left(k) \in Nat /\ Refreshed(k) = Left(k) /\ k.RX_RSR \in Nat /\ k.RX_RSR <= Left(k)
  BY RefreshedIs, StateType DEF InStep
<1>2. Known(k, len) \in Nat /\ Known(k, len) <= Left(k)
      /\ (Known(k, len) < len => Known(k, len) = Left(k))
  BY <1>1 DEF Known
<1>3. Count(k, len) = IF Known(k, len) > len THEN len ELSE Known(k, len)
  BY DEF Count
<1> QED BY <1>1, <1>2, <1>3

LEMMA ReceivedIs ==
  ASSUME NEW k, InStep(k), NEW len \in Nat
  PROVE  Received(k, len) = [i \in 1..Count(k, len) |-> Cell(k, i)]
<1>1. ASSUME NEW i \in 1..Count(k, len)
      PROVE  ByteAt(k, k.RX_RD + i - 1) = Cell(k, i)
  <2>1. /\ k.rd \in Int /\ k.RX_inc \in Nat /\ Len(k.fifo) \in Nat
        /\ Len(k.fifo) <= BufferSize /\ k.RX_RD = Wrapped(k.rd + k.RX_inc)
    BY StateType DEF InStep
  <2>2. Count(k, len) \in Nat /\ Count(k, len) <= Len(k.fifo) - k.RX_inc
    BY CountIs DEF Left
  <2>3. i \in Int /\ i - 1 \in Int /\ k.RX_inc + i \in 1..Len(k.fifo)
        /\ k.RX_inc + (i - 1) \in 0..BufferSize /\ k.RX_inc \in Int
    BY <2>1, <2>2, SocketConstants
  <2>4. Wrapped(k.RX_RD + (i - 1) - k.rd) = k.RX_inc + (i - 1)
    <3>1. Wrapped(Wrapped(k.rd + k.RX_inc) + (i - 1) - k.rd) = k.RX_inc + (i - 1)
      BY <2>1, <2>3, Ahead
    <3> QED BY <2>1, <3>1
  <2> DEFINE address == k.RX_RD + i - 1
  <2>5. address = k.RX_RD + (i - 1)
    BY <2>3, StateType DEF InStep
  <2>6. (k.RX_inc + (i - 1)) + 1 = k.RX_inc + i
    BY <2>3
  <2>7. k.RX_inc + i <= Len(k.fifo)
    BY <2>1, <2>3
  <2> HIDE DEF address
  <2>8. Wrapped(address - k.rd) + 1 = k.RX_inc + i
    <3>1. Wrapped(address - k.rd) = k.RX_inc + (i - 1)
      <4>1. k.RX_RD \in Int /\ k.rd \in Int /\ i - 1 \in Int
        BY <2>3, StateType DEF InStep
      <4> QED BY <4>1, <2>4, <2>5
    <3> QED BY <3>1, <2>6
  <2>9. ByteAt(k, address) = k.fifo[k.RX_inc + i]
    BY <2>7, <2>8 DEF ByteAt
  <2> QED BY <2>9 DEF Cell, address
<1> QED BY <1>1 DEF Received

(* What a call leaves is what was there, without what it has returned.     *)
Follows(k, after, n) ==
  /\ InStep(after) /\ after.open = k.open
  /\ Left(after) = Left(k) - n
  /\ \A i \in 1..Left(after) : Cell(after, i) = Cell(k, n + i)

LEMMA AfterAvailableIs ==
  ASSUME NEW k, InStep(k)
  PROVE  /\ Follows(k, AfterAvailable(k), 0)
         /\ AfterAvailable(k).RX_RSR = 0 => Left(k) = 0
<1>1. Left(k) \in Nat /\ Refreshed(k) = Left(k) /\ Left(k) \in 0..BufferSize
  BY RefreshedIs, SocketConstants
<1>2. /\ k \in SocketStates /\ k.RX_inc \in Int
  BY StateType DEF InStep
<1>3. \A i \in Int : 0 + i = i
  OBVIOUS
<1>4. CASE k.RX_RSR = 0
  <2> DEFINE after == [k EXCEPT !.RX_RSR = Left(k)]
  <2>1. AfterAvailable(k) = after
    BY <1>1, <1>4 DEF AfterAvailable
  <2>2. /\ after \in SocketStates /\ after.fifo = k.fifo /\ after.rd = k.rd
        /\ after.RX_inc = k.RX_inc /\ after.RX_RD = k.RX_RD
        /\ after.RX_RSR = Left(k) /\ after.open = k.open
    BY <1>1, <1>2 DEF SocketStates
  <2> HIDE DEF after
  <2>3. InStep(after) /\ Left(after) = Left(k) /\ \A i : Cell(after, i) = Cell(k, i)
    BY <1>1, <2>2 DEF InStep, Left, Cell
  <2> QED BY <1>1, <1>3, <2>1, <2>2, <2>3 DEF Follows
<1>5. CASE k.RX_RSR /= 0
  <2>1. AfterAvailable(k) = k
    BY <1>5 DEF AfterAvailable
  <2> QED BY <1>1, <1>3, <1>5, <2>1 DEF Follows
<1> QED BY <1>4, <1>5

LEMMA AfterRecvIs ==
  ASSUME NEW k, InStep(k), NEW len \in Nat
  PROVE  Follows(k, AfterRecv(k, len), Count(k, len))
<1> DEFINE ret == Count(k, len)
           ptr == Wrapped(k.RX_RD + ret)
           rest == Known(k, len) - ret
           inc == k.RX_inc + ret
<1>1. /\ k.open \in BOOLEAN /\ k.fifo \in Seq(Bytes) /\ Len(k.fifo) \in Nat
      /\ k.rd \in Int /\ k.RX_RD \in Int
      /\ k.RX_RSR \in Nat /\ k.RX_inc \in Nat
      /\ Len(k.fifo) <= BufferSize /\ k \in SocketStates
      /\ k.RX_RD = Wrapped(k.rd + k.RX_inc)
  BY StateType DEF InStep
<1>2. /\ ret \in Nat /\ ret <= Left(k) /\ Left(k) \in Nat /\ Left(k) <= BufferSize
      /\ rest \in 0..(Left(k) - ret)
  BY CountIs, RefreshedIs
<1> HIDE DEF ret, rest
<1>3. /\ inc \in Nat /\ inc <= Len(k.fifo) /\ inc \in 0..BufferSize
      /\ Len(k.fifo) - inc = Left(k) - ret
  <2>1. /\ inc \in Nat /\ inc <= Len(k.fifo)
        /\ Len(k.fifo) - inc = Left(k) - ret
    BY <1>1, <1>2 DEF Left
  <2> HIDE DEF inc
  <2> QED BY <2>1, <1>1, SocketConstants
<1>4. /\ ptr \in 0..(AddressSize - 1) /\ ptr = Wrapped(k.rd + inc)
      /\ Wrapped(ptr - k.rd) = inc
  <2>1. k.RX_inc \in Int /\ ret \in Int /\ k.RX_inc + ret \in 0..BufferSize
    BY <1>1, <1>2, <1>3
  <2>2. /\ ptr = Wrapped(k.rd + inc)
    BY <1>1, <2>1, Ahead
  <2>3. inc \in Int /\ 0 \in Int /\ inc + 0 \in 0..BufferSize /\ inc + 0 = inc
    BY <1>3
  <2> HIDE DEF inc, ptr
  <2>4. /\ Wrapped(k.rd + inc) \in 0..(AddressSize - 1)
        /\ Wrapped(Wrapped(k.rd + inc) + 0 - k.rd) = inc + 0
    BY <1>1, <2>3, Ahead
  <2>5. ptr \in Int /\ ptr + 0 = ptr
    BY <2>2, <2>4, SocketConstants
  <2>6. ptr + 0 - k.rd = ptr - k.rd /\ Wrapped(ptr + 0 - k.rd) = inc
    BY <1>1, <2>2, <2>3, <2>4, <2>5
  <2> QED BY <2>2, <2>4, <2>6
<1>5. rest \in 0..BufferSize
  BY <1>2, SocketConstants
<1> HIDE DEF ptr
<1>6. CASE ret = 0
  <2> DEFINE after == [k EXCEPT !.RX_RSR = rest]
  <2>1. AfterRecv(k, len) = after
    BY <1>6 DEF AfterRecv, ret, rest
  <2>2. /\ after \in SocketStates /\ after.fifo = k.fifo /\ after.rd = k.rd
        /\ after.RX_inc = k.RX_inc /\ after.RX_RD = k.RX_RD
        /\ after.RX_RSR = rest /\ after.open = k.open
    BY <1>1, <1>5 DEF SocketStates
  <2> HIDE DEF after
  <2>3. rest <= Left(k)
    BY <1>2, <1>6
  <2>4. InStep(after) /\ Left(after) = Left(k) /\ \A i : Cell(after, i) = Cell(k, i)
    BY <2>2, <2>3 DEF InStep, Left, Cell
  <2>5. Left(k) - ret = Left(k) /\ \A i \in Int : ret + i = i
    BY <1>2, <1>6
  <2> QED BY <1>2, <2>1, <2>2, <2>4, <2>5 DEF Follows, ret
<1>7. CASE ret /= 0 /\ (inc >= CommitAt \/ rest = 0)
  <2> DEFINE q == SubSeq(k.fifo, inc + 1, Len(k.fifo))
             after == [k EXCEPT !.RX_RSR = rest, !.RX_RD = ptr, !.RX_inc = 0,
                                !.rd = ptr, !.fifo = q]
  <2>1. AfterRecv(k, len) = after
    BY <1>4, <1>7 DEF AfterRecv, ret, rest, ptr
  <2>2. /\ q \in Seq(Bytes) /\ Len(q) = Len(k.fifo) - inc /\ Ring(q)
        /\ \A i \in 1..Len(q) : q[i] = k.fifo[inc + i]
    <3>1. inc \in 0..Len(k.fifo) /\ Ring(k.fifo)
      BY <1>1, <1>3 DEF InStep
    <3> HIDE DEF inc
    <3> QED BY <1>1, <3>1, RingCut
  <2> HIDE DEF q
  <2>3. 0 \in 0..(CommitAt - 1)
    BY SocketConstants
  <2>4. /\ after \in SocketStates /\ after.fifo = q /\ after.rd = ptr
        /\ after.RX_inc = 0 /\ after.RX_RD = ptr
        /\ after.RX_RSR = rest /\ after.open = k.open
    BY <1>1, <1>4, <1>5, <2>2, <2>3 DEF SocketStates
  <2> HIDE DEF after
  <2>5. Left(after) = Left(k) - ret /\ Len(q) \in Nat /\ Len(q) <= BufferSize
    <3> HIDE DEF inc
    <3>1. Len(q) \in Nat /\ Left(after) = Len(q) - 0
      BY <2>2, <2>4 DEF Left
    <3>2. Len(q) = Left(k) - ret
      BY <1>3, <2>2
    <3> QED BY <1>2, <3>1, <3>2, SocketConstants
  <2>6. ptr = Wrapped(ptr + 0)
    <3>1. ptr + 0 = ptr
      BY <1>4, SocketConstants
    <3> QED BY <1>4, <3>1, SocketConstants, ModSmall DEF Wrapped
  <2>7. InStep(after)
    BY <1>2, <2>2, <2>4, <2>5, <2>6 DEF InStep
  <2>8. ASSUME NEW i \in 1..Left(after)
        PROVE  Cell(after, i) = Cell(k, ret + i)
    <3>1. i \in 1..Len(q) /\ 0 + i = i /\ inc + i = k.RX_inc + (ret + i)
      BY <1>1, <1>2, <1>3, <2>2, <2>5
    <3>2. after.fifo[0 + i] = k.fifo[k.RX_inc + (ret + i)]
      BY <3>1, <2>2, <2>4
    <3> QED BY <3>2, <2>4 DEF Cell
  <2> QED BY <2>1, <2>4, <2>5, <2>7, <2>8 DEF Follows, ret
<1>8. CASE ret /= 0 /\ ~(inc >= CommitAt \/ rest = 0)
  <2> DEFINE after == [k EXCEPT !.RX_RSR = rest, !.RX_RD = ptr, !.RX_inc = inc]
  <2>1. AfterRecv(k, len) = after
    BY <1>8 DEF AfterRecv, ret, rest, ptr
  <2>2. inc \in 0..(CommitAt - 1)
    BY <1>3, <1>8, SocketConstants
  <2> HIDE DEF inc
  <2>3. /\ after \in SocketStates /\ after.fifo = k.fifo /\ after.rd = k.rd
        /\ after.RX_inc = inc /\ after.RX_RD = ptr
        /\ after.RX_RSR = rest /\ after.open = k.open
    BY <1>1, <1>4, <1>5, <2>2 DEF SocketStates
  <2> HIDE DEF after
  <2>4. Left(after) = Left(k) - ret
    BY <1>3, <2>3 DEF Left
  <2>5. InStep(after)
    BY <1>1, <1>2, <1>3, <1>4, <2>3, <2>4 DEF InStep
  <2>6. ASSUME NEW i \in 1..Left(after)
        PROVE  Cell(after, i) = Cell(k, ret + i)
    <3>1. inc + i = k.RX_inc + (ret + i)
      BY <1>1, <1>2 DEF inc
    <3> QED BY <3>1, <2>3 DEF Cell
  <2> QED BY <2>1, <2>3, <2>4, <2>5, <2>6 DEF Follows, ret
<1> QED BY <1>6, <1>7, <1>8
-----------------------------------------------------------------------------
(* An object and its socket: what is left of the datagram comes first, and *)
(* behind it a header.                                                     *)
Reading(k, left, of) ==
  /\ left \in Nat /\ left <= Left(k)
  /\ left > 0 => Cell(k, 1) = [of |-> of, left |-> left]
  /\ left < Left(k) => IsHeader(Cell(k, left + 1))

LEMMA WholeCells ==
  ASSUME NEW k, InStep(k), Left(k) > 0
  PROVE  LET c == Cell(k, 1)
         IN /\ c \in Bytes /\ c.left <= Left(k)
            /\ \A j \in 0..(c.left - 1) : Cell(k, j + 1) = [of |-> c.of, left |-> c.left - j]
            /\ c.left < Left(k) => IsHeader(Cell(k, c.left + 1))
<1> DEFINE c == Cell(k, 1)
           i == k.RX_inc + 1
<1>1. /\ k.fifo \in Seq(Bytes) /\ Len(k.fifo) \in Nat /\ k.RX_inc \in Nat
      /\ i \in 1..Len(k.fifo) /\ Ring(k.fifo)
  BY StateType DEF InStep, Left
<1>2. c = k.fifo[i] /\ c \in Bytes
  BY <1>1 DEF Cell
<1>3. c.left \in Nat \ {0}
  BY <1>2, SocketConstants
<1>4. Whole(k.fifo, i)
  BY <1>1 DEF Ring
<1> HIDE DEF c
<1>5. c.left <= Left(k)
  BY <1>1, <1>2, <1>3, <1>4 DEF Whole, Left
<1>6. ASSUME NEW j \in 0..(c.left - 1)
      PROVE  Cell(k, j + 1) = [of |-> c.of, left |-> c.left - j]
  <2>1. i + j = k.RX_inc + (j + 1)
    BY <1>1, <1>3
  <2>2. k.fifo[i + j] = [of |-> c.of, left |-> c.left - j]
    BY <1>2, <1>4 DEF Whole
  <2> QED BY <2>1, <2>2 DEF Cell
<1>7. ASSUME c.left < Left(k)
      PROVE  IsHeader(Cell(k, c.left + 1))
  <2>1. i + c.left = k.RX_inc + (c.left + 1) /\ i + c.left <= Len(k.fifo)
    BY <1>1, <1>3, <1>7 DEF Left
  <2>2. IsHeader(k.fifo[i + c.left])
    BY <1>2, <1>4, <2>1 DEF Whole
  <2> QED BY <2>1, <2>2 DEF Cell
<1> QED BY <1>2, <1>5, <1>6, <1>7 DEF c

LEMMA CellsOfDatagram ==
  ASSUME NEW k, InStep(k), NEW left, NEW of, Reading(k, left, of),
         NEW i \in 1..left
  PROVE  Cell(k, i) = [of |-> of, left |-> left + 1 - i]
<1>1. left \in Nat /\ left > 0 /\ Left(k) \in Nat /\ left <= Left(k)
  BY RefreshedIs DEF Reading
<1>2. Cell(k, 1) = [of |-> of, left |-> left] /\ Left(k) > 0
  BY <1>1 DEF Reading
<1>3. Cell(k, 1).of = of /\ Cell(k, 1).left = left
  BY <1>2
<1>4. \A j \in 0..(left - 1) : Cell(k, j + 1) = [of |-> of, left |-> left - j]
  BY <1>2, <1>3, WholeCells
<1>5. i - 1 \in 0..(left - 1) /\ (i - 1) + 1 = i /\ left - (i - 1) = left + 1 - i
  BY <1>1
<1>6. Cell(k, (i - 1) + 1) = [of |-> of, left |-> left - (i - 1)]
  BY <1>4, <1>5
<1> QED BY <1>5, <1>6

(* A call that returns n bytes of the datagram leaves the others.          *)
LEMMA ReadingOn ==
  ASSUME NEW k, InStep(k), NEW left, NEW of, Reading(k, left, of),
         NEW n \in 0..left, NEW after, Follows(k, after, n)
  PROVE  Reading(after, left - n, of)
<1>1. /\ left \in Nat /\ n \in Nat /\ left - n \in Nat
      /\ Left(k) \in Nat /\ left <= Left(k)
      /\ Left(after) = Left(k) - n /\ left - n <= Left(after)
  BY RefreshedIs DEF Reading, Follows
<1>2. ASSUME left - n > 0
      PROVE  Cell(after, 1) = [of |-> of, left |-> left - n]
  <2>1. n + 1 \in 1..left /\ 1 \in 1..Left(after) /\ left + 1 - (n + 1) = left - n
    BY <1>1, <1>2
  <2>2. Cell(after, 1) = Cell(k, n + 1)
    BY <2>1 DEF Follows
  <2>3. Cell(k, n + 1) = [of |-> of, left |-> left + 1 - (n + 1)]
    BY <2>1, CellsOfDatagram
  <2> QED BY <2>1, <2>2, <2>3
<1>3. ASSUME left - n < Left(after)
      PROVE  IsHeader(Cell(after, (left - n) + 1))
  <2>1. left < Left(k) /\ (left - n) + 1 \in 1..Left(after) /\ n + ((left - n) + 1) = left + 1
    BY <1>1, <1>3
  <2>2. Cell(after, (left - n) + 1) = Cell(k, left + 1)
    BY <2>1 DEF Follows
  <2> QED BY <2>1, <2>2 DEF Reading
<1> QED BY <1>1, <1>2, <1>3 DEF Reading

(* The header that parsePacket reads is whole, and so is its datagram.     *)
LEMMA HeaderIs ==
  ASSUME NEW k, InStep(k), NEW of, Reading(k, 0, of), Left(k) > 0
  PROVE  LET d == Cell(k, 1).of
         IN /\ d \in Sizes /\ HeaderSize + d <= Left(k)
            /\ IsHeader(Cell(k, 1))
            /\ Count(k, HeaderSize) = HeaderSize
            /\ Received(k, HeaderSize) /= <<>>
            /\ Received(k, HeaderSize)[1].of = d
            /\ SizeIn(Received(k, HeaderSize)) = d
            /\ Reading(AfterRecv(k, HeaderSize), d, d)
<1> DEFINE c == Cell(k, 1)
           d == c.of
           h == Received(k, HeaderSize)
           after == AfterRecv(k, HeaderSize)
<1>1. HeaderSize \in Nat \ {0} /\ HeaderSize \in Nat /\ Left(k) \in Nat
  BY SocketConstants, RefreshedIs
<1>2. c \in Bytes /\ c.left <= Left(k)
  BY WholeCells
<1>3. d \in Sizes /\ d \in Nat
  BY <1>2, SocketConstants
<1>4. c.left = d + HeaderSize /\ IsHeader(c)
  BY <1>1 DEF Reading, IsHeader
<1>5. \A j \in 0..(c.left - 1) : Cell(k, j + 1) = [of |-> c.of, left |-> c.left - j]
  BY WholeCells
<1>6. c.left < Left(k) => IsHeader(Cell(k, c.left + 1))
  BY WholeCells
<1> HIDE DEF c
<1>7. HeaderSize <= Left(k) /\ Count(k, HeaderSize) = HeaderSize
      /\ HeaderSize + d <= Left(k)
  BY <1>1, <1>2, <1>3, <1>4, CountIs
<1>8. h = [i \in 1..HeaderSize |-> Cell(k, i)]
  BY <1>1, <1>7, ReceivedIs
<1>9. Len(h) = HeaderSize /\ 1 \in 1..HeaderSize /\ HeaderSize \in 1..HeaderSize /\ h /= <<>>
  BY <1>1, <1>8
<1>10. h[1] = c /\ h[HeaderSize] = Cell(k, HeaderSize)
  BY <1>8, <1>9 DEF c
<1>11. Cell(k, HeaderSize) = [of |-> d, left |-> d + 1]
  <2>1. HeaderSize - 1 \in 0..(c.left - 1) /\ (HeaderSize - 1) + 1 = HeaderSize
        /\ c.left - (HeaderSize - 1) = d + 1
    BY <1>1, <1>3, <1>4
  <2>2. Cell(k, (HeaderSize - 1) + 1) = [of |-> d, left |-> c.left - (HeaderSize - 1)]
    BY <2>1, <1>5
  <2> QED BY <2>1, <2>2
<1>12. SizeIn(h) = d
  BY <1>9, <1>10, <1>11 DEF SizeIn
<1>13. Follows(k, after, HeaderSize)
  BY <1>1, <1>7, AfterRecvIs
<1>14. Reading(after, d, d)
  <2>1. Left(after) = Left(k) - HeaderSize /\ d <= Left(after) /\ Left(after) \in Nat
    BY <1>1, <1>3, <1>7, <1>13 DEF Follows
  <2>2. ASSUME d > 0
        PROVE  Cell(after, 1) = [of |-> d, left |-> d]
    <3>1. 1 \in 1..Left(after) /\ HeaderSize \in 0..(c.left - 1) /\ c.left - HeaderSize = d
      BY <1>1, <1>3, <1>4, <2>1, <2>2
    <3>2. Cell(k, HeaderSize + 1) = [of |-> d, left |-> d]
      BY <1>5, <3>1
    <3> QED BY <1>13, <3>1, <3>2 DEF Follows
  <2>3. ASSUME d < Left(after)
        PROVE  IsHeader(Cell(after, d + 1))
    <3>1. /\ d + 1 \in 1..Left(after) /\ c.left < Left(k)
          /\ HeaderSize + (d + 1) = c.left + 1
      BY <1>1, <1>3, <1>4, <2>1, <2>3
    <3>2. Cell(after, d + 1) = Cell(k, c.left + 1)
      BY <1>13, <3>1 DEF Follows
    <3> QED BY <1>6, <3>1, <3>2
  <2> QED BY <1>3, <2>1, <2>2, <2>3 DEF Reading
<1> QED BY <1>3, <1>4, <1>7, <1>9, <1>10, <1>12, <1>14 DEF c

(* A datagram that comes goes behind all of it.                            *)
Grown(k, d) == [k EXCEPT !.fifo = @ \o Arrived(d)]

LEMMA GrownSocket ==
  ASSUME NEW k, InStep(k), NEW d \in Sizes,
         Len(k.fifo) + (HeaderSize + d) <= BufferSize,
         NEW grown, grown = Grown(k, d)
  PROVE  /\ InStep(grown) /\ grown.open = k.open /\ grown.rd = k.rd
         /\ grown.RX_RD = k.RX_RD /\ grown.RX_inc = k.RX_inc
         /\ grown.fifo = k.fifo \o Arrived(d)
         /\ \A left, of : Reading(k, left, of) => Reading(grown, left, of)
<1>1. /\ k \in SocketStates /\ k.fifo \in Seq(Bytes) /\ Len(k.fifo) \in Nat
      /\ k.RX_inc \in Nat /\ k.RX_RSR \in Nat /\ d \in Nat /\ HeaderSize \in Nat \ {0}
      /\ k.RX_inc <= Len(k.fifo)
  BY StateType, SocketConstants DEF InStep
<1> DEFINE q == k.fifo \o Arrived(d)
<1>2. /\ q \in Seq(Bytes) /\ Len(q) = Len(k.fifo) + HeaderSize + d
      /\ \A i \in 1..Len(k.fifo) : q[i] = k.fifo[i]
      /\ \A i \in (Len(k.fifo) + 1)..Len(q) : q[i] = [of |-> d, left |-> Len(q) + 1 - i]
      /\ Ring(q)
  BY <1>1, RingGrows DEF InStep
<1> HIDE DEF q
<1>3. /\ grown \in SocketStates /\ grown.fifo = q /\ grown.open = k.open
      /\ grown.rd = k.rd /\ grown.RX_RD = k.RX_RD /\ grown.RX_inc = k.RX_inc
      /\ grown.RX_RSR = k.RX_RSR
  BY <1>1, <1>2 DEF SocketStates, Grown, q
<1>4. Left(grown) = Left(k) + (HeaderSize + d) /\ Left(k) \in Nat /\ Len(q) <= BufferSize
  <2> DEFINE n == Len(k.fifo)
             m == Len(q)
             inc == k.RX_inc
  <2>1. Left(k) = n - inc /\ Left(grown) = m - inc
    BY <1>3 DEF Left
  <2>2. n \in Nat /\ inc \in Nat /\ inc <= n /\ n + (HeaderSize + d) <= BufferSize
    BY <1>1
  <2>3. m = n + HeaderSize + d /\ d \in Nat /\ HeaderSize \in Nat
    BY <1>1, <1>2
  <2> HIDE DEF n, m, inc
  <2>4. n - inc \in Nat /\ m - inc = (n - inc) + (HeaderSize + d) /\ m <= BufferSize
    BY <2>2, <2>3
  <2> QED BY <2>1, <2>4 DEF m
<1>5. InStep(grown)
  <2>1. /\ k.RX_inc <= Len(q) /\ k.RX_RSR <= Left(grown)
    <3>1. k.RX_RSR <= Left(k)
      BY DEF InStep
    <3> QED BY <3>1, <1>1, <1>2, <1>4
  <2>2. k.RX_RD = Wrapped(k.rd + k.RX_inc)
    BY DEF InStep
  <2> QED BY <1>2, <1>3, <1>4, <2>1, <2>2 DEF InStep
<1>6. \A i \in 1..Left(k) : Cell(grown, i) = Cell(k, i)
  <2> TAKE i \in 1..Left(k)
  <2>1. k.RX_inc + i \in 1..Len(k.fifo)
    BY <1>1 DEF Left
  <2> QED BY <2>1, <1>2, <1>3 DEF Cell
<1>7. IsHeader(Cell(grown, Left(k) + 1))
  <2>1. /\ k.RX_inc + (Left(k) + 1) = Len(k.fifo) + 1
        /\ Len(k.fifo) + 1 \in (Len(k.fifo) + 1)..Len(q)
        /\ Len(q) + 1 - (Len(k.fifo) + 1) = d + HeaderSize
    BY <1>1, <1>2 DEF Left
  <2>2. q[Len(k.fifo) + 1] = [of |-> d, left |-> d + HeaderSize]
    BY <2>1, <1>2
  <2>3. Cell(grown, Left(k) + 1) = [of |-> d, left |-> d + HeaderSize]
    BY <2>1, <2>2, <1>3 DEF Cell
  <2> QED BY <2>3 DEF IsHeader
<1>8. ASSUME NEW left, NEW of, Reading(k, left, of)
      PROVE  Reading(grown, left, of)
  <2>1. left \in Nat /\ left <= Left(k) /\ left <= Left(grown)
    BY <1>1, <1>4, <1>8 DEF Reading
  <2>2. left > 0 => Cell(grown, 1) = [of |-> of, left |-> left]
    <3>1. left > 0 => 1 \in 1..Left(k)
      BY <1>4, <2>1
    <3> QED BY <3>1, <1>6, <1>8 DEF Reading
  <2>3. IsHeader(Cell(grown, left + 1))
    <3>1. CASE left < Left(k)
      <4>1. left + 1 \in 1..Left(k)
        BY <1>4, <2>1, <3>1
      <4> QED BY <4>1, <3>1, <1>6, <1>8 DEF Reading
    <3>2. CASE left = Left(k)
      BY <3>2, <1>7
    <3>3. left < Left(k) \/ left = Left(k)
      BY <1>4, <2>1
    <3> QED BY <3>1, <3>2, <3>3
  <2> QED BY <2>1, <2>2, <2>3 DEF Reading
<1> QED BY <1>3, <1>5, <1>8 DEF q
-----------------------------------------------------------------------------
(* The sockets change hands.  Chip and driver agree about a socket that    *)
(* was just opened.                                                        *)
GoodSockets(sockets) ==
  /\ sockets \in [Sockets -> SocketStates]
  /\ \A s \in Sockets :
       /\ Len(sockets[s].fifo) <= BufferSize
       /\ ~sockets[s].open => sockets[s].fifo = <<>>

LEMMA SocketsFinite ==
  ASSUME NEW S \in SUBSET Sockets, S /= {}
  PROVE  Min(S) \in S
<1>1. S \subseteq Int /\ IsFiniteSet(S)
  <2>1. 0 \in Int /\ SocketCount - 1 \in Int /\ Sockets \subseteq Int
    BY SocketConstants DEF Sockets
  <2>2. IsFiniteSet(0..(SocketCount - 1))
    BY <2>1, FS_Interval
  <2>3. S \in SUBSET (0..(SocketCount - 1))
    BY DEF Sockets
  <2> QED BY <2>1, <2>2, <2>3, FS_Subset
<1>2. Cardinality(S) \in Nat /\ Cardinality(S) /= 0
  BY <1>1, FS_CardinalityType, FS_EmptySet
<1>3. 1 \in 1..Cardinality(S)
  BY <1>2
<1>4. PICK m \in S : Cardinality(UpTo(S, m)) = 1
  BY <1>1, <1>3, NthExists
<1>5. ASSUME NEW y \in S, y < m
      PROVE  FALSE
  <2>1. UpTo(S, m) \in SUBSET S /\ y \in Int /\ m \in Int
    BY <1>1 DEF UpTo
  <2>2. IsFiniteSet(UpTo(S, m))
    BY <1>1, <2>1, FS_Subset
  <2>3. PICK x : UpTo(S, m) = {x}
    BY <1>4, <2>2, FS_Singleton
  <2>4. m <= m /\ y <= m /\ y /= m
    BY <1>5, <2>1
  <2>5. y \in UpTo(S, m) /\ m \in UpTo(S, m)
    BY <2>4 DEF UpTo
  <2> QED BY <2>3, <2>4, <2>5
<1>6. \A y \in S : m <= y
  <2> TAKE y \in S
  <2>1. y \in Int /\ m \in Int /\ ~(y < m)
    BY <1>1, <1>5
  <2> QED BY <2>1
<1> QED BY <1>6 DEF Min

LEMMA NoSocketIs ==
  /\ NoSocket \notin Sockets /\ NoSocket \in 0..SocketCount
  /\ \A s \in 0..SocketCount : s = NoSocket \/ s \in Sockets
  /\ \A s \in Sockets : s \in 0..SocketCount
BY SocketConstants DEF Sockets, NoSocket

LEMMA ClosedIs == ClosedSocket \in SocketStates
<1>1. 0 \in 0..(AddressSize - 1) /\ 0 \in 0..BufferSize /\ 0 \in 0..(CommitAt - 1)
  BY SocketConstants
<1>2. <<>> \in Seq(Bytes)
  OBVIOUS
<1> QED BY <1>1, <1>2 DEF ClosedSocket, SocketStates

LEMMA ShutIs ==
  ASSUME NEW sockets, GoodSockets(sockets), NEW s \in 0..SocketCount
  PROVE  /\ GoodSockets(Shut(sockets, s))
         /\ \A r \in Sockets : r /= s => Shut(sockets, s)[r] = sockets[r]
<1>1. CASE s = NoSocket
  BY <1>1 DEF Shut
<1>2. CASE s \in Sockets
  <2> DEFINE after == [sockets EXCEPT ![s] = ClosedSocket]
  <2>1. Shut(sockets, s) = after
    BY <1>2, NoSocketIs DEF Shut
  <2>2. /\ after \in [Sockets -> SocketStates] /\ after[s] = ClosedSocket
        /\ \A r \in Sockets : r /= s => after[r] = sockets[r]
    BY <1>2, ClosedIs DEF GoodSockets
  <2>3. ClosedSocket.fifo = <<>> /\ Len(ClosedSocket.fifo) <= BufferSize
    BY SocketConstants DEF ClosedSocket
  <2> QED BY <2>1, <2>2, <2>3 DEF GoodSockets
<1> QED BY <1>1, <1>2, NoSocketIs

LEMMA OpenedIs ==
  ASSUME NEW sockets, GoodSockets(sockets)
  PROVE  /\ GoodSockets(Opened(sockets)) /\ Begun(sockets) \in 0..SocketCount
         /\ \A r \in Sockets : r /= Begun(sockets) => Opened(sockets)[r] = sockets[r]
         /\ Begun(sockets) /= NoSocket =>
              LET k == Opened(sockets)[Begun(sockets)]
              IN /\ Begun(sockets) \in Sockets /\ ~sockets[Begun(sockets)].open
                 /\ k.open /\ k.fifo = <<>> /\ InStep(k)
                 /\ \A of : Reading(k, 0, of)
<1>1. CASE FreeSockets(sockets) = {}
  <2>1. Begun(sockets) = NoSocket /\ Opened(sockets) = sockets
    BY <1>1 DEF Begun, Opened
  <2> QED BY <2>1, NoSocketIs
<1>2. CASE FreeSockets(sockets) /= {}
  <2> DEFINE s == Begun(sockets)
             old == sockets[s]
             k == [old EXCEPT !.open = TRUE, !.RX_RSR = 0, !.RX_RD = old.rd, !.RX_inc = 0]
             after == Opened(sockets)
  <2>1. s \in FreeSockets(sockets)
    <3>1. FreeSockets(sockets) \in SUBSET Sockets
      BY DEF FreeSockets
    <3> QED BY <1>2, <3>1, SocketsFinite DEF Begun
  <2>2. s \in Sockets /\ ~old.open /\ s /= NoSocket
    BY <2>1, NoSocketIs DEF FreeSockets
  <2> HIDE DEF s
  <2>3. /\ old \in SocketStates /\ old.fifo = <<>>
    BY <2>2 DEF GoodSockets
  <2>4. after = [sockets EXCEPT ![s].open = TRUE, ![s].RX_RSR = 0,
                                ![s].RX_RD = sockets[s].rd, ![s].RX_inc = 0]
    BY <2>2 DEF Opened, s
  <2>5. 0 \in 0..BufferSize /\ 0 \in 0..(CommitAt - 1) /\ old.rd \in 0..(AddressSize - 1)
    BY <2>3, SocketConstants, StateType
  <2>6. /\ k \in SocketStates /\ k.fifo = <<>> /\ k.open /\ k.rd = old.rd
        /\ k.RX_RD = old.rd /\ k.RX_RSR = 0 /\ k.RX_inc = 0
    BY <2>3, <2>5 DEF SocketStates
  <2>7. /\ after \in [Sockets -> SocketStates] /\ after[s] = k
        /\ \A r \in Sockets : r /= s => after[r] = sockets[r]
    BY <2>2, <2>4, <2>6 DEF GoodSockets
  <2> HIDE DEF k, after, old
  <2>8. Len(k.fifo) = 0 /\ Left(k) = 0 /\ Len(k.fifo) <= BufferSize
    BY <2>6, SocketConstants DEF Left
  <2>9. Wrapped(k.rd + 0) = k.rd
    <3>1. k.rd + 0 = k.rd /\ k.rd \in 0..(AddressSize - 1) /\ AddressSize \in Nat \ {0}
      BY <2>5, <2>6, SocketConstants
    <3> QED BY <3>1, ModSmall DEF Wrapped
  <2>10. InStep(k)
    <3>1. Ring(k.fifo)
      BY <2>8 DEF Ring
    <3> QED BY <2>6, <2>8, <2>9, <3>1 DEF InStep
  <2>11. \A of : Reading(k, 0, of)
    BY <2>8 DEF Reading
  <2>12. GoodSockets(after)
    BY <2>6, <2>7, <2>8 DEF GoodSockets
  <2>13. s \in 0..SocketCount
    BY <2>2, NoSocketIs
  <2> QED BY <2>2, <2>6, <2>7, <2>10, <2>11, <2>12, <2>13 DEF s, k, after, old
<1> QED BY <1>1, <1>2

-----------------------------------------------------------------------------
(* ParseReturns made inductive.                                            *)
ReadsItsOwn(u) ==
  /\ sockindex[u] \in Sockets
  /\ socket[sockindex[u]].open
  /\ InStep(socket[sockindex[u]])
  /\ Reading(socket[sockindex[u]], remaining[u], sender[u])

SocketInv ==
  /\ SocketTypeOK
  /\ ParseReturns
  /\ \A s \in Sockets : ~socket[s].open => socket[s].fifo = <<>>
  /\ in_use /= "dns" => sockindex["dns"] = NoSocket
  /\ in_use = "dns" => sockindex["dns"] /= sockindex["udp"]
  /\ \A u \in Users : Live(u) => ReadsItsOwn(u)

LEMMA SocketInvGood == SocketInv => GoodSockets(socket)
BY DEF SocketInv, SocketTypeOK, GoodSockets

LEMMA GoodInv ==
  ASSUME GoodSockets(socket'),
         sockindex' \in [Users -> 0..SocketCount],
         remaining' \in [Users -> 0..BufferSize],
         sender' \in [Users -> Sizes \cup {0}],
         in_use' \in {"nobody", "dhcp", "udp", "dns"},
         read_bytes' \in Seq(Bytes), Len(read_bytes') <= ReadMax,
         in_use' /= "dns" => sockindex'["dns"] = NoSocket,
         in_use' = "dns" => sockindex'["dns"] /= sockindex'["udp"],
         \A u \in Users : Live(u)' => ReadsItsOwn(u)'
  PROVE  SocketInv'
BY DEF SocketInv, SocketTypeOK, GoodSockets, ParseReturns

LEMMA NothingRead == <<>> \in Seq(Bytes) /\ Len(<<>>) <= ReadMax
BY SocketConstants

LEMMA SocketTypes ==
  ASSUME SocketInv
  PROVE  /\ sockindex \in [Users -> 0..SocketCount]
         /\ remaining \in [Users -> 0..BufferSize]
         /\ sender \in [Users -> Sizes \cup {0}]
         /\ in_use \in {"nobody", "dhcp", "udp", "dns"}
         /\ 0 \in 0..BufferSize
BY SocketConstants DEF SocketInv, SocketTypeOK, ParseReturns

LEMMA SocketInvInit == SocketInit => SocketInv
<1> SUFFICES ASSUME SocketInit
             PROVE  SocketInv
  OBVIOUS
<1>1. ClosedSocket.fifo = <<>> /\ Len(ClosedSocket.fifo) <= BufferSize
  BY SocketConstants DEF ClosedSocket
<1>2. 0 \in 0..BufferSize
  BY SocketConstants
<1>3. \A u \in Users : ~Live(u)
  BY DEF SocketInit, Live, Users
<1>4. "dns" \in Users
  BY DEF Users
<1> QED
  BY <1>1, <1>2, <1>3, <1>4, ClosedIs, NoSocketIs, NothingRead
     DEF SocketInit, SocketInv, SocketTypeOK, ParseReturns

LEMMA UsersAre ==
  /\ Users = {"udp", "dhcp", "dns"}
  /\ \A u \in Users : Live(u) <=> in_use = u \/ (u = "udp" /\ in_use = "dns")
BY DEF Users, Live

(* An object that opened a socket of its own.                              *)
LEMMA OpenedReads ==
  ASSUME NEW sockets, GoodSockets(sockets), socket' = Opened(sockets),
         NEW u \in Users, sockindex'[u] = Begun(sockets),
         Begun(sockets) /= NoSocket, remaining'[u] = 0
  PROVE  ReadsItsOwn(u)'
BY OpenedIs DEF ReadsItsOwn

(* An object whose socket nobody touched.                                  *)
LEMMA ReadsStill ==
  ASSUME NEW u \in Users, ReadsItsOwn(u),
         sockindex'[u] = sockindex[u], remaining'[u] = remaining[u],
         sender'[u] = sender[u], socket'[sockindex[u]] = socket[sockindex[u]]
  PROVE  ReadsItsOwn(u)'
BY DEF ReadsItsOwn

LEMMA DhcpOpenInv == SocketInv /\ DhcpOpen => SocketInv'
<1> SUFFICES ASSUME SocketInv, DhcpOpen
             PROVE  SocketInv'
  OBVIOUS
<1> DEFINE after == Shut(socket, sockindex["dhcp"])
<1>1. GoodSockets(after)
  BY SocketInvGood, SocketTypes, UsersAre, ShutIs
<1>2. GoodSockets(Opened(after)) /\ Begun(after) \in 0..SocketCount
  BY <1>1, OpenedIs
<1>3. /\ socket' = Opened(after)
      /\ sockindex' = [sockindex EXCEPT !["dhcp"] = Begun(after)]
      /\ read_bytes' = <<>> /\ sender' = sender
      /\ IF Begun(after) = NoSocket
         THEN in_use' = "nobody" /\ UNCHANGED remaining
         ELSE in_use' = "dhcp" /\ remaining' = [remaining EXCEPT !["dhcp"] = 0]
      /\ in_use /= "dns"
  BY DEF DhcpOpen
<1> HIDE DEF after
<1>4. /\ sockindex' \in [Users -> 0..SocketCount] /\ sockindex'["dhcp"] = Begun(after)
      /\ sockindex'["dns"] = NoSocket
  BY <1>2, <1>3, SocketTypes, UsersAre DEF SocketInv
<1>5. /\ remaining' \in [Users -> 0..BufferSize]
      /\ in_use' \in {"nobody", "dhcp"}
      /\ in_use' = "dhcp" => Begun(after) /= NoSocket /\ remaining'["dhcp"] = 0
  BY <1>3, SocketTypes, UsersAre
<1>6. \A u \in Users : Live(u)' => ReadsItsOwn(u)'
  <2> SUFFICES ASSUME NEW u \in Users, Live(u)'
               PROVE  ReadsItsOwn(u)'
    OBVIOUS
  <2>1. u = "dhcp" /\ in_use' = "dhcp"
    BY <1>5, UsersAre DEF Live
  <2> QED BY <1>1, <1>3, <1>4, <1>5, <2>1, OpenedReads
<1> QED
  BY <1>2, <1>3, <1>4, <1>5, <1>6, SocketTypes, NothingRead, GoodInv

LEMMA DhcpFailedInv == SocketInv /\ DhcpFailed => SocketInv'
<1> SUFFICES ASSUME SocketInv, DhcpFailed
             PROVE  SocketInv'
  OBVIOUS
<1>1. GoodSockets(socket')
  BY SocketInvGood, SocketTypes, UsersAre, ShutIs DEF DhcpFailed
<1>2. /\ sockindex' \in [Users -> 0..SocketCount]
      /\ remaining' \in [Users -> 0..BufferSize]
      /\ sender' \in [Users -> Sizes \cup {0}]
      /\ in_use' = "nobody" /\ read_bytes' = <<>>
  BY SocketTypes, NoSocketIs, UsersAre DEF DhcpFailed
<1>3. sockindex'["dns"] = NoSocket
  BY SocketTypes, UsersAre DEF DhcpFailed, SocketInv
<1>4. \A u \in Users : ~Live(u)'
  BY <1>2, UsersAre DEF Live
<1> QED BY <1>1, <1>2, <1>3, <1>4, NothingRead, GoodInv

LEMMA UdpOpenInv == SocketInv /\ UdpOpen => SocketInv'
<1> SUFFICES ASSUME SocketInv, UdpOpen
             PROVE  SocketInv'
  OBVIOUS
<1> DEFINE first == Shut(socket, sockindex["dhcp"])
           after == Shut(first, sockindex["udp"])
<1>1. GoodSockets(first)
  BY SocketInvGood, SocketTypes, UsersAre, ShutIs
<1>2. GoodSockets(after)
  <2> HIDE DEF first
  <2> QED BY <1>1, SocketTypes, UsersAre, ShutIs
<1>3. GoodSockets(Opened(after)) /\ Begun(after) \in 0..SocketCount
  BY <1>2, OpenedIs
<1>4. /\ socket' = Opened(after)
      /\ sockindex' = [sockindex EXCEPT !["dhcp"] = NoSocket, !["udp"] = Begun(after)]
      /\ read_bytes' = <<>> /\ sender' = [sender EXCEPT !["dhcp"] = 0]
      /\ IF Begun(after) = NoSocket
         THEN in_use' = "nobody" /\ remaining' = [remaining EXCEPT !["dhcp"] = 0]
         ELSE in_use' = "udp" /\ remaining' = [remaining EXCEPT !["dhcp"] = 0, !["udp"] = 0]
      /\ in_use = "dhcp"
  BY DEF UdpOpen
<1> HIDE DEF after
<1>5. /\ sockindex' \in [Users -> 0..SocketCount] /\ sockindex'["udp"] = Begun(after)
      /\ sockindex'["dns"] = NoSocket /\ sender' \in [Users -> Sizes \cup {0}]
  BY <1>3, <1>4, SocketTypes, NoSocketIs, UsersAre DEF SocketInv
<1>6. /\ remaining' \in [Users -> 0..BufferSize]
      /\ in_use' \in {"nobody", "udp"}
      /\ in_use' = "udp" => Begun(after) /= NoSocket /\ remaining'["udp"] = 0
  BY <1>4, SocketTypes, UsersAre
<1>7. \A u \in Users : Live(u)' => ReadsItsOwn(u)'
  <2> SUFFICES ASSUME NEW u \in Users, Live(u)'
               PROVE  ReadsItsOwn(u)'
    OBVIOUS
  <2>1. u = "udp" /\ in_use' = "udp"
    BY <1>6, UsersAre DEF Live
  <2> QED BY <1>2, <1>4, <1>5, <1>6, <2>1, OpenedReads
<1> QED
  BY <1>3, <1>4, <1>5, <1>6, <1>7, SocketTypes, NothingRead, GoodInv

(* The socket of the link's own object is open, so the DNS client cannot   *)
(* be given it.                                                            *)
LEMMA DnsOpenInv == SocketInv /\ DnsOpen => SocketInv'
<1> SUFFICES ASSUME SocketInv, DnsOpen
             PROVE  SocketInv'
  OBVIOUS
<1>1. in_use = "udp" /\ sockindex["dns"] = NoSocket /\ ReadsItsOwn("udp")
  BY UsersAre DEF DnsOpen, SocketInv, Live
<1>2. Shut(socket, sockindex["dns"]) = socket
  BY <1>1 DEF Shut
<1>3. GoodSockets(socket) /\ GoodSockets(Opened(socket)) /\ Begun(socket) \in 0..SocketCount
  BY SocketInvGood, OpenedIs
<1>4. /\ socket' = Opened(socket)
      /\ sockindex' = [sockindex EXCEPT !["dns"] = Begun(socket)]
      /\ read_bytes' = <<>> /\ sender' = sender
      /\ IF Begun(socket) = NoSocket
         THEN UNCHANGED <<in_use, remaining>>
         ELSE in_use' = "dns" /\ remaining' = [remaining EXCEPT !["dns"] = 0]
  BY <1>2 DEF DnsOpen
<1>5. /\ sockindex' \in [Users -> 0..SocketCount] /\ sockindex'["dns"] = Begun(socket)
      /\ sockindex'["udp"] = sockindex["udp"]
  BY <1>3, <1>4, SocketTypes, UsersAre
<1>6. /\ remaining' \in [Users -> 0..BufferSize] /\ remaining'["udp"] = remaining["udp"]
      /\ in_use' \in {"udp", "dns"}
      /\ in_use' = "dns" => Begun(socket) /= NoSocket /\ remaining'["dns"] = 0
      /\ in_use' = "udp" => Begun(socket) = NoSocket
  BY <1>1, <1>4, SocketTypes, UsersAre
<1>7. /\ sockindex["udp"] \in Sockets /\ socket[sockindex["udp"]].open
  BY <1>1 DEF ReadsItsOwn
<1>8. Begun(socket) /= sockindex["udp"]
  BY <1>3, <1>7, OpenedIs, NoSocketIs
<1>9. socket'[sockindex["udp"]] = socket[sockindex["udp"]]
  BY <1>3, <1>4, <1>7, <1>8, OpenedIs
<1>10. \A u \in Users : Live(u)' => ReadsItsOwn(u)'
  <2> SUFFICES ASSUME NEW u \in Users, Live(u)'
               PROVE  ReadsItsOwn(u)'
    OBVIOUS
  <2>1. u = "udp" \/ (u = "dns" /\ in_use' = "dns")
    BY <1>6, UsersAre DEF Live
  <2>2. CASE u = "udp"
    BY <2>2, <1>1, <1>4, <1>5, <1>6, <1>9, UsersAre, ReadsStill
  <2>3. CASE u = "dns" /\ in_use' = "dns"
    BY <2>3, <1>3, <1>4, <1>5, <1>6, OpenedReads
  <2> QED BY <2>1, <2>2, <2>3
<1> QED
  BY <1>3, <1>4, <1>5, <1>6, <1>8, <1>10, SocketTypes, NothingRead, GoodInv

LEMMA DnsStopInv == SocketInv /\ DnsStop => SocketInv'
<1> SUFFICES ASSUME SocketInv, DnsStop
             PROVE  SocketInv'
  OBVIOUS
<1>1. /\ in_use = "dns" /\ sockindex["dns"] /= sockindex["udp"]
      /\ ReadsItsOwn("udp") /\ sockindex["udp"] \in Sockets
  BY UsersAre DEF DnsStop, SocketInv, Live, ReadsItsOwn
<1>2. GoodSockets(socket') /\ socket'[sockindex["udp"]] = socket[sockindex["udp"]]
  BY <1>1, SocketInvGood, SocketTypes, UsersAre, ShutIs DEF DnsStop
<1>3. /\ sockindex' \in [Users -> 0..SocketCount]
      /\ remaining' \in [Users -> 0..BufferSize]
      /\ sender' \in [Users -> Sizes \cup {0}]
      /\ in_use' = "udp" /\ read_bytes' = <<>>
      /\ sockindex'["dns"] = NoSocket
      /\ sockindex'["udp"] = sockindex["udp"]
      /\ remaining'["udp"] = remaining["udp"] /\ sender'["udp"] = sender["udp"]
  BY SocketTypes, NoSocketIs, UsersAre DEF DnsStop
<1>4. \A u \in Users : Live(u)' => ReadsItsOwn(u)'
  <2> SUFFICES ASSUME NEW u \in Users, Live(u)'
               PROVE  ReadsItsOwn(u)'
    OBVIOUS
  <2>1. u = "udp"
    BY <1>3, UsersAre DEF Live
  <2> QED BY <2>1, <1>1, <1>2, <1>3, ReadsStill
<1> QED BY <1>2, <1>3, <1>4, NothingRead, GoodInv

LEMMA ChipResetInv == SocketInv /\ ChipReset => SocketInv'
<1> SUFFICES ASSUME SocketInv, ChipReset
             PROVE  SocketInv'
  OBVIOUS
<1>1. ASSUME NEW s \in Sockets
      PROVE  LET k == [socket[s] EXCEPT !.open = FALSE, !.rd = 0, !.fifo = <<>>]
             IN k \in SocketStates /\ k.fifo = <<>> /\ Len(k.fifo) <= BufferSize
  <2>1. socket[s] \in SocketStates /\ 0 \in 0..(AddressSize - 1) /\ BufferSize \in Nat
    BY SocketConstants DEF SocketInv, SocketTypeOK
  <2>2. <<>> \in Seq(Bytes) /\ Len(<<>>) = 0 /\ FALSE \in BOOLEAN
    OBVIOUS
  <2> DEFINE k == [socket[s] EXCEPT !.open = FALSE, !.rd = 0, !.fifo = <<>>]
  <2>3. k.fifo = <<>>
    BY <2>1 DEF SocketStates
  <2>4. k \in SocketStates
    BY <2>1, <2>2 DEF SocketStates
  <2>5. Len(k.fifo) <= BufferSize
    BY <2>1, <2>2, <2>3
  <2> QED BY <2>3, <2>4, <2>5
<1>2. GoodSockets(socket')
  BY <1>1 DEF ChipReset, GoodSockets
<1>3. /\ in_use' = "nobody" /\ read_bytes' = <<>>
      /\ UNCHANGED <<sockindex, remaining, sender>> /\ in_use /= "dns"
  BY DEF ChipReset
<1>4. \A u \in Users : ~Live(u)'
  BY <1>3, UsersAre DEF Live
<1>5. sockindex'["dns"] = NoSocket
  BY <1>3 DEF SocketInv
<1> QED BY <1>2, <1>3, <1>4, <1>5, SocketTypes, NothingRead, GoodInv

LEMMA BoardRestartInv == SocketInv /\ BoardRestart => SocketInv'
<1> SUFFICES ASSUME BoardRestart
             PROVE  SocketInv'
  OBVIOUS
<1>1. ClosedSocket.fifo = <<>> /\ Len(ClosedSocket.fifo) <= BufferSize
      /\ 0 \in 0..BufferSize
  BY SocketConstants DEF ClosedSocket
<1>2. GoodSockets(socket')
  BY <1>1, ClosedIs DEF BoardRestart, GoodSockets
<1>3. /\ sockindex' \in [Users -> 0..SocketCount]
      /\ remaining' \in [Users -> 0..BufferSize]
      /\ sender' \in [Users -> Sizes \cup {0}]
      /\ in_use' = "nobody" /\ read_bytes' = <<>> /\ sockindex'["dns"] = NoSocket
  BY <1>1, NoSocketIs, UsersAre DEF BoardRestart
<1>4. \A u \in Users : ~Live(u)'
  BY <1>3, UsersAre DEF Live
<1> QED BY <1>2, <1>3, <1>4, NothingRead, GoodInv

(* Objects in use have sockets of their own.                               *)
LEMMA SocketsApart ==
  ASSUME SocketInv, NEW u \in Users, in_use = u, NEW v \in Users, Live(v), v /= u
  PROVE  sockindex[v] /= sockindex[u]
BY UsersAre DEF SocketInv, Live

LEMMA OwnSocket ==
  ASSUME SocketInv, NEW u \in Users, Live(u)
  PROVE  LET k == socket[sockindex[u]]
         IN /\ sockindex[u] \in Sockets /\ k.open /\ InStep(k)
            /\ Reading(k, remaining[u], sender[u]) /\ k \in SocketStates
            /\ remaining[u] \in 0..BufferSize /\ remaining[u] \in Nat
            /\ remaining[u] <= Left(k) /\ Left(k) \in Nat
<1>1. ReadsItsOwn(u)
  BY DEF SocketInv
<1> QED BY <1>1, RefreshedIs, SocketTypes DEF ReadsItsOwn, Reading, InStep

LEMMA FollowsItself == ASSUME NEW k, InStep(k) PROVE Follows(k, k, 0)
<1>1. Left(k) \in Nat /\ Left(k) - 0 = Left(k) /\ \A i \in Int : 0 + i = i
  BY RefreshedIs
<1> QED BY <1>1 DEF Follows

LEMMA FollowsOn ==
  ASSUME NEW k, InStep(k), NEW k1, NEW m \in Nat, Follows(k, k1, m),
         NEW k2, NEW n \in Nat, Follows(k1, k2, n)
  PROVE  Follows(k, k2, m + n)
<1>1. /\ Left(k) \in Nat /\ Left(k1) = Left(k) - m /\ Left(k2) = Left(k1) - n
      /\ Left(k2) \in Nat /\ InStep(k2)
  BY RefreshedIs DEF Follows
<1>2. Left(k2) = Left(k) - (m + n)
  BY <1>1
<1>3. ASSUME NEW i \in 1..Left(k2)
      PROVE  Cell(k2, i) = Cell(k, (m + n) + i)
  <2>1. n + i \in 1..Left(k1) /\ m + (n + i) = (m + n) + i
    BY <1>1
  <2>2. Cell(k2, i) = Cell(k1, n + i) /\ Cell(k1, n + i) = Cell(k, m + (n + i))
    BY <2>1 DEF Follows
  <2> QED BY <2>1, <2>2
<1> QED BY <1>1, <1>2, <1>3 DEF Follows

(* read: so many bytes of the datagram, from where it was.                 *)
LEMMA ReadIs ==
  ASSUME SocketInv, NEW u \in Users, NEW n \in 1..ReadMax, ReadInto(u, n)
  PROVE  LET k == socket[sockindex[u]]
             got == IF n < remaining[u] THEN n ELSE remaining[u]
         IN /\ in_use = u /\ UNCHANGED <<sockindex, sender, in_use>>
            /\ got \in 0..remaining[u] /\ got <= ReadMax
            /\ read_bytes' = [i \in 1..got |->
                 [of |-> sender[u], left |-> remaining[u] + 1 - i]]
            /\ remaining' = [remaining EXCEPT ![u] = remaining[u] - got]
            /\ \E after : /\ Follows(k, after, got)
                          /\ socket' = [socket EXCEPT ![sockindex[u]] = after]
<1> DEFINE k == socket[sockindex[u]]
           left == remaining[u]
           len == IF left <= n THEN left ELSE n
           got == IF n < left THEN n ELSE left
<1>1. in_use = u /\ Live(u) /\ UNCHANGED <<sockindex, sender, in_use>>
  BY UsersAre DEF ReadInto
<1>2. /\ sockindex[u] \in Sockets /\ InStep(k) /\ Reading(k, left, sender[u])
      /\ left \in Nat /\ left <= Left(k) /\ Left(k) \in Nat
      /\ n \in Nat \ {0} /\ n <= ReadMax
  BY <1>1, OwnSocket, SocketConstants
<1>3. len \in Nat /\ len = got /\ got \in 0..left /\ got <= ReadMax /\ len <= Left(k)
  BY <1>2, SocketConstants
<1>4. Count(k, len) = got
  BY <1>2, <1>3, CountIs
<1>5. \A i \in 1..got : Cell(k, i) = [of |-> sender[u], left |-> left + 1 - i]
  <2> TAKE i \in 1..got
  <2>1. i \in 1..left
    BY <1>2, <1>3
  <2> QED BY <2>1, <1>2, CellsOfDatagram
<1>6. socket \in [Sockets -> SocketStates] /\ remaining \in [Users -> 0..BufferSize]
  BY DEF SocketInv, SocketTypeOK
<1> HIDE DEF k
<1>7. CASE left = 0
  <2>1. got = 0 /\ left - got = left /\ left - got = 0
    BY <1>2, <1>7
  <2>2. read_bytes' = <<>> /\ UNCHANGED <<socket, remaining>>
    BY <1>7 DEF ReadInto
  <2>3. read_bytes' = [i \in 1..got |-> [of |-> sender[u], left |-> left + 1 - i]]
    <3>1. 1..0 = {}
      OBVIOUS
    <3> QED BY <2>1, <2>2, <3>1
  <2>4. remaining' = [remaining EXCEPT ![u] = left - got]
    BY <2>1, <2>2, <1>6
  <2>5. socket' = [socket EXCEPT ![sockindex[u]] = k]
    BY <2>2, <1>6 DEF k
  <2> QED BY <1>1, <1>2, <1>3, <2>1, <2>3, <2>4, <2>5, FollowsItself DEF k
<1>8. CASE left /= 0
  <2>1. /\ read_bytes' = Received(k, len)
        /\ socket' = [socket EXCEPT ![sockindex[u]] = AfterRecv(@, len)]
        /\ remaining' = [remaining EXCEPT ![u] = @ - Count(k, len)]
    BY <1>8 DEF ReadInto, k
  <2>2. remaining' = [remaining EXCEPT ![u] = left - got]
    BY <2>1, <1>4, <1>6
  <2>3. socket' = [socket EXCEPT ![sockindex[u]] = AfterRecv(k, len)]
    BY <2>1, <1>2, <1>6 DEF k
  <2>4. Follows(k, AfterRecv(k, len), got)
    BY <1>2, <1>3, <1>4, AfterRecvIs
  <2>5. Received(k, len) = [i \in 1..got |-> Cell(k, i)]
    BY <1>2, <1>3, <1>4, ReceivedIs
  <2>6. read_bytes' = [i \in 1..got |-> [of |-> sender[u], left |-> left + 1 - i]]
    BY <2>1, <2>5, <1>5
  <2> QED BY <1>1, <1>3, <2>2, <2>3, <2>4, <2>6 DEF k
<1> QED BY <1>7, <1>8

(* parsePacket: on to the next datagram, if there is one.                  *)
LEMMA ParseIs ==
  ASSUME SocketInv, NEW u \in Users, ParsePacket(u)
  PROVE  LET k == socket[sockindex[u]]
             left == remaining[u]
             d == Cell(k, left + 1).of
         IN /\ in_use = u /\ UNCHANGED <<sockindex, in_use>> /\ read_bytes' = <<>>
            /\ \E after :
                 /\ socket' = [socket EXCEPT ![sockindex[u]] = after]
                 /\ \/ /\ Left(k) = left /\ Follows(k, after, left)
                       /\ remaining' = [remaining EXCEPT ![u] = 0]
                       /\ UNCHANGED sender
                       /\ Reading(after, 0, sender[u])
                    \/ /\ Follows(k, after, left + HeaderSize) /\ d \in Sizes
                       /\ \E skipped :
                            /\ Follows(k, skipped, left) /\ Left(skipped) > 0
                            /\ Reading(skipped, 0, sender[u])
                            /\ Cell(skipped, 1).of = d
                            /\ Follows(skipped, after, HeaderSize)
                       /\ remaining' = [remaining EXCEPT ![u] = d]
                       /\ sender' = [sender EXCEPT ![u] = d]
                       /\ Reading(after, d, d)
<1> DEFINE s == sockindex[u]
           k == socket[s]
           left == remaining[u]
           first == AfterRecv(k, left)
           skipped == AfterAvailable(first)
           header == Received(skipped, HeaderSize)
           after == AfterRecv(skipped, HeaderSize)
<1>1. in_use = u /\ Live(u) /\ read_bytes' = <<>> /\ UNCHANGED sockindex
  BY UsersAre DEF ParsePacket
<1>2. /\ s \in Sockets /\ InStep(k) /\ Reading(k, left, sender[u])
      /\ left \in Nat /\ left <= Left(k) /\ Left(k) \in Nat
  BY <1>1, OwnSocket
<1> HIDE DEF k
<1>3. Count(k, left) = left
  BY <1>2, CountIs
<1>4. ~(Stranded(u) > 0)
  BY <1>2, <1>3 DEF Stranded, k
<1>5. Follows(k, first, left) /\ InStep(first)
  <2>1. Follows(k, first, Count(k, left))
    BY <1>2, AfterRecvIs
  <2> HIDE DEF first
  <2> QED BY <1>3, <2>1 DEF Follows
<1>6. Reading(first, 0, sender[u])
  <2>1. left \in 0..left /\ left - left = 0
    BY <1>2
  <2>2. Reading(first, left - left, sender[u])
    BY <1>2, <1>5, <2>1, ReadingOn
  <2> QED BY <2>1, <2>2
<1>7. Follows(first, skipped, 0) /\ InStep(skipped) /\ (skipped.RX_RSR = 0 => Left(first) = 0)
  BY <1>5, AfterAvailableIs DEF Follows
<1>8. Reading(skipped, 0, sender[u])
  <2>1. Reading(skipped, 0 - 0, sender[u])
    <3>1. 0 \in 0..0
      OBVIOUS
    <3> QED BY <1>5, <1>6, <1>7, <3>1, ReadingOn
  <2> QED BY <2>1
<1>9. Follows(k, skipped, left)
  <2>1. Follows(k, skipped, left + 0)
    BY <1>2, <1>5, <1>7, FollowsOn
  <2> QED BY <1>2, <2>1
<1>10. Left(skipped) = Left(k) - left /\ Left(first) = Left(skipped) /\ Left(skipped) \in Nat
  BY <1>2, <1>5, <1>7, <1>9, RefreshedIs DEF Follows
<1>11. /\ UNCHANGED in_use
       /\ IF skipped.RX_RSR = 0
          THEN /\ socket' = [socket EXCEPT ![s] = skipped]
               /\ remaining' = [remaining EXCEPT ![u] = 0]
               /\ UNCHANGED sender
          ELSE /\ socket' = [socket EXCEPT ![s] = after]
               /\ IF header = <<>>
                  THEN /\ remaining' = [remaining EXCEPT ![u] = 0]
                       /\ UNCHANGED sender
                  ELSE /\ remaining' = [remaining EXCEPT ![u] = SizeIn(header)]
                       /\ sender' = [sender EXCEPT ![u] = header[1].of]
  BY <1>4 DEF ParsePacket, k
<1> HIDE DEF first
<1>12. CASE skipped.RX_RSR = 0
  <2>1. Left(k) = left
    BY <1>2, <1>7, <1>10, <1>12
  <2> QED BY <1>1, <1>8, <1>9, <1>11, <1>12, <2>1 DEF k
<1>13. CASE skipped.RX_RSR /= 0
  <2> DEFINE d == Cell(skipped, 1).of
  <2>1. Left(skipped) > 0
    <3>1. skipped.RX_RSR \in Nat /\ skipped.RX_RSR <= Left(skipped)
      BY <1>7, StateType DEF InStep
    <3> QED BY <1>2, <1>10, <1>13, <3>1
  <2> HIDE DEF skipped
  <2>2. /\ d \in Sizes /\ HeaderSize + d <= Left(skipped)
        /\ IsHeader(Cell(skipped, 1))
        /\ Count(skipped, HeaderSize) = HeaderSize
        /\ header /= <<>> /\ header[1].of = d /\ SizeIn(header) = d
        /\ Reading(after, d, d)
    BY <1>7, <1>8, <2>1, HeaderIs
  <2>3. Cell(skipped, 1) = Cell(k, left + 1)
    <3>1. 1 \in 1..Left(skipped)
      BY <1>10, <2>1
    <3> QED BY <1>9, <3>1 DEF Follows
  <2>4. HeaderSize \in Nat /\ d \in Nat
    BY <2>2, SocketConstants
  <2>5. Follows(skipped, after, HeaderSize)
    BY <1>7, <2>2, <2>4, AfterRecvIs
  <2>6. Follows(k, after, left + HeaderSize)
    BY <1>2, <1>9, <2>4, <2>5, FollowsOn
  <2> HIDE DEF d, after, header
  <2>7. d = Cell(k, left + 1).of
    BY <2>3 DEF d
  <2>8. /\ socket' = [socket EXCEPT ![s] = after]
        /\ remaining' = [remaining EXCEPT ![u] = d]
        /\ sender' = [sender EXCEPT ![u] = d]
    BY <1>11, <1>13, <2>2
  <2> QED BY <1>1, <1>8, <1>9, <1>11, <2>1, <2>2, <2>5, <2>6, <2>7, <2>8 DEF d, k
<1> QED BY <1>12, <1>13

(* A step of an object in use leaves its socket to it and all others alone. *)
LEMMA OwnStepInv ==
  ASSUME SocketInv, NEW u \in Users, in_use = u,
         UNCHANGED <<sockindex, in_use>>,
         NEW after, InStep(after), after.open,
         socket' = [socket EXCEPT ![sockindex[u]] = after],
         NEW left \in 0..BufferSize, remaining' = [remaining EXCEPT ![u] = left],
         NEW of \in Sizes \cup {0}, sender' = [sender EXCEPT ![u] = of],
         Reading(after, left, of),
         read_bytes' \in Seq(Bytes), Len(read_bytes') <= ReadMax
  PROVE  SocketInv'
<1>1. Live(u) /\ sockindex[u] \in Sockets /\ GoodSockets(socket)
  BY OwnSocket, SocketInvGood, UsersAre
<1>2. /\ socket' \in [Sockets -> SocketStates] /\ socket'[sockindex[u]] = after
      /\ \A s \in Sockets : s /= sockindex[u] => socket'[s] = socket[s]
  BY <1>1 DEF GoodSockets, InStep
<1>3. GoodSockets(socket')
  BY <1>1, <1>2 DEF GoodSockets, InStep
<1>4. /\ remaining' \in [Users -> 0..BufferSize] /\ remaining'[u] = left
      /\ sender' \in [Users -> Sizes \cup {0}] /\ sender'[u] = of
      /\ \A v \in Users : v /= u => remaining'[v] = remaining[v] /\ sender'[v] = sender[v]
  BY SocketTypes
<1>5. ASSUME NEW v \in Users, Live(v)'
      PROVE  ReadsItsOwn(v)'
  <2>1. CASE v = u
    BY <1>1, <1>2, <1>4, <2>1 DEF ReadsItsOwn
  <2>2. CASE v /= u
    <3>1. Live(v)
      BY <1>5 DEF Live
    <3>2. sockindex[v] /= sockindex[u] /\ ReadsItsOwn(v) /\ sockindex[v] \in Sockets
      BY <2>2, <3>1, SocketsApart DEF SocketInv, ReadsItsOwn
    <3> QED BY <1>2, <1>4, <2>2, <3>2, ReadsStill
  <2> QED BY <2>1, <2>2
<1>6. in_use' /= "dns" => sockindex'["dns"] = NoSocket
  BY DEF SocketInv
<1>7. in_use' = "dns" => sockindex'["dns"] /= sockindex'["udp"]
  BY DEF SocketInv
<1>8. sockindex' \in [Users -> 0..SocketCount] /\ in_use' \in {"nobody", "dhcp", "udp", "dns"}
  BY SocketTypes
<1> QED BY <1>3, <1>4, <1>5, <1>6, <1>7, <1>8, GoodInv

LEMMA BytesRead ==
  ASSUME SocketInv, NEW u \in Users, Live(u), NEW got \in 0..remaining[u],
         NEW b, b = [i \in 1..got |-> [of |-> sender[u], left |-> remaining[u] + 1 - i]]
  PROVE  b \in Seq(Bytes) /\ Len(b) = got
<1> DEFINE k == socket[sockindex[u]]
           left == remaining[u]
<1>1. /\ InStep(k) /\ Reading(k, left, sender[u]) /\ left \in Nat /\ left <= Left(k)
      /\ Left(k) \in Nat /\ got \in Nat
  BY OwnSocket
<1>2. ASSUME NEW i \in 1..got
      PROVE  [of |-> sender[u], left |-> left + 1 - i] \in Bytes
  <2>1. i \in 1..left
    BY <1>1
  <2>2. Cell(k, i) = [of |-> sender[u], left |-> left + 1 - i]
    BY <1>1, <2>1, CellsOfDatagram
  <2>3. k.RX_inc + i \in 1..Len(k.fifo) /\ k.fifo \in Seq(Bytes)
    <3>1. /\ k.RX_inc \in Nat /\ k.fifo \in Seq(Bytes) /\ Len(k.fifo) \in Nat
          /\ k.RX_inc <= Len(k.fifo) /\ Left(k) = Len(k.fifo) - k.RX_inc
      BY <1>1, StateType DEF InStep, Left
    <3>2. i \in Nat \ {0} /\ i <= Left(k)
      BY <1>1, <2>1
    <3> HIDE DEF k
    <3>3. k.RX_inc + i >= 1 /\ k.RX_inc + i <= Len(k.fifo) /\ k.RX_inc + i \in Int
      BY <3>1, <3>2
    <3> QED BY <3>1, <3>3
  <2>4. Cell(k, i) \in Bytes
    BY <2>3 DEF Cell
  <2> QED BY <2>2, <2>4
<1> QED BY <1>1, <1>2

LEMMA ReadInv ==
  ASSUME SocketInv, NEW u \in Users, NEW n \in 1..ReadMax, ReadInto(u, n)
  PROVE  SocketInv'
<1> DEFINE k == socket[sockindex[u]]
           left == remaining[u]
           got == IF n < left THEN n ELSE left
<1>1. /\ in_use = u /\ UNCHANGED <<sockindex, sender, in_use>>
      /\ got \in 0..left /\ got <= ReadMax
      /\ read_bytes' = [i \in 1..got |-> [of |-> sender[u], left |-> left + 1 - i]]
      /\ remaining' = [remaining EXCEPT ![u] = left - got]
  BY ReadIs
<1>2. PICK after : /\ Follows(k, after, got)
                   /\ socket' = [socket EXCEPT ![sockindex[u]] = after]
  BY ReadIs
<1>3. /\ Live(u) /\ InStep(k) /\ k.open /\ Reading(k, left, sender[u])
      /\ left \in 0..BufferSize /\ left \in Nat
  BY <1>1, OwnSocket, UsersAre
<1> HIDE DEF got
<1>4. InStep(after) /\ after.open /\ Reading(after, left - got, sender[u])
  BY <1>1, <1>2, <1>3, ReadingOn DEF Follows
<1>5. left - got \in 0..BufferSize
  BY <1>1, <1>3, SocketConstants
<1>6. read_bytes' \in Seq(Bytes) /\ Len(read_bytes') <= ReadMax
  BY <1>1, <1>3, BytesRead
<1>7. sender[u] \in Sizes \cup {0} /\ sender' = [sender EXCEPT ![u] = sender[u]]
  BY <1>1, SocketTypes
<1> HIDE DEF left, k
<1> QED BY <1>1, <1>2, <1>4, <1>5, <1>6, <1>7, OwnStepInv

LEMMA ParseInv ==
  ASSUME SocketInv, NEW u \in Users, ParsePacket(u)
  PROVE  SocketInv'
<1> DEFINE k == socket[sockindex[u]]
           left == remaining[u]
           d == Cell(k, left + 1).of
<1>1. in_use = u /\ UNCHANGED <<sockindex, in_use>> /\ read_bytes' = <<>>
  BY ParseIs
<1>2. Live(u) /\ k.open
  BY <1>1, OwnSocket, UsersAre
<1>3. PICK after :
        /\ socket' = [socket EXCEPT ![sockindex[u]] = after]
        /\ \/ /\ Follows(k, after, left)
              /\ remaining' = [remaining EXCEPT ![u] = 0]
              /\ UNCHANGED sender
              /\ Reading(after, 0, sender[u])
           \/ /\ Follows(k, after, left + HeaderSize)
              /\ d \in Sizes
              /\ remaining' = [remaining EXCEPT ![u] = d]
              /\ sender' = [sender EXCEPT ![u] = d]
              /\ Reading(after, d, d)
  BY ParseIs
<1> HIDE DEF d
<1>4. InStep(after) /\ after.open
  BY <1>2, <1>3 DEF Follows
<1>5. \E of \in Sizes \cup {0}, m \in 0..BufferSize :
        /\ remaining' = [remaining EXCEPT ![u] = m]
        /\ sender' = [sender EXCEPT ![u] = of]
        /\ Reading(after, m, of)
  <2>1. CASE UNCHANGED sender /\ remaining' = [remaining EXCEPT ![u] = 0]
             /\ Reading(after, 0, sender[u])
    <3>1. sender' = [sender EXCEPT ![u] = sender[u]] /\ sender[u] \in Sizes \cup {0}
          /\ 0 \in 0..BufferSize
      BY <2>1, SocketTypes
    <3> QED BY <2>1, <3>1
  <2>2. CASE /\ d \in Sizes /\ remaining' = [remaining EXCEPT ![u] = d]
             /\ sender' = [sender EXCEPT ![u] = d] /\ Reading(after, d, d)
    <3>1. d \in 0..BufferSize
      BY <2>2, SocketConstants
    <3> QED BY <2>2, <3>1
  <2> QED BY <1>3, <2>1, <2>2
<1> HIDE DEF k, left
<1> QED BY <1>1, <1>3, <1>4, <1>5, NothingRead, OwnStepInv

(* A datagram that comes to a socket in use or to one that nobody reads.   *)
LEMMA ArrivesIs ==
  ASSUME SocketInv, NEW s \in Sockets, DatagramArrives(s)
  PROVE  /\ socket[s].open /\ read_bytes' = <<>>
         /\ UNCHANGED <<sockindex, remaining, sender, in_use>>
         /\ \E d \in Sizes :
              /\ Len(socket[s].fifo) + (HeaderSize + d) <= BufferSize
              /\ socket' = [socket EXCEPT ![s] = Grown(socket[s], d)]
<1>1. socket \in [Sockets -> SocketStates]
  BY DEF SocketInv, SocketTypeOK
<1>2. PICK d \in Sizes :
        /\ Len(socket[s].fifo) + (HeaderSize + d) <= BufferSize
        /\ socket' = [socket EXCEPT ![s].fifo = @ \o Arrived(d)]
  BY DEF DatagramArrives, Arrived
<1>3. socket' = [socket EXCEPT ![s] = Grown(socket[s], d)]
  BY <1>1, <1>2 DEF Grown
<1> QED BY <1>2, <1>3 DEF DatagramArrives

LEMMA ArrivesInv ==
  ASSUME SocketInv, NEW s \in Sockets, DatagramArrives(s)
  PROVE  SocketInv'
<1>1. /\ socket[s].open /\ read_bytes' = <<>>
      /\ UNCHANGED <<sockindex, remaining, sender, in_use>>
  BY ArrivesIs
<1>2. PICK d \in Sizes :
        /\ Len(socket[s].fifo) + (HeaderSize + d) <= BufferSize
        /\ socket' = [socket EXCEPT ![s] = Grown(socket[s], d)]
  BY ArrivesIs
<1> DEFINE k == socket[s]
           grown == Grown(k, d)
<1>3. /\ k \in SocketStates /\ k.fifo \in Seq(Bytes) /\ GoodSockets(socket)
  BY SocketInvGood, StateType DEF GoodSockets
<1>4. Arrived(d) \in Seq(Bytes) /\ Len(Arrived(d)) = HeaderSize + d
  <2>1. /\ HeaderSize + d \in Nat /\ HeaderSize + d <= BufferSize /\ BufferSize \in Nat
        /\ d \in Nat
    BY SocketConstants
  <2>2. \A i \in 1..(HeaderSize + d) : [of |-> d, left |-> HeaderSize + d + 1 - i] \in Bytes
    BY <2>1 DEF Bytes
  <2> QED BY <2>1, <2>2 DEF Arrived
<1>5. k.fifo \o Arrived(d) \in Seq(Bytes) /\ Len(k.fifo \o Arrived(d)) <= BufferSize
  <2>1. Len(k.fifo \o Arrived(d)) = Len(k.fifo) + (HeaderSize + d)
    BY <1>3, <1>4
  <2> QED BY <1>2, <1>3, <1>4, <2>1
<1>6. grown \in SocketStates /\ grown.open /\ grown.fifo = k.fifo \o Arrived(d)
  BY <1>1, <1>3, <1>5 DEF SocketStates, Grown
<1>7. /\ socket' \in [Sockets -> SocketStates] /\ socket'[s] = grown
      /\ \A r \in Sockets : r /= s => socket'[r] = socket[r]
  BY <1>2, <1>3, <1>6 DEF GoodSockets
<1>8. GoodSockets(socket')
  BY <1>3, <1>5, <1>6, <1>7 DEF GoodSockets
<1>9. ASSUME NEW v \in Users, Live(v)'
      PROVE  ReadsItsOwn(v)'
  <2>1. Live(v) /\ ReadsItsOwn(v)
    BY <1>1, <1>9 DEF Live, SocketInv
  <2>2. CASE sockindex[v] = s
    <3>1. InStep(k) /\ Reading(k, remaining[v], sender[v])
      BY <2>1, <2>2 DEF ReadsItsOwn
    <3>2. d \in Sizes /\ Len(k.fifo) + (HeaderSize + d) <= BufferSize
      BY <1>2
    <3>3. /\ InStep(grown)
          /\ \A left, of : Reading(k, left, of) => Reading(grown, left, of)
      BY <3>1, <3>2, GrownSocket
    <3>4. Reading(grown, remaining[v], sender[v])
      BY <3>1, <3>3
    <3> QED BY <1>1, <1>6, <1>7, <2>2, <3>3, <3>4 DEF ReadsItsOwn
  <2>3. CASE sockindex[v] /= s
    BY <1>1, <1>7, <2>1, <2>3, ReadsStill DEF ReadsItsOwn
  <2> QED BY <2>2, <2>3
<1>10. /\ in_use' /= "dns" => sockindex'["dns"] = NoSocket
       /\ in_use' = "dns" => sockindex'["dns"] /= sockindex'["udp"]
  BY <1>1 DEF SocketInv
<1> QED BY <1>1, <1>8, <1>9, <1>10, SocketTypes, NothingRead, GoodInv

LEMMA SocketInvStep == SocketInv /\ [SocketNext]_socketVars => SocketInv'
<1> SUFFICES ASSUME SocketInv, [SocketNext]_socketVars
             PROVE  SocketInv'
  OBVIOUS
<1>1. CASE UNCHANGED socketVars
  BY <1>1 DEF socketVars, SocketInv, SocketTypeOK, ParseReturns, ReadsItsOwn, Live
<1>2. CASE \E s \in Sockets : DatagramArrives(s)
  BY <1>2, ArrivesInv
<1>3. CASE \E u \in Users : ParsePacket(u) \/ \E n \in 1..ReadMax : ReadInto(u, n)
  BY <1>3, ParseInv, ReadInv
<1> QED
  BY <1>1, <1>2, <1>3, DhcpOpenInv, DhcpFailedInv, UdpOpenInv, DnsOpenInv,
     DnsStopInv, ChipResetInv, BoardRestartInv DEF SocketNext

LEMMA SocketInvHolds == SocketSpec => []SocketInv
BY SocketInvInit, SocketInvStep, PTL DEF SocketSpec

(* Type correctness of sockets and objects: no counter of the driver goes  *)
(* under zero or over its size, and no byte is read that nobody sent.      *)
THEOREM SocketTypeCorrect == SocketSpec => []SocketTypeOK
<1>1. SocketInv => SocketTypeOK
  BY DEF SocketInv
<1> QED BY <1>1, SocketInvHolds, PTL

(* parsePacket always returns: its loop over the rest of a datagram ends,  *)
(* because what is left of the datagram is in the ring.                    *)
THEOREM ParseReturnsHolds == SocketSpec => []ParseReturns
<1>1. SocketInv => ParseReturns
  BY DEF SocketInv
<1> QED BY <1>1, SocketInvHolds, PTL
-----------------------------------------------------------------------------
(* The queue of an object.  Where, behind the datagram being read, headers *)
(* begin, counted in bytes from where the driver is, and what they are of. *)
Heads(k, left) == {i \in (left + 1)..Left(k) : IsHeader(Cell(k, i))}
Datagrams(k, left) ==
  [n \in 1..Cardinality(Heads(k, left)) |-> Cell(k, Nth(Heads(k, left), n)).of]

LEMMA HeadsFinite ==
  ASSUME NEW k, Left(k) \in Nat, NEW left \in Nat
  PROVE  /\ Heads(k, left) \subseteq Int /\ IsFiniteSet(Heads(k, left))
         /\ Cardinality(Heads(k, left)) \in Nat
<1>1. IsFiniteSet((left + 1)..Left(k)) /\ (left + 1)..Left(k) \subseteq Int
  BY FS_Interval
<1>2. Heads(k, left) \in SUBSET ((left + 1)..Left(k))
  BY DEF Heads
<1>3. IsFiniteSet(Heads(k, left))
  BY <1>1, <1>2, FS_Subset
<1> QED BY <1>1, <1>2, <1>3, FS_CardinalityType

(* The numbers of the mapping count from where the chip is.                *)
LEMMA BehindIs ==
  ASSUME SocketInv, NEW u \in Users, Live(u)
  PROVE  Behind(u) = Datagrams(socket[sockindex[u]], remaining[u])
<1> DEFINE k == socket[sockindex[u]]
           left == remaining[u]
           inc == k.RX_inc
           S == Heads(k, left)
<1>1. InStep(k) /\ left \in Nat /\ Left(k) \in Nat /\ k \in SocketStates
  BY OwnSocket
<1>2. /\ inc \in Nat /\ k.rd \in Int /\ Len(k.fifo) \in Nat
      /\ Left(k) = Len(k.fifo) - inc /\ inc + 0 \in 0..BufferSize /\ inc + 0 = inc
  <2>1. /\ inc \in Nat /\ k.rd \in Int /\ Len(k.fifo) \in Nat /\ inc <= Len(k.fifo)
        /\ Len(k.fifo) <= BufferSize /\ BufferSize \in Nat
    BY <1>1, StateType, SocketConstants DEF InStep
  <2>2. Left(k) = Len(k.fifo) - inc
    BY DEF Left
  <2> HIDE DEF inc
  <2> QED BY <2>1, <2>2
<1>3. Wrapped(k.RX_RD - k.rd) = inc
  <2>1. k.RX_RD = Wrapped(k.rd + inc) /\ k.RX_RD \in Int
    BY <1>1, StateType DEF InStep
  <2>2. Wrapped(Wrapped(k.rd + inc) + 0 - k.rd) = inc + 0
    <3> DEFINE rd == k.rd
    <3>1. rd \in Int /\ inc \in Int /\ 0 \in Int /\ inc + 0 \in 0..BufferSize
      BY <1>2
    <3> HIDE DEF rd, inc
    <3>2. Wrapped(Wrapped(rd + inc) + 0 - rd) = inc + 0
      BY <3>1, Ahead
    <3> QED BY <3>2 DEF rd
  <2>3. k.RX_RD + 0 - k.rd = k.RX_RD - k.rd
    BY <1>2, <2>1
  <2> QED BY <1>2, <2>1, <2>2, <2>3
<1>4. S \subseteq Int /\ IsFiniteSet(S) /\ Cardinality(S) \in Nat
  BY <1>1, HeadsFinite
<1>5. Headers(k, left) = Moved(S, inc)
  <2>1. Headers(k, left) = {i \in (inc + left + 1)..Len(k.fifo) : IsHeader(k.fifo[i])}
    BY <1>3 DEF Headers, IsHeader
  <2>2. Moved(S, inc) = {i + inc : i \in S}
    BY DEF Moved
  <2>3. ASSUME NEW i \in S
        PROVE  i + inc \in (inc + left + 1)..Len(k.fifo) /\ IsHeader(k.fifo[i + inc])
    <3>1. i \in (left + 1)..Left(k) /\ IsHeader(k.fifo[inc + i])
      BY DEF Heads, Cell
    <3> HIDE DEF S, inc, left
    <3>2. i + inc = inc + i /\ i + inc \in (inc + left + 1)..Len(k.fifo)
      BY <3>1, <1>1, <1>2
    <3> QED BY <3>1, <3>2
  <2>4. ASSUME NEW j \in (inc + left + 1)..Len(k.fifo), IsHeader(k.fifo[j])
        PROVE  \E i \in S : j = i + inc
    <3> DEFINE i == j - inc
    <3> HIDE DEF inc, left
    <3>1. i \in (left + 1)..Left(k) /\ inc + i = j /\ j = i + inc
      BY <1>1, <1>2
    <3>2. IsHeader(Cell(k, i))
      BY <3>1, <2>4 DEF Cell, inc
    <3> QED BY <3>1, <3>2 DEF Heads
  <2> HIDE DEF S, inc, left
  <2> QED BY <2>1, <2>2, <2>3, <2>4
<1>6. Cardinality(Headers(k, left)) = Cardinality(S)
  BY <1>2, <1>4, <1>5, MovedFinite
<1>7. ASSUME NEW n \in 1..Cardinality(S)
      PROVE  k.fifo[Nth(Headers(k, left), n)].of = Cell(k, Nth(S, n)).of
  <2>1. Nth(S, n) \in S /\ Nth(S, n) \in Int
    BY <1>4, NthType
  <2>2. Nth(Headers(k, left), n) = Nth(S, n) + inc
    BY <1>2, <1>4, <1>5, NthMoved
  <2>3. Nth(S, n) + inc = inc + Nth(S, n)
    BY <2>1, <1>2
  <2> QED BY <2>2, <2>3 DEF Cell
<1>8. Behind(u) = [n \in 1..Cardinality(Headers(k, left)) |->
                     k.fifo[Nth(Headers(k, left), n)].of]
  BY DEF Behind
<1>9. Datagrams(k, left) = [n \in 1..Cardinality(S) |-> Cell(k, Nth(S, n)).of]
  BY DEF Datagrams
<1> HIDE DEF k, left, S
<1>10. Behind(u) = Datagrams(k, left)
  BY <1>6, <1>7, <1>8, <1>9
<1> QED BY <1>10 DEF k, left

(* A call that leaves a datagrams' length of bytes leaves the datagrams.   *)
LEMMA HeadsOn ==
  ASSUME NEW k, InStep(k), NEW n \in Nat, NEW a \in Nat, NEW after,
         Follows(k, after, n)
  PROVE  /\ Heads(k, n + a) = Moved(Heads(after, a), n)
         /\ \A i \in Heads(after, a) : Cell(k, i + n) = Cell(after, i)
<1> DEFINE l == Left(k)
           m == Left(after)
<1>1. l \in Nat /\ m \in Nat /\ m = l - n
  BY RefreshedIs DEF Follows
<1>2. \A i \in 1..m : Cell(after, i) = Cell(k, n + i)
  BY DEF Follows
<1>3. Heads(k, n + a) = {i \in (n + a + 1)..l : IsHeader(Cell(k, i))}
  BY DEF Heads
<1>4. Heads(after, a) = {i \in (a + 1)..m : IsHeader(Cell(after, i))}
  BY DEF Heads
<1> HIDE DEF l, m
<1>5. ASSUME NEW i \in Heads(after, a)
      PROVE  /\ Cell(k, i + n) = Cell(after, i)
             /\ i + n \in (n + a + 1)..l /\ IsHeader(Cell(k, i + n))
  <2>1. i \in (a + 1)..m /\ IsHeader(Cell(after, i))
    BY <1>4
  <2>2. i \in 1..m /\ i + n = n + i /\ i + n \in (n + a + 1)..l
    BY <2>1, <1>1
  <2> QED BY <2>1, <2>2, <1>2
<1>6. ASSUME NEW j \in (n + a + 1)..l, IsHeader(Cell(k, j))
      PROVE  \E i \in Heads(after, a) : j = i + n
  <2> DEFINE i == j - n
  <2>1. i \in (a + 1)..m /\ i \in 1..m /\ j = n + i /\ j = i + n
    BY <1>1
  <2>2. IsHeader(Cell(after, i))
    BY <1>2, <1>6, <2>1
  <2> QED BY <2>1, <2>2, <1>4
<1> QED BY <1>3, <1>5, <1>6 DEF Moved

LEMMA DatagramsOn ==
  ASSUME NEW k, InStep(k), NEW n \in Nat, NEW a \in Nat, NEW after,
         Follows(k, after, n)
  PROVE  Datagrams(k, n + a) = Datagrams(after, a)
<1> DEFINE S == Heads(k, n + a)
           T == Heads(after, a)
<1>1. Left(after) \in Nat
  BY RefreshedIs DEF Follows
<1>2. T \subseteq Int /\ IsFiniteSet(T)
  BY <1>1, HeadsFinite
<1>3. S = Moved(T, n) /\ \A i \in T : Cell(k, i + n) = Cell(after, i)
  BY HeadsOn
<1> HIDE DEF S, T
<1>4. Cardinality(S) = Cardinality(T) /\ n \in Int
  <2>1. n \in Int
    OBVIOUS
  <2>2. Cardinality(Moved(T, n)) = Cardinality(T)
    BY <1>2, <2>1, MovedFinite
  <2> QED BY <1>3, <2>1, <2>2
<1>5. ASSUME NEW j \in 1..Cardinality(T)
      PROVE  Cell(k, Nth(S, j)).of = Cell(after, Nth(T, j)).of
  <2>1. Nth(T, j) \in T
    BY <1>2, NthType
  <2>2. Nth(S, j) = Nth(T, j) + n
    BY <1>2, <1>3, <1>4, NthMoved
  <2> QED BY <2>1, <2>2, <1>3
<1>6. Datagrams(k, n + a) = [j \in 1..Cardinality(S) |-> Cell(k, Nth(S, j)).of]
  BY DEF Datagrams, S
<1>7. Datagrams(after, a) = [j \in 1..Cardinality(T) |-> Cell(after, Nth(T, j)).of]
  BY DEF Datagrams, T
<1> QED BY <1>4, <1>5, <1>6, <1>7

LEMMA NoDatagrams ==
  ASSUME NEW k, NEW left \in Nat, Left(k) \in Nat, Left(k) <= left
  PROVE  Datagrams(k, left) = <<>>
<1>1. (left + 1)..Left(k) = {}
  OBVIOUS
<1>2. Heads(k, left) = {}
  BY <1>1 DEF Heads
<1>3. Cardinality(Heads(k, left)) = 0
  BY <1>2, FS_EmptySet
<1> QED BY <1>3 DEF Datagrams

LEMMA TailIs ==
  ASSUME NEW n \in Nat, NEW q, q = [i \in 1..(n + 1) |-> q[i]]
  PROVE  q /= <<>> /\ Head(q) = q[1] /\ Tail(q) = [i \in 1..n |-> q[i + 1]]
<1> DEFINE A == {q[i] : i \in 1..(n + 1)}
<1>1. q \in [1..(n + 1) -> A]
  OBVIOUS
<1> HIDE DEF A
<1>2. n + 1 \in Nat /\ n + 1 > 0
  OBVIOUS
<1>3. q \in Seq(A) /\ Len(q) = n + 1
  BY <1>1, <1>2
<1>4. q /= <<>>
  BY <1>2, <1>3
<1>5. Tail(q) \in Seq(A) /\ Len(Tail(q)) = n /\ \A i \in 1..n : Tail(q)[i] = q[i + 1]
  BY <1>3, <1>4
<1>6. Tail(q) = [i \in 1..n |-> Tail(q)[i]]
  BY <1>5
<1> QED BY <1>3, <1>4, <1>5, <1>6

(* The first of the datagrams, and the others.                             *)
LEMMA NextDatagramIs ==
  ASSUME NEW k, InStep(k), NEW of, Reading(k, 0, of), Left(k) > 0, NEW after,
         Follows(k, after, HeaderSize)
  PROVE  /\ Datagrams(k, 0) /= <<>>
         /\ Head(Datagrams(k, 0)) = Cell(k, 1).of
         /\ Tail(Datagrams(k, 0)) = Datagrams(after, Cell(k, 1).of)
<1> DEFINE c == Cell(k, 1)
           d == c.of
           size == HeaderSize + d
           S == Heads(k, size)
           T == Heads(k, 0)
<1>1. /\ HeaderSize \in Nat \ {0} /\ Left(k) \in Nat /\ IsHeader(c)
  BY SocketConstants, RefreshedIs DEF Reading
<1>2. c \in Bytes /\ d \in Nat /\ c.left = size /\ size \in Nat /\ size > 0
      /\ size <= Left(k)
  <2>1. c \in Bytes /\ c.left <= Left(k)
    BY WholeCells
  <2>2. d \in Nat /\ c.left = d + HeaderSize
    BY <1>1, <2>1, SocketConstants DEF IsHeader
  <2> HIDE DEF c
  <2> QED BY <1>1, <2>1, <2>2
<1>3. \A j \in 0..(size - 1) : Cell(k, j + 1) = [of |-> d, left |-> size - j]
  <2>1. \A j \in 0..(c.left - 1) : Cell(k, j + 1) = [of |-> c.of, left |-> c.left - j]
    BY WholeCells
  <2> HIDE DEF c
  <2> QED BY <1>2, <2>1
<1> HIDE DEF d
<1>4. ASSUME NEW i \in 2..size
      PROVE  ~IsHeader(Cell(k, i))
  <2>1. i - 1 \in 0..(size - 1) /\ (i - 1) + 1 = i /\ size - (i - 1) /= size
    BY <1>2
  <2>2. Cell(k, (i - 1) + 1) = [of |-> d, left |-> size - (i - 1)]
    BY <1>3, <2>1
  <2>3. Cell(k, i).of = d /\ Cell(k, i).left /= d + HeaderSize
    BY <1>1, <1>2, <2>1, <2>2
  <2> QED BY <2>3 DEF IsHeader
<1>5. T = S \cup {1}
  <2>1. \A i \in (0 + 1)..Left(k) : i = 1 \/ i \in 2..size \/ i \in (size + 1)..Left(k)
    BY <1>1, <1>2
  <2>2. /\ 1 \in (0 + 1)..Left(k)
        /\ \A i \in (size + 1)..Left(k) : i \in (0 + 1)..Left(k)
    BY <1>1, <1>2
  <2>3. IsHeader(Cell(k, 1))
    BY <1>1
  <2> HIDE DEF c, size
  <2> QED BY <2>1, <2>2, <2>3, <1>4 DEF Heads
<1>6. /\ S \subseteq Int /\ IsFiniteSet(S) /\ Cardinality(S) \in Nat
      /\ \A i \in S : 1 < i
  <2>1. \A i \in (size + 1)..Left(k) : 1 < i
    BY <1>1, <1>2
  <2> HIDE DEF size
  <2>2. \A i \in S : 1 < i
    BY <2>1 DEF Heads
  <2> QED BY <1>1, <1>2, <2>2, HeadsFinite
<1> HIDE DEF S
<1>7. /\ Cardinality(T) = Cardinality(S) + 1 /\ Nth(T, 1) = 1
      /\ \A n \in 1..Cardinality(S) : Nth(T, n + 1) = Nth(S, n)
  <2>1. 1 \in Int
    OBVIOUS
  <2>2. /\ Cardinality(S \cup {1}) = Cardinality(S) + 1 /\ Nth(S \cup {1}, 1) = 1
        /\ \A n \in 1..Cardinality(S) : Nth(S \cup {1}, n + 1) = Nth(S, n)
    BY <1>6, <2>1, NthTail
  <2> QED BY <1>5, <2>2
<1> DEFINE q == Datagrams(k, 0)
           r == Datagrams(k, size)
<1>8. /\ q = [n \in 1..Cardinality(T) |-> Cell(k, Nth(T, n)).of]
      /\ r = [n \in 1..Cardinality(S) |-> Cell(k, Nth(S, n)).of]
  BY DEF Datagrams, S
<1> HIDE DEF q, r, T
<1>9. q /= <<>> /\ Head(q) = d /\ Tail(q) = r
  <2>1. \A n \in 1..Cardinality(S) : n + 1 \in 1..Cardinality(T) /\ q[n + 1] = r[n]
    BY <1>6, <1>7, <1>8
  <2>2. 1 \in 1..Cardinality(T) /\ q[1] = d
    BY <1>6, <1>7, <1>8 DEF d
  <2>3. /\ q = [n \in 1..(Cardinality(S) + 1) |-> q[n]]
        /\ r = [n \in 1..Cardinality(S) |-> q[n + 1]]
    <3>1. q = [n \in 1..Cardinality(T) |-> q[n]] /\ r = [n \in 1..Cardinality(S) |-> r[n]]
      BY <1>8
    <3>2. [n \in 1..Cardinality(S) |-> r[n]] = [n \in 1..Cardinality(S) |-> q[n + 1]]
      BY <2>1
    <3> QED BY <3>1, <3>2, <1>7
  <2> QED BY <1>6, <2>2, <2>3, TailIs
<1>10. r = Datagrams(after, d)
  BY <1>1, <1>2, DatagramsOn DEF r
<1> QED BY <1>9, <1>10 DEF q, d

(* A datagram that comes is the last.                                      *)
LEMMA GrownCells ==
  ASSUME NEW k, InStep(k), NEW d \in Sizes,
         Len(k.fifo) + (HeaderSize + d) <= BufferSize,
         NEW grown, grown = Grown(k, d)
  PROVE  /\ Left(grown) = Left(k) + (HeaderSize + d)
         /\ \A i \in 1..Left(k) : Cell(grown, i) = Cell(k, i)
         /\ \A i \in 1..(HeaderSize + d) :
              Cell(grown, Left(k) + i) = [of |-> d, left |-> (HeaderSize + d) + 1 - i]
<1> DEFINE q == k.fifo
           r == q \o Arrived(d)
           inc == k.RX_inc
           n == HeaderSize + d
<1>1. /\ q \in Seq(Bytes) /\ Len(q) \in Nat /\ inc \in Nat /\ inc <= Len(q)
      /\ n \in Nat /\ HeaderSize \in Nat /\ d \in Nat
  BY StateType, SocketConstants DEF InStep
<1>2. /\ Len(r) = Len(q) + HeaderSize + d
      /\ \A i \in 1..Len(q) : r[i] = q[i]
      /\ \A i \in (Len(q) + 1)..Len(r) : r[i] = [of |-> d, left |-> Len(r) + 1 - i]
  BY <1>1, RingGrows DEF InStep
<1>3. grown.fifo = r /\ grown.RX_inc = inc
  BY GrownSocket
<1>4. /\ Left(k) = Len(q) - inc /\ Left(grown) = Len(r) - inc
      /\ \A i : Cell(k, i) = q[inc + i] /\ Cell(grown, i) = r[inc + i]
  BY <1>3 DEF Left, Cell
<1> HIDE DEF q, r, inc
<1>5. Len(r) = Len(q) + n /\ Left(k) + n = Len(r) - inc
  BY <1>1, <1>2, <1>4
<1>6. ASSUME NEW i \in 1..Left(k)
      PROVE  Cell(grown, i) = Cell(k, i)
  <2>1. inc + i \in 1..Len(q)
    BY <1>1, <1>4
  <2> QED BY <2>1, <1>2, <1>4
<1>7. ASSUME NEW i \in 1..n
      PROVE  Cell(grown, Left(k) + i) = [of |-> d, left |-> n + 1 - i]
  <2> HIDE DEF n
  <2>1. /\ inc + (Left(k) + i) \in (Len(q) + 1)..Len(r)
        /\ Len(r) + 1 - (inc + (Left(k) + i)) = n + 1 - i
    BY <1>1, <1>4, <1>5
  <2> QED BY <2>1, <1>2, <1>4
<1> QED BY <1>4, <1>5, <1>6, <1>7

LEMMA LastIs ==
  ASSUME NEW n \in Nat, NEW A, NEW q \in [1..n -> A], NEW r,
         DOMAIN r = 1..(n + 1), r = [i \in DOMAIN r |-> r[i]],
         \A i \in 1..n : r[i] = q[i]
  PROVE  r = Append(q, r[n + 1])
<1> DEFINE B == A \cup {r[n + 1]}
           last == r[n + 1]
<1>1. q \in Seq(B) /\ Len(q) = n /\ last \in B
  OBVIOUS
<1> HIDE DEF B, last
<1>2. /\ Append(q, last) \in Seq(B) /\ Len(Append(q, last)) = n + 1
      /\ \A i \in 1..n : Append(q, last)[i] = q[i]
      /\ Append(q, last)[n + 1] = last
  BY <1>1
<1>3. /\ Append(q, last) = [i \in 1..(n + 1) |-> Append(q, last)[i]]
      /\ r = [i \in 1..(n + 1) |-> r[i]]
  <2>1. Append(q, last) = [i \in 1..(n + 1) |-> Append(q, last)[i]]
    <3> DEFINE t == Append(q, last)
    <3>1. t \in Seq(B) /\ Len(t) = n + 1
      BY <1>2
    <3> HIDE DEF t
    <3>2. t = [i \in 1..(n + 1) |-> t[i]]
      BY <3>1
    <3> QED BY <3>2 DEF t
  <2>2. r = [i \in 1..(n + 1) |-> r[i]]
    OBVIOUS
  <2> QED BY <2>1, <2>2
<1>4. ASSUME NEW i \in 1..(n + 1)
      PROVE  Append(q, last)[i] = r[i]
  <2>1. i \in 1..n \/ i = n + 1
    OBVIOUS
  <2> QED BY <2>1, <1>2 DEF last
<1> QED BY <1>3, <1>4 DEF last

LEMMA DatagramsGrown ==
  ASSUME NEW k, InStep(k), NEW d \in Sizes,
         Len(k.fifo) + (HeaderSize + d) <= BufferSize,
         NEW grown, grown = Grown(k, d),
         NEW left, NEW of, Reading(k, left, of)
  PROVE  Datagrams(grown, left) = Append(Datagrams(k, left), d)
<1> DEFINE l == Left(k)
           n == HeaderSize + d
           S == Heads(k, left)
           T == Heads(grown, left)
<1>1. /\ l \in Nat /\ left \in Nat /\ left <= l /\ n \in Nat /\ n > 0 /\ d \in Nat
      /\ HeaderSize \in Nat
  BY RefreshedIs, SocketConstants DEF Reading
<1>2. /\ Left(grown) = l + n
      /\ \A i \in 1..l : Cell(grown, i) = Cell(k, i)
      /\ \A i \in 1..n : Cell(grown, l + i) = [of |-> d, left |-> n + 1 - i]
  BY GrownCells
<1>3. /\ S = {i \in (left + 1)..l : IsHeader(Cell(k, i))}
      /\ T = {i \in (left + 1)..(l + n) : IsHeader(Cell(grown, i))}
  BY <1>2 DEF Heads
<1>4. Cell(grown, l + 1).of = d /\ IsHeader(Cell(grown, l + 1))
  <2>1. 1 \in 1..n /\ n + 1 - 1 = d + HeaderSize
    BY <1>1
  <2>2. Cell(grown, l + 1) = [of |-> d, left |-> d + HeaderSize]
    BY <1>2, <2>1
  <2> QED BY <2>2 DEF IsHeader
<1>5. ASSUME NEW i \in (l + 2)..(l + n)
      PROVE  ~IsHeader(Cell(grown, i))
  <2>1. i - l \in 1..n /\ l + (i - l) = i /\ n + 1 - (i - l) /= d + HeaderSize
    BY <1>1
  <2>2. Cell(grown, l + (i - l)) = [of |-> d, left |-> n + 1 - (i - l)]
    BY <1>2, <2>1
  <2>3. Cell(grown, i).of = d /\ Cell(grown, i).left /= d + HeaderSize
    BY <2>1, <2>2
  <2> QED BY <2>3 DEF IsHeader
<1>6. S \subseteq Int /\ IsFiniteSet(S) /\ Cardinality(S) \in Nat
  BY <1>1, HeadsFinite
<1> HIDE DEF l, n, S, T
<1>7. T = S \cup {l + 1}
  <2>1. \A i \in (left + 1)..(l + n) :
          (i \in 1..l /\ i \in (left + 1)..l) \/ i = l + 1 \/ i \in (l + 2)..(l + n)
    BY <1>1
  <2>2. /\ l + 1 \in (left + 1)..(l + n)
        /\ \A i \in (left + 1)..l : i \in (left + 1)..(l + n) /\ i \in 1..l
    BY <1>1
  <2>3. \A i \in T : i \in S \cup {l + 1}
    BY <2>1, <1>2, <1>3, <1>5
  <2>4. \A i \in S \cup {l + 1} : i \in T
    BY <2>2, <1>2, <1>3, <1>4
  <2> QED BY <2>3, <2>4
<1>8. l + 1 \in Int /\ \A i \in S : i < l + 1 /\ i \in 1..l
  BY <1>1, <1>3
<1>9. /\ Cardinality(T) = Cardinality(S) + 1 /\ Nth(T, Cardinality(S) + 1) = l + 1
      /\ \A j \in 1..Cardinality(S) : Nth(T, j) = Nth(S, j)
  <2> DEFINE m == l + 1
  <2>1. m \in Int /\ \A i \in S : i < m
    BY <1>8
  <2> HIDE DEF m
  <2>2. /\ Cardinality(S \cup {m}) = Cardinality(S) + 1
        /\ Nth(S \cup {m}, Cardinality(S) + 1) = m
        /\ \A j \in 1..Cardinality(S) : Nth(S \cup {m}, j) = Nth(S, j)
    BY <1>6, <2>1, NthAppended
  <2> QED BY <1>7, <2>2 DEF m
<1> DEFINE q == Datagrams(k, left)
           r == Datagrams(grown, left)
<1>10. /\ q = [j \in 1..Cardinality(S) |-> Cell(k, Nth(S, j)).of]
       /\ r = [j \in 1..Cardinality(T) |-> Cell(grown, Nth(T, j)).of]
  BY DEF Datagrams, S, T
<1> HIDE DEF q, r
<1> DEFINE A == {q[j] : j \in 1..Cardinality(S)}
<1>11. q \in [1..Cardinality(S) -> A]
  BY <1>10
<1>12. /\ DOMAIN r = 1..(Cardinality(S) + 1) /\ r = [j \in DOMAIN r |-> r[j]]
       /\ r[Cardinality(S) + 1] = d
  <2>1. Cardinality(S) + 1 \in 1..(Cardinality(S) + 1)
    BY <1>6
  <2> QED BY <2>1, <1>4, <1>9, <1>10
<1>13. ASSUME NEW j \in 1..Cardinality(S)
       PROVE  r[j] = q[j]
  <2>1. Nth(S, j) \in S /\ j \in 1..(Cardinality(S) + 1)
    <3>1. Nth(S, j) \in S
      BY <1>6, NthType
    <3>2. j \in 1..(Cardinality(S) + 1)
      BY <1>6
    <3> QED BY <3>1, <3>2
  <2>2. Cell(grown, Nth(S, j)) = Cell(k, Nth(S, j))
    BY <2>1, <1>2, <1>8
  <2> QED BY <2>1, <2>2, <1>9, <1>10
<1> HIDE DEF A
<1>14. r = Append(q, r[Cardinality(S) + 1])
  BY <1>6, <1>11, <1>12, <1>13, LastIs
<1> QED BY <1>12, <1>14 DEF q, r
-----------------------------------------------------------------------------
(* The mapping, and the steps of the queue under it.                       *)
Listeners == {u \in Users : Live(u)}
Waits == [u \in Users |-> IF Live(u) THEN Behind(u) ELSE <<>>]
Current == [u \in Users |-> [of |-> sender[u],
                             left |-> IF Live(u) THEN remaining[u] ELSE 0]]

LEMMA ReadBytesIs ==
  ASSUME NEW u \in Users, NEW n \in 1..ReadMax,
         LET c == Current[u]
             got == IF n < c.left THEN n ELSE c.left
         IN /\ read_bytes' = [i \in 1..got |-> [of |-> c.of, left |-> c.left + 1 - i]]
            /\ Current' = [Current EXCEPT ![u].left = c.left - got]
            /\ Waits' = Waits,
         u \in Listeners, Listeners' = Listeners
  PROVE  Queue!ReadBytes(u)
BY DEF Queue!ReadBytes, Listeners, Waits, Current

LEMMA NextDatagramMapped ==
  ASSUME NEW u \in Users, read_bytes' = <<>>,
         IF Waits[u] = <<>>
         THEN Current' = [Current EXCEPT ![u].left = 0] /\ Waits' = Waits
         ELSE LET d == Head(Waits[u])
              IN /\ Current' = [Current EXCEPT ![u] = [of |-> d, left |-> d]]
                 /\ Waits' = [Waits EXCEPT ![u] = Tail(@)],
         u \in Listeners, Listeners' = Listeners
  PROVE  Queue!NextDatagram(u)
BY DEF Queue!NextDatagram, Listeners, Waits, Current

LEMMA DeliverIs ==
  ASSUME NEW u \in Users, read_bytes' = <<>>, Current' = Current,
         NEW d \in Sizes, Waits' = [Waits EXCEPT ![u] = Append(@, d)],
         u \in Listeners, Listeners' = Listeners
  PROVE  Queue!Deliver(u)
BY DEF Queue!Deliver, Listeners, Waits, Current

LEMMA TurnoverIs ==
  ASSUME read_bytes' = <<>>,
         \A u \in Users :
           IF u \in Listeners \cap Listeners'
           THEN Waits'[u] = Waits[u] /\ Current'[u] = Current[u]
           ELSE Waits'[u] = <<>> /\ Current'[u].left = 0
  PROVE  Queue!Turnover
BY DEF Queue!Turnover, Listeners, Waits, Current

BehindRight ==
  \A u \in Users : SocketInv /\ Live(u) =>
    Behind(u) = Datagrams(socket[sockindex[u]], remaining[u])

LEMMA BehindRightAlways == BehindRight /\ BehindRight'
<1>1. BehindRight
  BY BehindIs DEF BehindRight
<1> QED BY <1>1, PTL

LEMMA MappedIs ==
  ASSUME NEW u \in Users, SocketInv, SocketInv'
  PROVE  /\ u \in Listeners <=> Live(u)
         /\ u \in Listeners' <=> Live(u)'
         /\ Live(u) => Current[u] = [of |-> sender[u], left |-> remaining[u]]
         /\ Live(u)' => Current'[u] = [of |-> sender'[u], left |-> remaining'[u]]
         /\ ~Live(u) => Waits[u] = <<>>
         /\ ~Live(u)' => Waits'[u] = <<>> /\ Current'[u].left = 0
         /\ Live(u) => Waits[u] = Datagrams(socket[sockindex[u]], remaining[u])
         /\ Live(u)' => Waits'[u] = Datagrams(socket'[sockindex'[u]], remaining'[u])
<1>1. /\ Current[u] = [of |-> sender[u], left |-> IF Live(u) THEN remaining[u] ELSE 0]
      /\ Current'[u] = [of |-> sender'[u], left |-> IF Live(u)' THEN remaining'[u] ELSE 0]
      /\ u \in Listeners <=> Live(u)
      /\ u \in Listeners' <=> Live(u)'
  BY DEF Current, Listeners
<1>2. /\ Waits[u] = IF Live(u) THEN Behind(u) ELSE <<>>
      /\ Waits'[u] = IF Live(u)' THEN Behind(u)' ELSE <<>>
  BY DEF Waits
<1> QED BY <1>1, <1>2, BehindRightAlways DEF BehindRight

(* An object whose socket nobody touched has what it had.                  *)
LEMMA WaitingStill ==
  ASSUME NEW u \in Users, SocketInv, SocketInv', Live(u) <=> Live(u)',
         Live(u) => /\ sockindex'[u] = sockindex[u] /\ remaining'[u] = remaining[u]
                    /\ socket'[sockindex[u]] = socket[sockindex[u]]
  PROVE  Waits'[u] = Waits[u]
<1>1. CASE ~Live(u)
  BY <1>1, MappedIs
<1>2. CASE Live(u)
  <2>1. Waits[u] = Datagrams(socket[sockindex[u]], remaining[u])
    BY <1>2, MappedIs
  <2>2. Waits'[u] = Datagrams(socket'[sockindex'[u]], remaining'[u])
    BY <1>2, MappedIs
  <2> QED BY <1>2, <2>1, <2>2
<1> QED BY <1>1, <1>2

(* Steps of an object that change nobody's socket.                         *)
LEMMA ListeningStill ==
  ASSUME \A u \in Users : Live(u)' <=> Live(u)
  PROVE  Listeners' = Listeners
BY DEF Listeners

LEMMA CurrentStill ==
  ASSUME NEW u \in Users, SocketInv, SocketInv', Live(u) <=> Live(u)',
         remaining'[u] = remaining[u], sender'[u] = sender[u]
  PROVE  Current'[u] = Current[u]
BY DEF Current

LEMMA MappedShape ==
  /\ Waits = [u \in Users |-> Waits[u]] /\ Waits' = [u \in Users |-> Waits'[u]]
  /\ Current = [u \in Users |-> Current[u]] /\ Current' = [u \in Users |-> Current'[u]]
BY DEF Waits, Current

LEMMA ReadMaps ==
  ASSUME SocketInv, SocketInv', NEW u \in Users, NEW n \in 1..ReadMax, ReadInto(u, n)
  PROVE  Queue!ReadBytes(u)
<1> DEFINE k == socket[sockindex[u]]
           left == remaining[u]
           got == IF n < left THEN n ELSE left
<1>1. /\ in_use = u /\ UNCHANGED <<sockindex, sender, in_use>>
      /\ got \in 0..left /\ got <= ReadMax
      /\ read_bytes' = [i \in 1..got |-> [of |-> sender[u], left |-> left + 1 - i]]
      /\ remaining' = [remaining EXCEPT ![u] = left - got]
  BY ReadIs
<1>2. PICK after : /\ Follows(k, after, got)
                   /\ socket' = [socket EXCEPT ![sockindex[u]] = after]
  BY ReadIs
<1>3. Live(u) /\ \A v \in Users : Live(v)' <=> Live(v)
  BY <1>1 DEF Live
<1>4. /\ sockindex[u] \in Sockets /\ InStep(k) /\ left \in Nat
      /\ \A v \in Users : Live(v) => sockindex[v] \in Sockets
  BY <1>3, OwnSocket
<1>5. /\ socket'[sockindex[u]] = after
      /\ \A s \in Sockets : s /= sockindex[u] => socket'[s] = socket[s]
  BY <1>2, <1>4 DEF SocketInv, SocketTypeOK
<1>6. /\ remaining'[u] = left - got
      /\ \A v \in Users : v /= u => remaining'[v] = remaining[v]
  BY <1>1, SocketTypes
<1> HIDE DEF k, left, got
<1>7. got \in Nat /\ left - got \in Nat /\ got + (left - got) = left
  BY <1>1, <1>4
<1>8. Waits'[u] = Waits[u]
  <2>1. Datagrams(k, got + (left - got)) = Datagrams(after, left - got)
    BY <1>2, <1>4, <1>7, DatagramsOn
  <2>2. Waits[u] = Datagrams(k, left) /\ Waits'[u] = Datagrams(after, left - got)
    BY <1>1, <1>3, <1>5, <1>6, MappedIs DEF k, left
  <2> QED BY <2>1, <2>2, <1>7
<1>9. \A v \in Users : v /= u => Waits'[v] = Waits[v]
  BY <1>1, <1>3, <1>4, <1>5, <1>6, SocketsApart, WaitingStill
<1>10. Waits' = Waits
  BY <1>8, <1>9, MappedShape
<1>11. /\ Current[u] = [of |-> sender[u], left |-> left]
       /\ Current'[u] = [of |-> sender[u], left |-> left - got]
  BY <1>1, <1>3, <1>6, MappedIs DEF left
<1>12. \A v \in Users : v /= u => Current'[v] = Current[v]
  BY <1>1, <1>3, <1>6, CurrentStill
<1>13. Current' = [Current EXCEPT ![u].left = left - got]
  <2>1. [Current[u] EXCEPT !.left = left - got] = Current'[u]
    BY <1>11
  <2> QED BY <1>12, <2>1, MappedShape
<1>14. u \in Listeners /\ Listeners' = Listeners
  BY <1>3, MappedIs, ListeningStill
<1>15. Current[u].of = sender[u] /\ Current[u].left = left
  BY <1>11
<1> QED BY <1>1, <1>10, <1>13, <1>14, <1>15, ReadBytesIs DEF got, left

LEMMA ParseMaps ==
  ASSUME SocketInv, SocketInv', NEW u \in Users, ParsePacket(u)
  PROVE  Queue!NextDatagram(u)
<1> DEFINE k == socket[sockindex[u]]
           left == remaining[u]
           d == Cell(k, left + 1).of
<1>1. in_use = u /\ UNCHANGED <<sockindex, in_use>> /\ read_bytes' = <<>>
  BY ParseIs
<1>2. PICK after :
        /\ socket' = [socket EXCEPT ![sockindex[u]] = after]
        /\ \/ /\ Left(k) = left /\ Follows(k, after, left)
              /\ remaining' = [remaining EXCEPT ![u] = 0]
              /\ UNCHANGED sender
           \/ /\ \E skipped :
                   /\ Follows(k, skipped, left) /\ Left(skipped) > 0
                   /\ Reading(skipped, 0, sender[u])
                   /\ Cell(skipped, 1).of = d
                   /\ Follows(skipped, after, HeaderSize)
              /\ d \in Sizes
              /\ remaining' = [remaining EXCEPT ![u] = d]
              /\ sender' = [sender EXCEPT ![u] = d]
  BY ParseIs
<1> HIDE DEF d
<1>3. Live(u) /\ \A v \in Users : Live(v)' <=> Live(v)
  BY <1>1 DEF Live
<1>4. /\ sockindex[u] \in Sockets /\ InStep(k) /\ left \in Nat /\ Left(k) \in Nat
      /\ \A v \in Users : Live(v) => sockindex[v] \in Sockets
  BY <1>3, OwnSocket
<1>5. /\ socket'[sockindex[u]] = after
      /\ \A s \in Sockets : s /= sockindex[u] => socket'[s] = socket[s]
  BY <1>2, <1>4 DEF SocketInv, SocketTypeOK
<1>6. \A v \in Users : v /= u => remaining'[v] = remaining[v] /\ sender'[v] = sender[v]
  BY <1>2, SocketTypes
<1>7. \A v \in Users : v /= u => Waits'[v] = Waits[v] /\ Current'[v] = Current[v]
  <2>1. \A v \in Users : v /= u => Waits'[v] = Waits[v]
    BY <1>1, <1>3, <1>4, <1>5, <1>6, SocketsApart, WaitingStill
  <2>2. \A v \in Users : v /= u => Current'[v] = Current[v]
    BY <1>3, <1>6, CurrentStill
  <2> QED BY <2>1, <2>2
<1> HIDE DEF k, left
<1>8. Waits[u] = Datagrams(k, left) /\ Waits'[u] = Datagrams(after, remaining'[u])
  BY <1>1, <1>3, <1>5, MappedIs DEF k, left
<1>9. left + 0 = left /\ 0 \in Nat
  BY <1>4
<1>10. /\ u \in Listeners /\ Listeners' = Listeners
       /\ Current[u] = [of |-> sender[u], left |-> remaining[u]]
       /\ Current'[u] = [of |-> sender'[u], left |-> remaining'[u]]
  BY <1>3, MappedIs, ListeningStill
<1>11. CASE /\ Left(k) = left /\ Follows(k, after, left)
            /\ remaining' = [remaining EXCEPT ![u] = 0] /\ UNCHANGED sender
  <2>1. remaining'[u] = 0
    BY <1>11, SocketTypes
  <2>2. Datagrams(k, left) = <<>>
    <3>1. Left(k) <= left
      BY <1>4, <1>11
    <3> QED BY <3>1, <1>4, NoDatagrams
  <2>3. Datagrams(k, left + 0) = Datagrams(after, 0)
    BY <1>4, <1>9, <1>11, DatagramsOn
  <2>4. Waits[u] = <<>> /\ Waits'[u] = <<>>
    BY <1>8, <1>9, <2>1, <2>2, <2>3
  <2>5. Waits' = Waits
    BY <1>7, <2>4, MappedShape
  <2>6. Current' = [Current EXCEPT ![u].left = 0]
    <3>1. [Current[u] EXCEPT !.left = 0] = Current'[u]
      BY <1>11, <1>10, <2>1
    <3> QED BY <1>7, <3>1, MappedShape
  <2> QED BY <1>1, <1>10, <2>4, <2>5, <2>6, NextDatagramMapped
<1>12. ASSUME NEW skipped,
              Follows(k, skipped, left), Left(skipped) > 0,
              Reading(skipped, 0, sender[u]), Cell(skipped, 1).of = d,
              Follows(skipped, after, HeaderSize), d \in Sizes,
              remaining' = [remaining EXCEPT ![u] = d],
              sender' = [sender EXCEPT ![u] = d]
       PROVE  Queue!NextDatagram(u)
  <2>1. remaining'[u] = d /\ sender'[u] = d
    BY <1>12, SocketTypes
  <2>2. Datagrams(k, left + 0) = Datagrams(skipped, 0)
    BY <1>4, <1>9, <1>12, DatagramsOn
  <2>3. InStep(skipped)
    BY <1>12 DEF Follows
  <2>4. /\ Datagrams(skipped, 0) /= <<>> /\ Head(Datagrams(skipped, 0)) = d
        /\ Tail(Datagrams(skipped, 0)) = Datagrams(after, d)
    BY <1>12, <2>3, NextDatagramIs
  <2>5. /\ Waits[u] /= <<>> /\ Head(Waits[u]) = d /\ Waits'[u] = Tail(Waits[u])
    BY <1>8, <1>9, <2>1, <2>2, <2>4
  <2>6. Waits' = [Waits EXCEPT ![u] = Tail(@)]
    BY <1>7, <2>5, MappedShape
  <2>7. Current'[u] = [of |-> d, left |-> d]
    BY <1>10, <2>1
  <2>8. Current' = [Current EXCEPT ![u] = [of |-> d, left |-> d]]
    BY <1>7, <2>7, MappedShape
  <2> QED BY <1>1, <1>10, <2>5, <2>6, <2>8, NextDatagramMapped
<1> QED BY <1>2, <1>11, <1>12

(* At most one object reads a socket.                                      *)
LEMMA OneReader ==
  ASSUME SocketInv, NEW u \in Users, Live(u), NEW v \in Users, Live(v), u /= v
  PROVE  sockindex[u] /= sockindex[v]
BY UsersAre DEF SocketInv, Live

(* A datagram joins the queue of the object whose socket it came to; no    *)
(* queue, if nobody has this socket.                                       *)
LEMMA ArrivesMaps ==
  ASSUME SocketInv, SocketInv', NEW s \in Sockets, DatagramArrives(s)
  PROVE  Queue!QueueNext
<1>1. /\ socket[s].open /\ read_bytes' = <<>>
      /\ UNCHANGED <<sockindex, remaining, sender, in_use>>
  BY ArrivesIs
<1>2. PICK d \in Sizes :
        /\ Len(socket[s].fifo) + (HeaderSize + d) <= BufferSize
        /\ socket' = [socket EXCEPT ![s] = Grown(socket[s], d)]
  BY ArrivesIs
<1> DEFINE k == socket[s]
           grown == Grown(k, d)
<1>3. /\ socket'[s] = grown /\ \A r \in Sockets : r /= s => socket'[r] = socket[r]
  BY <1>2 DEF SocketInv, SocketTypeOK
<1>4. \A v \in Users : Live(v)' <=> Live(v)
  BY <1>1 DEF Live
<1>5. \A v \in Users : Live(v) => sockindex[v] \in Sockets
  BY OwnSocket
<1>6. Current' = Current /\ Listeners' = Listeners
  <2>1. \A v \in Users : Current'[v] = Current[v]
    BY <1>1, <1>4, CurrentStill
  <2> QED BY <1>4, <2>1, MappedShape, ListeningStill
<1>7. ASSUME NEW v \in Users, ~(Live(v) /\ sockindex[v] = s)
      PROVE  Waits'[v] = Waits[v]
  BY <1>1, <1>3, <1>4, <1>5, <1>7, WaitingStill
<1>8. CASE \E u \in Users : Live(u) /\ sockindex[u] = s
  <2>1. PICK u \in Users : Live(u) /\ sockindex[u] = s
    BY <1>8
  <2>2. InStep(k) /\ Reading(k, remaining[u], sender[u])
    BY <2>1, OwnSocket
  <2>3. d \in Sizes /\ Len(k.fifo) + (HeaderSize + d) <= BufferSize
    BY <1>2
  <2> HIDE DEF k
  <2>4. Datagrams(grown, remaining[u]) = Append(Datagrams(k, remaining[u]), d)
    BY <2>2, <2>3, DatagramsGrown
  <2> HIDE DEF grown
  <2>5. Waits[u] = Datagrams(k, remaining[u]) /\ Waits'[u] = Datagrams(grown, remaining[u])
    BY <1>1, <1>3, <1>4, <2>1, MappedIs DEF k
  <2>6. \A v \in Users : v /= u => Waits'[v] = Waits[v]
    BY <1>7, <2>1, OneReader
  <2>7. Waits' = [Waits EXCEPT ![u] = Append(@, d)]
    BY <2>4, <2>5, <2>6, MappedShape
  <2>8. Queue!Deliver(u)
    <3>1. u \in Listeners
      BY <2>1, MappedIs
    <3> QED BY <1>1, <1>6, <2>3, <2>7, <3>1, DeliverIs
  <2> QED BY <2>8 DEF Queue!QueueNext
<1>9. CASE ~ \E u \in Users : Live(u) /\ sockindex[u] = s
  <2>1. \A v \in Users : Waits'[v] = Waits[v]
    BY <1>7, <1>9
  <2>2. Queue!Turnover
    <3>1. \A v \in Users : v \notin Listeners =>
            Waits'[v] = <<>> /\ Current'[v].left = 0
      BY <1>4, MappedIs
    <3> QED BY <1>1, <1>6, <2>1, <3>1, TurnoverIs
  <2> QED BY <2>2 DEF Queue!QueueNext
<1> QED BY <1>8, <1>9

NothingWaits ==
  \A u \in Users :
    SocketInv /\ Live(u) /\ socket[sockindex[u]].fifo = <<>> => Waits[u] = <<>>

LEMMA NothingWaitsAlways == NothingWaits /\ NothingWaits'
<1>1. ASSUME NEW u \in Users, SocketInv, Live(u), socket[sockindex[u]].fifo = <<>>
      PROVE  Waits[u] = <<>>
  <2> DEFINE k == socket[sockindex[u]]
  <2>1. InStep(k) /\ remaining[u] \in Nat /\ Left(k) \in Nat
    BY <1>1, OwnSocket
  <2>2. k.fifo = <<>> /\ k.RX_inc \in Nat /\ Left(k) = Len(k.fifo) - k.RX_inc
    BY <1>1, <2>1, StateType DEF InStep, Left
  <2> HIDE DEF k
  <2>3. Left(k) <= remaining[u]
    BY <2>1, <2>2
  <2>4. Datagrams(k, remaining[u]) = <<>>
    BY <2>1, <2>3, NoDatagrams
  <2>5. Behind(u) = Datagrams(k, remaining[u])
    BY <1>1, BehindIs DEF k
  <2> QED BY <1>1, <2>4, <2>5 DEF Waits
<1>2. NothingWaits
  BY <1>1 DEF NothingWaits
<1> QED BY <1>2, PTL

(* Sockets change hands: an object that goes on reading keeps what it has, *)
(* one that starts has nothing yet.                                        *)
LEMMA TurnoverMaps ==
  ASSUME SocketInv, SocketInv', read_bytes' = <<>>,
         \A u \in Users :
           Live(u)' =>
             \/ /\ ~Live(u) /\ socket'[sockindex'[u]].fifo = <<>> /\ remaining'[u] = 0
             \/ /\ Live(u) /\ sockindex'[u] = sockindex[u]
                /\ socket'[sockindex[u]] = socket[sockindex[u]]
                /\ remaining'[u] = remaining[u] /\ sender'[u] = sender[u]
  PROVE  Queue!Turnover
<1>1. ASSUME NEW u \in Users
      PROVE  IF u \in Listeners \cap Listeners'
             THEN Waits'[u] = Waits[u] /\ Current'[u] = Current[u]
             ELSE Waits'[u] = <<>> /\ Current'[u].left = 0
  <2>1. CASE ~Live(u)'
    BY <2>1, MappedIs
  <2>2. CASE /\ Live(u)' /\ ~Live(u)
             /\ socket'[sockindex'[u]].fifo = <<>> /\ remaining'[u] = 0
    <3>1. Waits'[u] = <<>>
      BY <2>2, NothingWaitsAlways DEF NothingWaits
    <3>2. Current'[u] = [of |-> sender'[u], left |-> remaining'[u]]
      BY <2>2, MappedIs
    <3>3. Current'[u].left = 0
      BY <2>2, <3>2
    <3> QED BY <2>2, <3>1, <3>3, MappedIs
  <2>3. CASE /\ Live(u) /\ Live(u)' /\ sockindex'[u] = sockindex[u]
             /\ socket'[sockindex[u]] = socket[sockindex[u]]
             /\ remaining'[u] = remaining[u] /\ sender'[u] = sender[u]
    <3>1. Waits'[u] = Waits[u]
      BY <2>3, WaitingStill
    <3>2. Current'[u] = Current[u]
      BY <2>3, CurrentStill
    <3> QED BY <2>3, <3>1, <3>2, MappedIs
  <2> QED BY <2>1, <2>2, <2>3
<1> QED BY <1>1, TurnoverIs

LEMMA DhcpOpenMaps ==
  ASSUME SocketInv, SocketInv', DhcpOpen
  PROVE  Queue!Turnover
<1> DEFINE after == Shut(socket, sockindex["dhcp"])
<1>1. GoodSockets(after)
  BY SocketInvGood, SocketTypes, UsersAre, ShutIs
<1>2. /\ socket' = Opened(after)
      /\ sockindex' = [sockindex EXCEPT !["dhcp"] = Begun(after)]
      /\ read_bytes' = <<>> /\ sender' = sender
      /\ IF Begun(after) = NoSocket
         THEN in_use' = "nobody" /\ UNCHANGED remaining
         ELSE in_use' = "dhcp" /\ remaining' = [remaining EXCEPT !["dhcp"] = 0]
  BY DEF DhcpOpen
<1> HIDE DEF after
<1>3. sockindex'["dhcp"] = Begun(after)
  BY <1>2, SocketTypes, UsersAre
<1>4. ASSUME NEW u \in Users, Live(u)'
      PROVE  ~Live(u) /\ socket'[sockindex'[u]].fifo = <<>> /\ remaining'[u] = 0
  <2>1. u = "dhcp" /\ Begun(after) /= NoSocket /\ in_use \in {"nobody", "udp"}
    BY <1>2, <1>4, UsersAre DEF Live, DhcpOpen
  <2>2. remaining'[u] = 0
    BY <1>2, <2>1, SocketTypes
  <2> QED BY <1>1, <1>2, <1>3, <2>1, <2>2, OpenedIs, UsersAre DEF Live
<1> QED BY <1>2, <1>4, TurnoverMaps

LEMMA UdpOpenMaps ==
  ASSUME SocketInv, SocketInv', UdpOpen
  PROVE  Queue!Turnover
<1> DEFINE first == Shut(socket, sockindex["dhcp"])
           after == Shut(first, sockindex["udp"])
<1>1. GoodSockets(first)
  BY SocketInvGood, SocketTypes, UsersAre, ShutIs
<1>2. GoodSockets(after)
  <2> HIDE DEF first
  <2> QED BY <1>1, SocketTypes, UsersAre, ShutIs
<1>3. /\ socket' = Opened(after)
      /\ sockindex' = [sockindex EXCEPT !["dhcp"] = NoSocket, !["udp"] = Begun(after)]
      /\ read_bytes' = <<>> /\ sender' = [sender EXCEPT !["dhcp"] = 0]
      /\ IF Begun(after) = NoSocket
         THEN in_use' = "nobody" /\ remaining' = [remaining EXCEPT !["dhcp"] = 0]
         ELSE in_use' = "udp" /\ remaining' = [remaining EXCEPT !["dhcp"] = 0, !["udp"] = 0]
  BY DEF UdpOpen
<1> HIDE DEF after
<1>4. sockindex'["udp"] = Begun(after)
  BY <1>3, SocketTypes, UsersAre
<1>5. ASSUME NEW u \in Users, Live(u)'
      PROVE  ~Live(u) /\ socket'[sockindex'[u]].fifo = <<>> /\ remaining'[u] = 0
  <2>1. u = "udp" /\ Begun(after) /= NoSocket /\ in_use = "dhcp"
    BY <1>3, <1>5, UsersAre DEF Live, UdpOpen
  <2>2. remaining'[u] = 0
    BY <1>3, <2>1, SocketTypes, UsersAre
  <2> QED BY <1>2, <1>3, <1>4, <2>1, <2>2, OpenedIs, UsersAre DEF Live
<1> QED BY <1>3, <1>5, TurnoverMaps

LEMMA DnsOpenMaps ==
  ASSUME SocketInv, SocketInv', DnsOpen
  PROVE  Queue!Turnover
<1>1. in_use = "udp" /\ sockindex["dns"] = NoSocket /\ ReadsItsOwn("udp")
  BY UsersAre DEF DnsOpen, SocketInv, Live
<1>2. Shut(socket, sockindex["dns"]) = socket
  BY <1>1 DEF Shut
<1>3. GoodSockets(socket)
  BY SocketInvGood
<1>4. /\ socket' = Opened(socket)
      /\ sockindex' = [sockindex EXCEPT !["dns"] = Begun(socket)]
      /\ read_bytes' = <<>> /\ sender' = sender
      /\ IF Begun(socket) = NoSocket
         THEN UNCHANGED <<in_use, remaining>>
         ELSE in_use' = "dns" /\ remaining' = [remaining EXCEPT !["dns"] = 0]
  BY <1>2 DEF DnsOpen
<1>5. sockindex'["dns"] = Begun(socket) /\ sockindex'["udp"] = sockindex["udp"]
  BY <1>4, SocketTypes, UsersAre
<1>6. sockindex["udp"] \in Sockets /\ socket[sockindex["udp"]].open
  BY <1>1 DEF ReadsItsOwn
<1>7. socket'[sockindex["udp"]] = socket[sockindex["udp"]]
  <2>1. Begun(socket) /= sockindex["udp"]
    BY <1>3, <1>6, OpenedIs, NoSocketIs
  <2> QED BY <2>1, <1>3, <1>4, <1>6, OpenedIs
<1>8. /\ remaining'["udp"] = remaining["udp"]
      /\ Begun(socket) /= NoSocket => remaining'["dns"] = 0
  BY <1>4, SocketTypes, UsersAre
<1>9. ASSUME NEW u \in Users, Live(u)'
      PROVE  \/ /\ ~Live(u) /\ socket'[sockindex'[u]].fifo = <<>> /\ remaining'[u] = 0
             \/ /\ Live(u) /\ sockindex'[u] = sockindex[u]
                /\ socket'[sockindex[u]] = socket[sockindex[u]]
                /\ remaining'[u] = remaining[u] /\ sender'[u] = sender[u]
  <2>1. u = "udp" \/ (u = "dns" /\ Begun(socket) /= NoSocket)
    BY <1>1, <1>4, <1>9, UsersAre DEF Live
  <2>2. CASE u = "udp"
    BY <2>2, <1>1, <1>4, <1>5, <1>7, <1>8 DEF Live
  <2>3. CASE u = "dns" /\ Begun(socket) /= NoSocket
    BY <2>3, <1>1, <1>3, <1>4, <1>5, <1>8, OpenedIs, UsersAre
  <2> QED BY <2>1, <2>2, <2>3
<1> QED BY <1>4, <1>9, TurnoverMaps

LEMMA DnsStopMaps ==
  ASSUME SocketInv, SocketInv', DnsStop
  PROVE  Queue!Turnover
<1>1. /\ in_use = "dns" /\ sockindex["dns"] /= sockindex["udp"]
      /\ sockindex["udp"] \in Sockets /\ Live("udp") /\ in_use' = "udp"
      /\ read_bytes' = <<>>
  BY UsersAre DEF DnsStop, SocketInv, Live, ReadsItsOwn
<1>2. socket'[sockindex["udp"]] = socket[sockindex["udp"]]
  BY <1>1, SocketInvGood, SocketTypes, UsersAre, ShutIs DEF DnsStop
<1>3. /\ sockindex'["udp"] = sockindex["udp"]
      /\ remaining'["udp"] = remaining["udp"] /\ sender'["udp"] = sender["udp"]
  BY SocketTypes, UsersAre DEF DnsStop
<1>4. \A u \in Users : Live(u)' => u = "udp"
  BY <1>1, UsersAre DEF Live
<1> QED BY <1>1, <1>2, <1>3, <1>4, TurnoverMaps

(* DHCP that failed, a reset of the chip and one of the board leave no     *)
(* object with a socket.                                                   *)
LEMMA NobodyMaps ==
  ASSUME SocketInv, SocketInv', DhcpFailed \/ ChipReset \/ BoardRestart
  PROVE  Queue!Turnover
<1>1. in_use' = "nobody" /\ read_bytes' = <<>>
  BY DEF DhcpFailed, ChipReset, BoardRestart
<1>2. \A u \in Users : ~Live(u)'
  BY <1>1, UsersAre DEF Live
<1> QED BY <1>1, <1>2, TurnoverMaps

LEMMA QueueInitMaps == SocketInit => Queue!QueueInit
BY UsersAre DEF SocketInit, Queue!QueueInit, Live

LEMMA QueueStep ==
  SocketInv /\ SocketInv' /\ [SocketNext]_socketVars => [Queue!QueueNext]_(Queue!queueVars)
<1> SUFFICES ASSUME SocketInv, SocketInv', [SocketNext]_socketVars
             PROVE  [Queue!QueueNext]_(Queue!queueVars)
  OBVIOUS
<1>1. CASE UNCHANGED socketVars
  BY <1>1 DEF socketVars, Queue!queueVars, Live, Behind
<1>2. CASE \E s \in Sockets : DatagramArrives(s)
  BY <1>2, ArrivesMaps
<1>3. CASE \E u \in Users : ParsePacket(u) \/ \E n \in 1..ReadMax : ReadInto(u, n)
  BY <1>3, ParseMaps, ReadMaps DEF Queue!QueueNext
<1>4. CASE DhcpOpen \/ DhcpFailed \/ UdpOpen \/ DnsOpen \/ DnsStop \/ ChipReset \/ BoardRestart
  <2>1. Queue!Turnover
    BY <1>4, DhcpOpenMaps, UdpOpenMaps, DnsOpenMaps, DnsStopMaps, NobodyMaps
  <2> QED BY <2>1 DEF Queue!QueueNext
<1> QED BY <1>1, <1>2, <1>3, <1>4 DEF SocketNext

(* The driver implements the queues of datagrams: every object reads those *)
(* sent to it whole and in order, for every size of the ring, of headers,  *)
(* of datagrams and of reads, wherever the driver stops telling the chip,  *)
(* and wherever the pointers wrap.                                         *)
THEOREM ReadsDatagramsHolds == SocketSpec => ReadsDatagrams
<1>1. SocketInv /\ SocketInv' /\ [SocketNext]_socketVars
        => [Queue!QueueNext]_(Queue!queueVars)
  BY QueueStep
<1> QED BY <1>1, QueueInitMaps, SocketInvHolds, PTL
        DEF SocketSpec, ReadsDatagrams, Queue!QueueSpec
=============================================================================
