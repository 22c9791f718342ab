---------------------------- MODULE NetRecv_proofs ----------------------------
(***************************************************************************)
(* The receive buffer never overruns, each buffer has one owner, and the   *)
(* handlers read what was sent, whatever the sizes of the buffers and of   *)
(* the longest packet, the stream and the way it is cut.                   *)
(*                                                                         *)
(* The first: between two receives less than one longest packet is left    *)
(* unread, and it begins at or before the middle.  The second part is what *)
(* the copy before the middle is for; the first is what the limit on sizes *)
(* is for, and it needs that the size in a header is the size of a message *)
(* that was sent, so the invariant follows the bytes from wire to buffer.  *)
(*                                                                         *)
(* The others: a set points to the session's buffer only while it is       *)
(* filled, and then its packets end where the unread part begins; so what  *)
(* is in memory are messages in their order, those of the sets, the unread *)
(* ones and those on their way; each message that left the stream is read, *)
(* dropped or in a set, and in one of them only.                           *)
(***************************************************************************)
EXTENDS NetRecv, FiniteSetTheorems, TLAPS

Byte == [msg : Nat, at : Nat, plain : BOOLEAN]

PacketSets == [packets : Seq([msg : Nat, from : Int, size : Int]),
               originalPacket : Buffers \cup {NoBuffer}]

\* Of the variables the argument is about.
TypeOK ==
  /\ sent \in Seq(Messages) /\ wire \in Seq(Byte)
  /\ data \in [Buffers -> [Positions -> Byte]]
  /\ recvPacket \in Buffers \cup {NoBuffer}
  /\ readPos \in Int /\ prevReadPos \in Int /\ writePos \in Int
  /\ pc \in {"none", "post", "posted", "register", "copy", "handover", "closed",
             "rejected"}
  /\ filling \in PacketSets

Longest == eNET_HEADER_SIZE + eNET_PROTOCOL_MSG_MAX_LEN

\* Between two receives.
AtRest ==
  pc \in {"post", "posted", "handover"} =>
    /\ recvPacket \in Buffers
    /\ 0 <= readPos /\ readPos <= start /\ start <= writePos
    /\ writePos - readPos < Longest

\* Inside a completion.
AtWork ==
  pc \in {"register", "copy"} =>
    /\ recvPacket \in Buffers
    /\ 0 <= prevReadPos /\ prevReadPos <= start
    /\ prevReadPos <= readPos /\ readPos <= writePos
    /\ start <= writePos /\ writePos < end
    /\ filling.packets = <<>> => readPos = prevReadPos
    /\ pc = "copy" => writePos - readPos < Longest

\* What is unread in the buffer, and what is on its way, was sent.
UnreadWasSent ==
  /\ \A k \in DOMAIN wire : wire[k].msg <= Len(sent)
  /\ pc \in {"post", "posted", "handover", "register", "copy"} =>
       \A p \in readPos .. writePos - 1 : data[recvPacket][p].msg <= Len(sent)

NoOverrun == crashed \in {"", "PacketSet Enq Failed : Already Max Size"}

IInv == TypeOK /\ AtRest /\ AtWork /\ UnreadWasSent /\ NoOverrun

USE RecvAssumption DEF streamVars, posVars, readVars, endVars

\* The numbers of the buffer: a longest packet fits in either half.
LEMMA PositionsRange == /\ start \in Nat /\ end \in Nat /\ Longest \in Nat
                        /\ start + Longest + 1 < 2 * start
                        /\ Positions = 0 .. end /\ end = 2 * start - 1
  BY DEF start, end, Longest, Positions

-----------------------------------------------------------------------------
\* The size in a header that was found right is the size of a sent message.
LEMMA HeaderIsSent ==
  ASSUME IInv, pc = "register", ~isSmallerThanHeaderSize, CodeIsRight
  PROVE  HeaderAt \in DOMAIN sent /\ packetSize \in Nat
<1>1. readPos \in readPos .. writePos - 1 /\ readPos \in Positions
  BY PositionsRange DEF isSmallerThanHeaderSize, GetUsedSize, IInv, TypeOK, AtWork
<1>2. data[recvPacket][readPos] \in Byte /\ data[recvPacket][readPos].msg <= Len(sent)
  BY <1>1 DEF IInv, TypeOK, UnreadWasSent, AtWork
<1>3. HeaderAt \in {0, data[recvPacket][readPos].msg} /\ HeaderAt # 0
  BY DEF HeaderAt, ByteAt, CodeIsRight
<1>4. HeaderAt \in 1 .. Len(sent)
  BY <1>2, <1>3 DEF Byte, IInv, TypeOK
<1>5. sent[HeaderAt] \in Messages
  BY <1>4 DEF IInv, TypeOK
<1>. QED  BY <1>4, <1>5 DEF Messages, packetSize, IInv, TypeOK

\* Memory that is overwritten keeps its type and holds nothing that was not sent.
LEMMA OverwrittenType ==
  ASSUME TypeOK, NEW bs
  PROVE  /\ Overwritten(bs) \in [Buffers -> [Positions -> Byte]]
         /\ \A b \in Buffers, p \in Positions :
              Overwritten(bs)[b][p].msg \in {0, data[b][p].msg}
  BY DEF TypeOK, Overwritten, Garbage, Byte

-----------------------------------------------------------------------------
\* No process overruns a buffer at the start.
LEMMA InitInv == Init => IInv
<1>. SUFFICES ASSUME Init PROVE IInv
  OBVIOUS
<1>0. readPos = start /\ prevReadPos = start /\ writePos = start
  BY Zenon DEF Init
<1>1. Garbage \in Byte
  BY DEF Garbage, Byte
<1>2. filling \in PacketSets
  <2>1. <<>> \in Seq([msg : Nat, from : Int, size : Int])
    OBVIOUS
  <2>. QED  BY <2>1 DEF Init, EmptySet, PacketSets
<1>3. TypeOK
  <2>1. sent \in Seq(Messages) /\ wire \in Seq(Byte)
    <3>1. sent = <<>> /\ wire = <<>>
      BY Zenon DEF Init
    <3>2. <<>> \in Seq(Messages) /\ <<>> \in Seq(Byte)
      OBVIOUS
    <3>. QED  BY <3>1, <3>2, Zenon
  <2>2. data \in [Buffers -> [Positions -> Byte]]
    BY <1>1 DEF Init
  <2>3. readPos \in Int /\ prevReadPos \in Int /\ writePos \in Int
    BY <1>0, PositionsRange
  <2>. QED  BY <1>2, <2>1, <2>2, <2>3 DEF Init, TypeOK
<1>4. pc = "none" /\ crashed = "" /\ DOMAIN wire = {}
  <2>1. DOMAIN <<>> = {}
    OBVIOUS
  <2>. QED  BY <2>1, Zenon DEF Init
<1>. QED
  BY <1>3, <1>4 DEF IInv, AtRest, AtWork, UnreadWasSent, NoOverrun

\* A step of the stream, or of the receive up to a completed one.
LEMMA ClientSendsInv ==
  ASSUME IInv, NEW m \in Messages, ClientSends(m)
  PROVE  IInv'
<1>1. sent' \in Seq(Messages) /\ Len(sent') = Len(sent) + 1 /\ Len(sent) \in Nat
  BY DEF ClientSends, IInv, TypeOK
<1>2. Encoded(Len(sent) + 1, m) \in Seq(Byte)
  <2>1. eNET_HEADER_SIZE + m.size \in Nat /\ Len(sent) + 1 \in Nat
    BY <1>1 DEF Messages
  <2>2. \A i \in 1 .. eNET_HEADER_SIZE + m.size :
          [msg |-> Len(sent) + 1, at |-> i, plain |-> FALSE] \in Byte
    BY <2>1 DEF Byte
  <2>. QED  BY <2>1, <2>2 DEF Encoded
<1>3. \A k \in DOMAIN Encoded(Len(sent) + 1, m) :
        Encoded(Len(sent) + 1, m)[k].msg = Len(sent) + 1
  BY DEF Encoded
<1>4. wire' \in Seq(Byte)
  BY <1>2 DEF ClientSends, IInv, TypeOK
<1>5. \A k \in DOMAIN wire' : wire'[k].msg <= Len(sent')
  <2> DEFINE e == Encoded(Len(sent) + 1, m)
  <2>1. wire' = wire \o e /\ wire \in Seq(Byte) /\ e \in Seq(Byte)
    BY <1>2 DEF ClientSends, IInv, TypeOK
  <2>2. SUFFICES ASSUME NEW k \in DOMAIN (wire \o e)
                 PROVE  (wire \o e)[k].msg <= Len(sent) + 1
    BY <2>1, <1>1
  <2>3. CASE k \in DOMAIN wire
    <3>1. (wire \o e)[k] = wire[k] /\ wire[k] \in Byte
      BY <2>1, <2>3
    <3>. QED  BY <3>1, <2>3, <1>1 DEF IInv, UnreadWasSent, Byte
  <2>4. CASE k \notin DOMAIN wire
    <3>1. (wire \o e)[k] = e[k - Len(wire)] /\ k - Len(wire) \in DOMAIN e
      BY <2>1, <2>2, <2>4
    <3>. QED  BY <3>1, <1>1, <1>3
  <2>. QED  BY <2>3, <2>4
<1>6. \A b \in Buffers, p \in Positions : data[b][p].msg \in Nat
  BY DEF IInv, TypeOK, Byte
<1>7. UnreadWasSent'
  <2>1. ASSUME pc \in {"post", "posted", "handover", "register", "copy"},
               NEW p \in readPos .. writePos - 1
        PROVE  data[recvPacket][p].msg <= Len(sent) + 1
    <3>1. recvPacket \in Buffers /\ p \in Positions
      BY <2>1, PositionsRange DEF IInv, TypeOK, AtRest, AtWork
    <3>. QED  BY <2>1, <3>1, <1>1, <1>6 DEF IInv, UnreadWasSent
  <2>. QED  BY <2>1, <1>1, <1>5 DEF UnreadWasSent, ClientSends
<1>. QED
  BY <1>1, <1>4, <1>7 DEF IInv, TypeOK, AtRest, AtWork, NoOverrun, ClientSends

\* A connection begins with nothing unread.
LEMMA InitializeInv ==
  ASSUME IInv, NEW b \in Buffers, Initialize(b)
  PROVE  IInv'
<1>1. readPos' .. writePos' - 1 = {}
  BY PositionsRange DEF Initialize
<1>2. sent' \in Seq(Messages) /\ wire' \in Seq(Byte) /\ DOMAIN wire' = {}
  BY DEF Initialize
<1>3. /\ data' = data /\ filling' = filling /\ recvPacket' = b /\ pc' = "post"
      /\ readPos' = start /\ prevReadPos' = start /\ writePos' = start
  BY DEF Initialize
<1>4. TypeOK' /\ AtRest' /\ AtWork'
  <2>1. TypeOK'
    BY <1>2, <1>3, PositionsRange DEF IInv, TypeOK
  <2>2. AtRest'
    BY <1>3, PositionsRange DEF AtRest, Longest
  <2>3. AtWork'
    BY <1>3 DEF AtWork
  <2>. QED  BY <2>1, <2>2, <2>3
<1>5. UnreadWasSent' /\ NoOverrun'
  BY <1>1, <1>2 DEF Initialize, IInv, UnreadWasSent, NoOverrun
<1>. QED
  BY <1>4, <1>5 DEF IInv

\* What a receive brings fits behind what is unread.
LEMMA CompleteRecvInv ==
  ASSUME IInv, NEW n \in 1 .. Room, CompleteRecv(n)
  PROVE  IInv'
<1>0. /\ writePos \in Int /\ readPos \in Int
      /\ n <= Len(wire) /\ n <= Room /\ Room \in Int
  <2>1. n <= Len(wire)
    BY Zenon DEF CompleteRecv
  <2>. QED  BY <2>1, PositionsRange DEF Room, IInv, TypeOK
<1>1. n \in Nat /\ n > 0 /\ writePos + n < end
  BY <1>0, PositionsRange DEF Room
<1>2. ~isFullWithWritePos(n)
  BY <1>1, PositionsRange DEF isFullWithWritePos, IInv, TypeOK
<1>3. /\ wire \in Seq(Byte) /\ n <= Len(wire) /\ recvPacket \in Buffers
      /\ pc = "posted" /\ pc' = "register" /\ writePos' = writePos + n
      /\ readPos' = readPos /\ prevReadPos' = readPos /\ recvPacket' = recvPacket
      /\ sent' = sent /\ wire' = SubSeq(wire, n + 1, Len(wire))
      /\ 0 <= readPos /\ readPos <= start /\ start <= writePos
  BY <1>2 DEF CompleteRecv, IInv, TypeOK, AtRest
<1>4. /\ wire' \in Seq(Byte)
      /\ \A k \in DOMAIN wire' : wire'[k] = wire[k + n] /\ k + n \in DOMAIN wire
  BY <1>1, <1>3
<1>5. data' \in [Buffers -> [Positions -> Byte]]
  <2>1. ASSUME NEW p \in writePos .. writePos + n - 1
        PROVE  wire[p - writePos + 1] \in Byte
    BY <1>1, <1>3 DEF IInv, TypeOK
  <2> DEFINE filled == [p \in Positions |->
                           IF p \in writePos .. writePos + n - 1
                           THEN wire[p - writePos + 1] ELSE data[recvPacket][p]]
  <2>2. data' = [data EXCEPT ![recvPacket] = filled]
    BY <1>2 DEF CompleteRecv
  <2>3. data[recvPacket] \in [Positions -> Byte]
    BY <1>3 DEF IInv, TypeOK
  <2>4. filled \in [Positions -> Byte]
    BY <2>1, <2>3
  <2>. HIDE DEF filled
  <2>. QED  BY <2>2, <2>4 DEF IInv, TypeOK
<1>6. \A p \in readPos' .. writePos' - 1 : data'[recvPacket'][p].msg <= Len(sent')
  <2>1. SUFFICES ASSUME NEW p \in readPos' .. writePos' - 1
                 PROVE  data'[recvPacket'][p].msg <= Len(sent')
    OBVIOUS
  <2>2. /\ p \in Positions /\ readPos \in Int /\ writePos \in Int
        /\ p \in readPos .. writePos + n - 1
    BY <1>1, <1>3, PositionsRange DEF IInv, TypeOK
  <2>3. CASE p \in writePos .. writePos + n - 1
    <3>1. data'[recvPacket][p] = wire[p - writePos + 1]
      BY <1>2, <1>3, <2>2, <2>3 DEF CompleteRecv, IInv, TypeOK
    <3>2. p - writePos + 1 \in DOMAIN wire
      BY <1>1, <1>3, <2>2, <2>3
    <3>. QED  BY <3>1, <3>2, <1>3 DEF IInv, UnreadWasSent
  <2>4. CASE p \in readPos .. writePos - 1
    <3>1. data'[recvPacket][p] = data[recvPacket][p]
      BY <1>2, <1>3, <2>2, <2>4 DEF CompleteRecv, IInv, TypeOK
    <3>. QED  BY <3>1, <2>4, <1>3 DEF IInv, UnreadWasSent
  <2>. QED  BY <2>2, <2>3, <2>4, <1>1
<1>7. filling' = [packets |-> <<>>, originalPacket |-> recvPacket] /\ crashed' = crashed
  BY <1>2 DEF CompleteRecv
<1>8. UnreadWasSent'
  BY <1>3, <1>4, <1>6 DEF IInv, UnreadWasSent
<1>9. TypeOK'
  BY <1>1, <1>3, <1>4, <1>5, <1>7 DEF IInv, TypeOK, PacketSets
<1>. QED
  <2>1. AtRest' /\ AtWork'
    BY <1>1, <1>3, <1>7, PositionsRange DEF IInv, TypeOK, AtRest, AtWork
  <2>. QED  BY <1>7, <1>8, <1>9, <2>1 DEF IInv, NoOverrun

-----------------------------------------------------------------------------
\* A packet that is registered leaves the unread part, and its bytes keep their
\* message.
LEMMA RegisterPacketInv ==
  ASSUME IInv, RegisterPacket
  PROVE  IInv'
<1>1. CASE Len(filling.packets) >= eNET_PACKET_SET_MAX_COUNT
  <2>1. /\ crashed' = "PacketSet Enq Failed : Already Max Size"
        /\ UNCHANGED <<streamVars, data, recvPacket, posVars, pc, filling>>
    BY <1>1 DEF RegisterPacket, Crash
  <2>. QED  BY <2>1 DEF IInv, TypeOK, AtRest, AtWork, UnreadWasSent, NoOverrun
<1>2. CASE ~(Len(filling.packets) >= eNET_PACKET_SET_MAX_COUNT)
  <2>1. packetSize \in Nat
    BY HeaderIsSent DEF RegisterPacket
  <2> DEFINE packet == [msg |-> HeaderAt, from |-> readPos + eNET_HEADER_SIZE,
                        size |-> packetSize]
  <2>2. /\ readPos \in Int /\ writePos \in Int /\ prevReadPos \in Int
        /\ recvPacket \in Buffers /\ filling \in PacketSets
        /\ filling.packets \in Seq([msg : Nat, from : Int, size : Int])
    BY DEF RegisterPacket, IInv, TypeOK, AtWork, PacketSets
  <2>3. /\ pc = "register" /\ pc' = "register" /\ crashed' = crashed
        /\ readPos' = readPos + eNET_HEADER_SIZE + packetSize
        /\ readPos + eNET_HEADER_SIZE + packetSize <= writePos
        /\ UNCHANGED <<prevReadPos, writePos, recvPacket, sent, wire>>
    <3>1. /\ pc = "register" /\ crashed' = crashed /\ ~IsPart
          /\ UNCHANGED <<prevReadPos, writePos, recvPacket, sent, wire, pc>>
          /\ readPos' = readPos + eNET_HEADER_SIZE + packetSize
      BY <1>2 DEF RegisterPacket
    <3>2. ~(writePos - readPos - eNET_HEADER_SIZE < packetSize)
      BY <3>1 DEF IsPart, GetUsedSize
    <3>. QED  BY <3>1, <3>2, <2>1, <2>2
  <2>4. filling' = [filling EXCEPT !.packets = Append(filling.packets, packet)]
    BY <1>2, Zenon DEF RegisterPacket
  <2>5. packet \in [msg : Nat, from : Int, size : Int]
    <3>1. HeaderAt \in Nat
      <4>1. HeaderAt \in DOMAIN sent
        BY HeaderIsSent, Zenon DEF RegisterPacket
      <4>. QED  BY <4>1 DEF IInv, TypeOK
    <3>. HIDE DEF HeaderAt, packetSize
    <3>. QED  BY <2>1, <2>2, <3>1
  <2>6. filling' \in PacketSets /\ filling'.packets # <<>>
    <3>1. /\ Append(filling.packets, packet) \in Seq([msg : Nat, from : Int, size : Int])
          /\ Append(filling.packets, packet) # <<>>
      BY <2>2, <2>5
    <3>2. filling'.packets = Append(filling.packets, packet)
      BY <2>2, <2>4 DEF PacketSets
    <3>. QED  BY <2>2, <2>4, <3>1, <3>2 DEF PacketSets
  <2>7. /\ data' \in [Buffers -> [Positions -> Byte]]
        /\ \A p \in Positions : data'[recvPacket][p].msg = data[recvPacket][p].msg
    <3> DEFINE decoded == [p \in Positions |->
            IF p - readPos + 1 \in eNET_HEADER_SIZE .. eNET_HEADER_SIZE + packetSize
            THEN [data[recvPacket][p] EXCEPT !.plain = TRUE] ELSE data[recvPacket][p]]
    <3>1. data' = [data EXCEPT ![recvPacket] = decoded]
      BY <1>2 DEF RegisterPacket, Decoded
    <3>2. \A p \in Positions : data[recvPacket][p] \in Byte
      BY <2>2 DEF IInv, TypeOK
    <3>3. \A p \in Positions : /\ decoded[p] \in Byte
                               /\ decoded[p].msg = data[recvPacket][p].msg
      BY <3>2 DEF Byte
    <3>4. decoded \in [Positions -> Byte]
      BY <3>3
    <3>5. data \in [Buffers -> [Positions -> Byte]]
      BY DEF IInv, TypeOK
    <3>. HIDE DEF decoded
    <3>. QED  BY <2>2, <3>1, <3>3, <3>4, <3>5
  <2>8. UnreadWasSent'
    <3>1. ASSUME NEW p \in readPos' .. writePos' - 1
          PROVE  data'[recvPacket][p].msg <= Len(sent)
      <4>1. p \in readPos .. writePos - 1 /\ p \in Positions
        BY <2>1, <2>2, <2>3, PositionsRange DEF IInv, AtWork
      <4>. QED  BY <4>1, <2>3, <2>7 DEF IInv, UnreadWasSent
    <3>2. \A k \in DOMAIN wire' : wire'[k].msg <= Len(sent')
      BY <2>3 DEF IInv, UnreadWasSent
    <3>. QED  BY <2>3, <3>1, <3>2 DEF UnreadWasSent
  <2>9. TypeOK'
    <3>1. readPos' \in Int
      BY <2>1, <2>2, <2>3
    <3>. QED  BY <3>1, <2>3, <2>6, <2>7 DEF IInv, TypeOK
  <2>10. AtWork' /\ AtRest'
    BY <2>1, <2>2, <2>3, <2>6 DEF IInv, AtWork, AtRest
  <2>. QED  BY <2>3, <2>8, <2>9, <2>10 DEF IInv, NoOverrun
<1>. QED  BY <1>1, <1>2

\* The loop ends with less than one longest packet unread.
LEMMA StopRegisteringInv ==
  ASSUME IInv, StopRegistering
  PROVE  IInv'
<1>1. writePos - readPos < Longest
  <2>1. CASE isSmallerThanHeaderSize
    BY <2>1 DEF isSmallerThanHeaderSize, GetUsedSize, Longest, IInv, TypeOK
  <2>2. CASE ~isSmallerThanHeaderSize
    <3>1. packetSize \in Nat
      BY <2>2, HeaderIsSent DEF StopRegistering
    <3>2. packetSize <= eNET_PROTOCOL_MSG_MAX_LEN
      BY <2>2, <3>1 DEF StopRegistering, SizeIsTooLarge
    <3>3. writePos - readPos - eNET_HEADER_SIZE < packetSize
      BY <2>2 DEF StopRegistering, IsPart, GetUsedSize
    <3>. QED  BY <3>1, <3>2, <3>3 DEF Longest, IInv, TypeOK
  <2>. QED  BY <2>1, <2>2
<1>2. /\ pc = "register" /\ pc' = "copy"
      /\ UNCHANGED <<sent, wire, data, recvPacket, readPos, prevReadPos,
                     writePos, filling, crashed>>
  BY DEF StopRegistering
<1>. QED
  BY <1>1, <1>2 DEF IInv, TypeOK, AtRest, AtWork, UnreadWasSent, NoOverrun

-----------------------------------------------------------------------------
\* A buffer without a packet keeps what is unread.
LEMMA KeepPacketInv ==
  ASSUME IInv, KeepPacket
  PROVE  IInv'
<1>1. /\ pc = "copy" /\ pc' = "post" /\ readPos' = prevReadPos /\ readPos = prevReadPos
      /\ UNCHANGED <<sent, wire, data, recvPacket, prevReadPos, writePos, crashed>>
      /\ filling' = EmptySet
  BY DEF KeepPacket, IInv, AtWork
<1>2. EmptySet \in PacketSets
  <2>1. <<>> \in Seq([msg : Nat, from : Int, size : Int])
    OBVIOUS
  <2>. QED  BY <2>1 DEF EmptySet, PacketSets
<1>. QED
  BY <1>1, <1>2 DEF IInv, TypeOK, AtRest, AtWork, UnreadWasSent, NoOverrun

\* What is left fits before the middle, and is what was left.
LEMMA CopyRemainderInv ==
  ASSUME IInv, NEW b \in Buffers, CopyRemainder(b)
  PROVE  IInv'
<1> DEFINE used == writePos - readPos
<1>1. /\ readPos \in Int /\ writePos \in Int /\ recvPacket \in Buffers
      /\ 0 <= readPos /\ readPos <= writePos /\ writePos < end
      /\ used < Longest /\ used \in Nat
      /\ pc = "copy"
  <2>1. pc = "copy"
    BY Zenon DEF CopyRemainder
  <2>. QED  BY <2>1, PositionsRange DEF IInv, TypeOK, AtWork
<1>2. ~(GetUsedSize > eBUFFER_CENTER) /\ GetUsedSize = used
  BY <1>1 DEF GetUsedSize, Longest
<1>3. /\ pc' = "handover" /\ crashed' = crashed
      /\ recvPacket' = b
      /\ readPos' = start - used /\ prevReadPos' = start /\ writePos' = start
      /\ UNCHANGED <<sent, wire, filling>>
  BY <1>2 DEF CopyRemainder
<1> DEFINE copied == [p \in Positions |->
                        IF p \in start - used .. start - 1
                        THEN data[recvPacket][readPos + (p - (start - used))]
                        ELSE data[b][p]]
<1>4. data' = [data EXCEPT ![b] = copied]
  BY <1>2 DEF CopyRemainder, ByteAt
<1>5. \A p \in start - used .. start - 1 :
        /\ readPos + (p - (start - used)) \in readPos .. writePos - 1
        /\ readPos + (p - (start - used)) \in Positions
        /\ p \in Positions
  BY <1>1, PositionsRange DEF Longest
<1>6. data \in [Buffers -> [Positions -> Byte]]
  BY DEF IInv, TypeOK
<1>7. \A p \in start - used .. start - 1 : copied[p].msg <= Len(sent)
  <2>1. ASSUME NEW p \in start - used .. start - 1
        PROVE  copied[p] = data[recvPacket][readPos + (p - (start - used))]
    BY <1>5
  <2>. HIDE DEF copied
  <2>. QED  BY <1>1, <1>5, <2>1 DEF IInv, UnreadWasSent
<1>8. copied \in [Positions -> Byte]
  BY <1>1, <1>5, <1>6
<1>. HIDE DEF copied
<1>9. data' \in [Buffers -> [Positions -> Byte]] /\ data'[b] = copied
  BY <1>4, <1>6, <1>8
<1>10. UnreadWasSent'
  <2>1. \A p \in readPos' .. writePos' - 1 : data'[recvPacket'][p].msg <= Len(sent')
    BY <1>3, <1>7, <1>9
  <2>2. \A k \in DOMAIN wire' : wire'[k].msg <= Len(sent')
    BY <1>3 DEF IInv, UnreadWasSent
  <2>. QED  BY <2>1, <2>2 DEF UnreadWasSent
<1>11. TypeOK'
  <2>1. readPos' \in Int /\ prevReadPos' \in Int /\ writePos' \in Int
    BY <1>1, <1>3, PositionsRange
  <2>. QED  BY <1>3, <1>9, <2>1 DEF IInv, TypeOK
<1>12. AtRest' /\ AtWork'
  BY <1>1, <1>3, PositionsRange DEF AtRest, AtWork, Longest
<1>. QED  BY <1>3, <1>10, <1>11, <1>12 DEF IInv, NoOverrun

-----------------------------------------------------------------------------
\* Steps that leave the receive, its buffer's positions and the wire alone, and
\* at most free buffers.
LEMMA FreeingInv ==
  ASSUME IInv, NEW bs,
         data' \in {data, Overwritten(bs)},
         UNCHANGED <<sent, wire, recvPacket, readPos, prevReadPos, writePos, pc, filling,
                     crashed>>
  PROVE  IInv'
<1>1. /\ data' \in [Buffers -> [Positions -> Byte]]
      /\ \A b \in Buffers, p \in Positions : data'[b][p].msg \in {0, data[b][p].msg}
  BY OverwrittenType DEF IInv, TypeOK
<1>2. ASSUME pc \in {"post", "posted", "handover", "register", "copy"},
             NEW p \in readPos .. writePos - 1
      PROVE  data'[recvPacket][p].msg <= Len(sent)
  <2>1. recvPacket \in Buffers /\ p \in Positions
    BY <1>2, PositionsRange DEF IInv, TypeOK, AtRest, AtWork
  <2>2. Len(sent) \in Nat /\ data[recvPacket][p].msg <= Len(sent)
    BY <1>2 DEF IInv, TypeOK, UnreadWasSent
  <2>. QED  BY <1>1, <2>1, <2>2
<1>3. UnreadWasSent'
  BY <1>2 DEF IInv, UnreadWasSent
<1>. QED
  BY <1>1, <1>3 DEF IInv, TypeOK, AtRest, AtWork, NoOverrun

\* Steps of the receive that change no position.
LEMMA ReceiveInv ==
  ASSUME IInv, RecvPost \/ EndReceive \/ RejectStream \/ HandOver
  PROVE  IInv'
<1>1. EmptySet \in PacketSets
  <2>1. <<>> \in Seq([msg : Nat, from : Int, size : Int])
    OBVIOUS
  <2>. QED  BY <2>1 DEF EmptySet, PacketSets
<1>2. /\ UNCHANGED <<sent, wire, data, recvPacket, readPos, prevReadPos, writePos,
                     crashed>>
      /\ filling' \in {filling, EmptySet}
      /\ \/ pc = "post" /\ pc' = "posted"
         \/ pc = "posted" /\ pc' = "closed"
         \/ pc = "register" /\ pc' = "rejected"
         \/ pc = "handover" /\ pc' = "post"
  BY DEF RecvPost, EndReceive, RejectStream, HandOver
<1>. QED
  BY <1>1, <1>2 DEF IInv, TypeOK, AtRest, AtWork, UnreadWasSent, NoOverrun

\* The handler changes no position of the session's buffer.
LEMMA HandleInv ==
  ASSUME IInv, Handle
  PROVE  IInv'
<1>1. CASE TakeSet \/ HandlePacket
  <2>1. UNCHANGED <<sent, wire, recvPacket, readPos, prevReadPos, writePos, pc, filling,
                    crashed, data>>
    BY <1>1 DEF TakeSet, HandlePacket
  <2>. QED  BY <2>1 DEF IInv, TypeOK, AtRest, AtWork, UnreadWasSent, NoOverrun
<1>2. CASE FreeSet \/ HandlerFails
  <2>1. /\ data' = Overwritten({s.originalPacket : s \in {handling[1]}} \ {NoBuffer})
        /\ UNCHANGED <<sent, wire, recvPacket, readPos, prevReadPos, writePos, pc, filling,
                       crashed>>
    BY <1>2, Zenon DEF FreeSet, HandlerFails, FreeSets, FreeBuffers
  <2>. QED  BY <2>1, FreeingInv
<1>4. CASE ClearJobQ
  <2> DEFINE ss == {queue[k] : k \in DOMAIN queue}
  <2>1. /\ data' = Overwritten({s.originalPacket : s \in ss} \ {NoBuffer})
        /\ UNCHANGED <<sent, wire, recvPacket, readPos, prevReadPos, writePos, pc, filling,
                       crashed>>
    BY <1>4, Zenon DEF ClearJobQ, FreeSets, FreeBuffers
  <2>. QED  BY <2>1, FreeingInv
<1>3. CASE Destroy
  <2> DEFINE bs == {recvPacket} \cup {queue[k].originalPacket : k \in DOMAIN queue}
  <2>1. /\ data' = Overwritten(bs)
        /\ recvPacket' = NoBuffer /\ pc' = "none"
        /\ UNCHANGED <<sent, wire, readPos, prevReadPos, writePos, filling, crashed>>
    BY <1>3, Zenon DEF Destroy, FreeBuffers
  <2>2. Overwritten(bs) \in [Buffers -> [Positions -> Byte]]
    BY OverwrittenType DEF IInv
  <2>. QED
    BY <2>1, <2>2 DEF IInv, TypeOK, AtRest, AtWork, UnreadWasSent, NoOverrun
<1>. QED  BY <1>1, <1>2, <1>3, <1>4 DEF Handle

\* One step for each action of Next.
LEMMA NextInv == IInv /\ [Next]_vars => IInv'
<1>. SUFFICES ASSUME IInv, [Next]_vars PROVE IInv'
  OBVIOUS
<1>1. ASSUME NEW b \in Buffers, Initialize(b) PROVE IInv'
  BY <1>1, InitializeInv
<1>2. ASSUME NEW b \in Buffers, CopyRemainder(b) PROVE IInv'
  BY <1>2, CopyRemainderInv
<1>3. ASSUME NEW n \in 1 .. Room, CompleteRecv(n) PROVE IInv'
  BY <1>3, CompleteRecvInv
<1>4. CASE RegisterPacket
  BY <1>4, RegisterPacketInv
<1>5. CASE StopRegistering
  BY <1>5, StopRegisteringInv
<1>6. CASE KeepPacket
  BY <1>6, KeepPacketInv
<1>7. CASE RecvPost \/ EndReceive \/ RejectStream \/ HandOver
  BY <1>7, ReceiveInv
<1>8. CASE Handle
  BY <1>8, HandleInv
<1>9. ASSUME NEW m \in Messages, ClientSends(m) PROVE IInv'
  BY <1>9, ClientSendsInv
<1>10. CASE UNCHANGED vars
  BY <1>10 DEF vars, IInv, TypeOK, AtRest, AtWork, UnreadWasSent, NoOverrun
<1>. QED
  BY <1>1, <1>2, <1>3, <1>4, <1>5, <1>6, <1>7, <1>8, <1>9, <1>10, Zenon DEF Next, Receive

\* With less than a longest packet unread there is room behind it.
LEMMA InvImplies == IInv => NeverOverruns
<1>. SUFFICES ASSUME IInv PROVE NeverOverruns
  OBVIOUS
<1>1. ASSUME pc = "posted" PROVE Room > 0
  <2>1. readPos <= start /\ writePos - readPos < Longest
    BY <1>1 DEF IInv, AtRest
  <2>2. readPos \in Int /\ writePos \in Int
    BY DEF IInv, TypeOK
  <2>. QED  BY <2>1, <2>2, PositionsRange DEF Room
<1>2. crashed \notin {"OnRecvComplete - Recv Packet Full",
                      "CopyRemainterToNew - Not Enough Buffer Space"}
  BY DEF IInv, NoOverrun
<1>. QED  BY <1>1, <1>2 DEF NeverOverruns

\* Between two receives less than one longest packet is unread, it begins no later
\* than the middle, and every byte of it was sent.
THEOREM UnreadIsShort == Spec => []IInv
<1>. QED  BY InitInv, NextInv, PTL DEF Spec

\* RecvPost never posts a receive without room, MoveWritePos never refuses what
\* came, and CopyRemainderToNewPacket always finds its space: for any sizes of
\* header, message and buffer with header + message + 1 < half a buffer.
THEOREM NeverOverrunsHolds == Spec => []NeverOverruns
<1>. QED  BY UnreadIsShort, InvImplies, PTL

-----------------------------------------------------------------------------
(***************************************************************************)
(* Who has a buffer, and what is in it.                                    *)
(***************************************************************************)
Sets == /\ queue \in Seq(PacketSets)
        /\ handling = <<>> \/ \E s \in PacketSets : handling = <<s>>

\* A buffer is free, the session's, or a set's; a set that is filled points to
\* the session's, and to one of its own when it is to be handed over.
Owned ==
  /\ pool \subseteq Buffers /\ recvPacket \notin pool
  /\ recvPacket = NoBuffer <=> pc = "none"
  /\ pc = "none" => queue = <<>> /\ handling = <<>>
  /\ \A j \in DOMAIN queue :
       /\ queue[j].originalPacket \in Buffers \ pool
       /\ queue[j].originalPacket # recvPacket
       /\ \A k \in DOMAIN queue :
            queue[j].originalPacket = queue[k].originalPacket => j = k
  /\ handling # <<>> =>
       /\ handling[1].originalPacket \in Buffers \ pool
       /\ handling[1].originalPacket # recvPacket
       /\ \A k \in DOMAIN queue : queue[k].originalPacket # handling[1].originalPacket

FillingOwned ==
  /\ pc \notin {"register", "copy", "handover"} => filling = EmptySet
  /\ pc \in {"register", "copy"} => filling.originalPacket = recvPacket
  /\ pc = "handover" =>
       /\ filling.originalPacket \in Buffers \ pool
       /\ filling.originalPacket # recvPacket
       /\ \A k \in DOMAIN queue : queue[k].originalPacket # filling.originalPacket
       /\ handling # <<>> => handling[1].originalPacket # filling.originalPacket

NoneLost ==
  \A b \in Buffers \ pool :
    \/ b = recvPacket
    \/ pc = "handover" /\ b = filling.originalPacket
    \/ handling # <<>> /\ b = handling[1].originalPacket
    \/ \E k \in DOMAIN queue : b = queue[k].originalPacket

\* With memory d and messages S, what packet p of buffer b reads is the payload of
\* the message whose header it has.
Reads(d, S, b, p) ==
  /\ p.msg \in DOMAIN S /\ p.size = S[p.msg].size
  /\ 0 <= p.from /\ p.from + p.size <= end
  /\ \A i \in 1 .. p.size :
       d[b][p.from + i - 1] = [msg |-> p.msg, at |-> eNET_HEADER_SIZE + i, plain |-> TRUE]

Sound(d, S, s) == \A j \in DOMAIN s.packets : Reads(d, S, s.originalPacket, s.packets[j])

AllSound ==
  /\ \A k \in DOMAIN queue : Sound(data, sent, queue[k])
  /\ handling # <<>> => Sound(data, sent, handling[1])
  /\ Sound(data, sent, filling)

\* The messages of a set rise, behind those that were read and before the m-th, and
\* none of them was dropped.
Fresh(s, m) ==
  \A j \in DOMAIN s.packets :
    /\ s.packets[j].msg \notin dropped /\ s.packets[j].msg < m
    /\ \A k \in DOMAIN handled : handled[k].msg < s.packets[j].msg
    /\ \A i \in DOMAIN s.packets : i < j => s.packets[i].msg < s.packets[j].msg

Before(s, t) ==
  \A i \in DOMAIN s.packets, j \in DOMAIN t.packets : s.packets[i].msg < t.packets[j].msg

\* What is read, in hand, handed over and filled are messages one after another, and
\* the next one to be registered is the m-th.
InOrder(m) ==
  /\ \A k \in DOMAIN handled : handled[k].msg \notin dropped /\ handled[k].msg < m
  /\ \A n \in dropped : n < m
  /\ \A k \in DOMAIN queue :
       /\ Fresh(queue[k], m) /\ Before(queue[k], filling)
       /\ \A j \in DOMAIN queue : j < k => Before(queue[j], queue[k])
  /\ handling # <<>> =>
       /\ Fresh(handling[1], m) /\ Before(handling[1], filling)
       /\ \A k \in DOMAIN queue : Before(handling[1], queue[k])
  /\ Fresh(filling, m)

Has(s, n) == \E j \in DOMAIN s.packets : s.packets[j].msg = n

\* Where a message that was registered is.
Somewhere(n) ==
  \/ n \in dropped
  \/ \E k \in DOMAIN handled : handled[k].msg = n
  \/ handling # <<>> /\ Has(handling[1], n)
  \/ \E k \in DOMAIN queue : Has(queue[k], n)
  \/ Has(filling, n)

Lined(m) ==
  /\ InOrder(m)
  /\ pc \notin {"rejected", "none"} => \A n \in Nat \ {0} : n < m => Somewhere(n)

\* The packets of the set that is filled end where the unread part begins.
Filled ==
  pc \in {"register", "copy"} =>
    \A j \in DOMAIN filling.packets :
      filling.packets[j].from + filling.packets[j].size <= readPos

Active == {"post", "posted", "register", "copy", "handover"}

\* The unread bytes of the buffer and those on their way are one stream.
Unread == writePos - readPos

StreamAt(i) == IF i < Unread THEN data[recvPacket][readPos + i] ELSE wire[i - Unread + 1]

\* That stream is the messages from the m-th on, the k-th at off[k].
Laid(off, m) ==
  /\ \A k \in Nat : off[k] \in Nat
  /\ m \in 1 .. Len(sent) + 1
  /\ off[m] = 0 /\ off[Len(sent) + 1] = Unread + Len(wire)
  /\ \A k \in m .. Len(sent) : off[k + 1] = off[k] + eNET_HEADER_SIZE + sent[k].size
  /\ \A j, k \in m .. Len(sent) + 1 : j <= k => off[j] <= off[k]
  /\ \A k \in m .. Len(sent) : \A i \in 1 .. eNET_HEADER_SIZE + sent[k].size :
       StreamAt(off[k] + i - 1) = [msg |-> k, at |-> i, plain |-> FALSE]

\* But for the time packets are registered the next message is not whole.
NotWhole(m) ==
  pc \in {"post", "posted", "copy", "handover"} /\ m <= Len(sent) =>
    Unread < eNET_HEADER_SIZE + sent[m].size

Stream ==
  \E m \in Nat : /\ Lined(m) /\ NotWhole(m)
                 /\ pc \in Active => \E off : Laid(off, m)

AsSent ==
  /\ handled \in Seq([msg : Nat, bytes : Seq(Byte)]) /\ dropped \subseteq Nat
  /\ \A k \in DOMAIN handled :
       /\ handled[k].msg \in DOMAIN sent
       /\ handled[k].bytes = Payload(handled[k].msg)
       /\ \A j \in DOMAIN handled : j < k => handled[j].msg < handled[k].msg
  /\ pc = "rejected" => \E k \in DOMAIN sent : ~WellFormed(sent[k])

OInv == Sets /\ Owned /\ FillingOwned /\ NoneLost

RInv == Filled /\ AsSent /\ AllSound /\ Stream

-----------------------------------------------------------------------------
\* What the type of a set says, taken apart.
LEMMA SetParts ==
  ASSUME NEW s \in PacketSets
  PROVE  /\ s.originalPacket \in Buffers \cup {NoBuffer}
         /\ s.packets \in Seq([msg : Nat, from : Int, size : Int])
  BY DEF PacketSets

\* At the start every buffer is free.
LEMMA OwnInit == Init => OInv
<1>. SUFFICES ASSUME Init PROVE OInv
  OBVIOUS
<1>1. /\ queue = <<>> /\ handling = <<>> /\ filling = EmptySet
      /\ pc = "none" /\ pool = Buffers /\ recvPacket = NoBuffer
  BY Zenon DEF Init
<1>2. queue \in Seq(PacketSets) /\ DOMAIN queue = {}
  BY <1>1
<1>. QED  BY <1>1, <1>2 DEF OInv, Sets, Owned, FillingOwned, NoneLost

\* Steps that change neither a set nor a buffer's owner.
LEMMA OwnStutter ==
  ASSUME IInv, OInv, UNCHANGED <<queue, handling, pool, recvPacket, filling>>,
         \/ pc' = pc
         \/ pc = "post" /\ pc' = "posted"
         \/ pc = "posted" /\ pc' = "closed"
         \/ pc = "register" /\ pc' = "copy"
  PROVE  OInv'
  BY DEF OInv, Sets, Owned, FillingOwned, NoneLost

\* The session takes a free buffer.
LEMMA OwnInitialize ==
  ASSUME IInv, OInv, NEW b \in Buffers, Initialize(b)
  PROVE  OInv'
<1>1. /\ pc = "none" /\ b \in pool /\ pool' = pool \ {b} /\ recvPacket' = b
      /\ pc' = "post" /\ UNCHANGED <<filling, queue, handling>>
  BY DEF Initialize
<1>. QED  BY <1>1 DEF OInv, Sets, Owned, FillingOwned, NoneLost

\* The set that is made points to the session's buffer.
LEMMA OwnCompleteRecv ==
  ASSUME IInv, OInv, NEW n \in 1 .. Room, CompleteRecv(n)
  PROVE  OInv'
<1>1. CASE isFullWithWritePos(n)
  BY <1>1, OwnStutter DEF CompleteRecv, Crash
<1>2. CASE ~isFullWithWritePos(n)
  <2>1. /\ filling' = [packets |-> <<>>, originalPacket |-> recvPacket]
        /\ pc = "posted" /\ pc' = "register"
        /\ UNCHANGED <<queue, handling, pool, recvPacket>>
    BY <1>2 DEF CompleteRecv
  <2>. QED  BY <2>1 DEF OInv, Sets, Owned, FillingOwned, NoneLost
<1>. QED  BY <1>1, <1>2

\* A packet that is registered leaves the set's buffer.
LEMMA OwnRegisterPacket ==
  ASSUME IInv, OInv, RegisterPacket
  PROVE  OInv'
<1>1. /\ filling'.originalPacket = filling.originalPacket /\ pc = "register" /\ pc' = pc
      /\ UNCHANGED <<queue, handling, pool, recvPacket>>
  <2>1. filling \in PacketSets
    BY DEF IInv, TypeOK
  <2>. QED  BY <2>1 DEF RegisterPacket, Crash, PacketSets
<1>. QED  BY <1>1 DEF OInv, Sets, Owned, FillingOwned, NoneLost

\* A set that is dropped is freed without the buffer, which is the session's.
LEMMA OwnDrop ==
  ASSUME IInv, OInv, RejectStream \/ KeepPacket
  PROVE  OInv'
<1>1. /\ pc \in {"register", "copy"} /\ pc' \in {"post", "rejected"}
      /\ filling' = EmptySet
      /\ UNCHANGED <<queue, handling, pool, recvPacket>>
  BY DEF RejectStream, KeepPacket
<1>. QED  BY <1>1 DEF OInv, Sets, Owned, FillingOwned, NoneLost

\* The session takes a fresh buffer and leaves the old one to the set.
LEMMA OwnCopyRemainder ==
  ASSUME IInv, OInv, NEW b \in Buffers, CopyRemainder(b)
  PROVE  OInv'
<1>1. CASE GetUsedSize > eBUFFER_CENTER
  BY <1>1, OwnStutter DEF CopyRemainder, Crash
<1>2. CASE ~(GetUsedSize > eBUFFER_CENTER)
  <2>1. /\ pc = "copy" /\ pc' = "handover" /\ b \in pool
        /\ pool' = pool \ {b} /\ recvPacket' = b
        /\ UNCHANGED <<queue, handling, filling>>
    BY <1>2 DEF CopyRemainder
  <2>2. recvPacket \in Buffers
    BY <2>1 DEF IInv, AtWork
  <2>. QED  BY <2>1, <2>2 DEF OInv, Sets, Owned, FillingOwned, NoneLost
<1>. QED  BY <1>1, <1>2

\* The set goes with its buffer to the queue.
LEMMA OwnHandOver ==
  ASSUME IInv, OInv, HandOver
  PROVE  OInv'
<1>1. /\ pc = "handover" /\ pc' = "post" /\ filling' = EmptySet
      /\ queue' = Append(queue, filling)
      /\ UNCHANGED <<handling, pool, recvPacket>>
  BY DEF HandOver
<1>2. /\ queue \in Seq(PacketSets) /\ filling \in PacketSets
      /\ queue' \in Seq(PacketSets)
      /\ Len(queue) \in Nat /\ DOMAIN queue' = 1 .. Len(queue) + 1
      /\ DOMAIN queue = 1 .. Len(queue)
      /\ queue'[Len(queue) + 1] = filling
      /\ \A k \in DOMAIN queue : queue'[k] = queue[k] /\ k \in DOMAIN queue'
      /\ \A k \in DOMAIN queue' : k \in DOMAIN queue \/ k = Len(queue) + 1
      /\ Len(queue) + 1 \in DOMAIN queue' \ DOMAIN queue
  BY <1>1 DEF OInv, Sets, IInv, TypeOK
<1>. HIDE <1>1
<1>3. /\ pc = "handover" /\ pc' = "post" /\ filling' = EmptySet
      /\ UNCHANGED <<handling, pool, recvPacket>>
  BY <1>1
<1>4. Owned'
  BY <1>2, <1>3 DEF OInv, Owned, FillingOwned
<1>5. NoneLost'
  <2>. SUFFICES ASSUME NEW b \in Buffers \ pool
                PROVE \/ b = recvPacket
                      \/ handling # <<>> /\ b = handling[1].originalPacket
                      \/ \E k \in DOMAIN queue' : b = queue'[k].originalPacket
    BY <1>3 DEF NoneLost
  <2>. QED  BY <1>2, <1>3 DEF OInv, NoneLost
<1>. QED  BY <1>2, <1>3, <1>4, <1>5 DEF OInv, Sets, FillingOwned

\* The set goes with its buffer to the handler.
LEMMA OwnTakeSet ==
  ASSUME IInv, OInv, TakeSet
  PROVE  OInv'
<1>1. /\ handling = <<>> /\ queue # <<>> /\ handling' = <<Head(queue)>>
      /\ queue' = Tail(queue)
      /\ UNCHANGED <<pc, filling, pool, recvPacket>>
  BY DEF TakeSet
<1>2. /\ queue \in Seq(PacketSets) /\ queue' \in Seq(PacketSets)
      /\ Len(queue) \in Nat /\ DOMAIN queue = 1 .. Len(queue) /\ 1 \in DOMAIN queue
      /\ DOMAIN queue' = 1 .. Len(queue) - 1
      /\ \A k \in DOMAIN queue' : queue'[k] = queue[k + 1] /\ k + 1 \in DOMAIN queue /\ k + 1 # 1
      /\ \A k \in DOMAIN queue : k # 1 => k - 1 \in DOMAIN queue' /\ queue'[k - 1] = queue[k]
      /\ \A j, k \in DOMAIN queue' : j + 1 = k + 1 => j = k
      /\ handling' = <<queue[1]>> /\ handling'[1] = queue[1] /\ handling' # <<>>
  BY <1>1 DEF OInv, Sets
<1>3. queue[1] \in PacketSets
  BY <1>2
<1>4. Sets'
  BY <1>2, <1>3 DEF Sets
<1>5. Owned'
  BY <1>1, <1>2 DEF OInv, Owned
<1>6. FillingOwned'
  BY <1>1, <1>2 DEF OInv, FillingOwned
<1>7. NoneLost'
  <2>. SUFFICES ASSUME NEW b \in Buffers \ pool
                PROVE \/ b = recvPacket
                      \/ pc = "handover" /\ b = filling.originalPacket
                      \/ b = queue[1].originalPacket
                      \/ \E k \in DOMAIN queue' : b = queue'[k].originalPacket
    BY <1>1, <1>2 DEF NoneLost
  <2>1. ASSUME NEW k \in DOMAIN queue, b = queue[k].originalPacket
        PROVE  \/ b = queue[1].originalPacket
               \/ \E i \in DOMAIN queue' : b = queue'[i].originalPacket
    BY <2>1, <1>2
  <2>. QED  BY <2>1, <1>1 DEF OInv, NoneLost
<1>. QED  BY <1>4, <1>5, <1>6, <1>7 DEF OInv

\* Reading a packet leaves the set its buffer.
LEMMA OwnHandlePacket ==
  ASSUME IInv, OInv, HandlePacket
  PROVE  OInv'
<1>1. /\ handling # <<>> /\ handling[1].packets # <<>>
      /\ handling' = <<[handling[1] EXCEPT !.packets = Tail(handling[1].packets)]>>
      /\ UNCHANGED <<pc, filling, pool, recvPacket, queue>>
  BY DEF HandlePacket, ReadsPacket
<1>2. PICK s \in PacketSets : handling = <<s>>
  BY <1>1 DEF OInv, Sets
<1>3. /\ handling' = <<[s EXCEPT !.packets = Tail(s.packets)]>>
      /\ Tail(s.packets) \in Seq([msg : Nat, from : Int, size : Int])
  BY <1>1, <1>2, SetParts
<1>4. /\ [s EXCEPT !.packets = Tail(s.packets)] \in PacketSets
      /\ [s EXCEPT !.packets = Tail(s.packets)].originalPacket = s.originalPacket
  BY <1>3 DEF PacketSets
<1>5. /\ handling' # <<>> /\ handling'[1].originalPacket = handling[1].originalPacket
  BY <1>2, <1>3, <1>4
<1>. QED
  BY <1>1, <1>3, <1>4, <1>5, ZenonT(40) DEF OInv, Sets, Owned, FillingOwned, NoneLost

\* The buffer of a set is freed with it.
LEMMA OwnFreeSet ==
  ASSUME IInv, OInv, FreeSet \/ HandlerFails
  PROVE  OInv'
<1>1. /\ handling # <<>> /\ handling' = <<>>
      /\ pool' = pool \cup ({s.originalPacket : s \in {handling[1]}} \ {NoBuffer})
      /\ UNCHANGED <<pc, filling, recvPacket, queue>>
  BY Zenon DEF FreeSet, HandlerFails, ReadsPacket, FreeSets, FreeBuffers
<1>2. handling[1].originalPacket \in Buffers
  BY <1>1 DEF OInv, Owned
<1>3. pool' = pool \cup {handling[1].originalPacket}
  BY <1>1, <1>2
<1>. QED
  BY <1>1, <1>2, <1>3 DEF OInv, Sets, Owned, FillingOwned, NoneLost

\* The buffers of the sets in the queue are freed with them.
LEMMA OwnClearJobQ ==
  ASSUME IInv, OInv, ClearJobQ
  PROVE  OInv'
<1> DEFINE ss == {queue[k] : k \in DOMAIN queue}
<1>1. /\ pool' = pool \cup ({s.originalPacket : s \in ss} \ {NoBuffer})
      /\ queue' = <<>> /\ UNCHANGED <<pc, filling, recvPacket, handling>>
  BY Zenon DEF ClearJobQ, FreeSets, FreeBuffers
<1>2. /\ {s.originalPacket : s \in ss} = {queue[k].originalPacket : k \in DOMAIN queue}
      /\ {queue[k].originalPacket : k \in DOMAIN queue} \subseteq Buffers
  BY DEF OInv, Owned
<1>3. pool' = pool \cup {queue[k].originalPacket : k \in DOMAIN queue}
  BY <1>1, <1>2
<1>4. queue' \in Seq(PacketSets) /\ DOMAIN queue' = {}
  BY <1>1
<1>. HIDE DEF ss
<1>. QED
  BY <1>1, <1>2, <1>3, <1>4 DEF OInv, Sets, Owned, FillingOwned, NoneLost

\* The buffers of the session and of the sets in its queue are freed.
LEMMA OwnDestroy ==
  ASSUME IInv, OInv, Destroy
  PROVE  OInv'
<1>1. /\ pc \in {"closed", "rejected"} /\ handling = <<>> /\ handling' = handling
      /\ pool' = pool \cup ({recvPacket} \cup {queue[k].originalPacket : k \in DOMAIN queue})
      /\ queue' = <<>> /\ recvPacket' = NoBuffer /\ pc' = "none" /\ filling' = filling
  BY Zenon DEF Destroy, FreeBuffers
<1>2. recvPacket \in Buffers
  BY <1>1 DEF IInv, TypeOK, OInv, Owned
<1>3. queue' \in Seq(PacketSets) /\ DOMAIN queue' = {}
  BY <1>1
<1>. QED
  BY <1>1, <1>2, <1>3 DEF OInv, Sets, Owned, FillingOwned, NoneLost

\* One step for each action of Next.
LEMMA OwnNext == IInv /\ OInv /\ [Next]_vars => OInv'
<1>. SUFFICES ASSUME IInv, OInv, [Next]_vars PROVE OInv'
  OBVIOUS
<1>1. ASSUME NEW b \in Buffers, Initialize(b) PROVE OInv'
  BY <1>1, OwnInitialize
<1>2. ASSUME NEW b \in Buffers, CopyRemainder(b) PROVE OInv'
  BY <1>2, OwnCopyRemainder
<1>3. ASSUME NEW n \in 1 .. Room, CompleteRecv(n) PROVE OInv'
  BY <1>3, OwnCompleteRecv
<1>4. CASE RegisterPacket
  BY <1>4, OwnRegisterPacket
<1>5. CASE RejectStream \/ KeepPacket
  BY <1>5, OwnDrop
<1>6. CASE RecvPost \/ EndReceive \/ StopRegistering
  BY <1>6, OwnStutter DEF RecvPost, EndReceive, StopRegistering
<1>7. CASE HandOver
  BY <1>7, OwnHandOver
<1>8. CASE TakeSet
  BY <1>8, OwnTakeSet
<1>9. CASE HandlePacket
  BY <1>9, OwnHandlePacket
<1>10. CASE FreeSet \/ HandlerFails
  BY <1>10, OwnFreeSet
<1>14. CASE ClearJobQ
  BY <1>14, OwnClearJobQ
<1>11. CASE Destroy
  BY <1>11, OwnDestroy
<1>12. ASSUME NEW m \in Messages, ClientSends(m) PROVE OInv'
  BY <1>12, OwnStutter DEF ClientSends
<1>13. CASE UNCHANGED vars
  BY <1>13, OwnStutter DEF vars
<1>. QED
  BY <1>1, <1>2, <1>3, <1>4, <1>5, <1>6, <1>7, <1>8, <1>9, <1>10, <1>11, <1>12, <1>13,
     <1>14, Zenon DEF Next, Receive, Handle

\* The references OneHolder counts are counted once.
LEMMA OwnImplies == IInv /\ OInv => OneHolder
<1>. SUFFICES ASSUME IInv, OInv, pc \in {"posted", "closed", "rejected", "none"},
                     NEW b \in Buffers
              PROVE  Holders(b) = IF b \in pool THEN 0 ELSE 1
  BY DEF OneHolder
<1> DEFINE inQueue    == {k \in DOMAIN queue : queue[k].originalPacket = b}
           inHandling == {k \in DOMAIN handling : handling[k].originalPacket = b}
<1>1. Cardinality(inQueue) =
        IF \E k \in DOMAIN queue : queue[k].originalPacket = b THEN 1 ELSE 0
  <2>1. CASE inQueue = {}
    BY <2>1, FS_EmptySet
  <2>2. ASSUME NEW k \in inQueue
        PROVE  Cardinality(inQueue) = 1
    <3>1. inQueue = {k}
      BY <2>2 DEF OInv, Owned
    <3>. QED  BY <3>1, FS_Singleton
  <2>. QED  BY <2>1, <2>2
<1>2. Cardinality(inHandling) =
        IF handling # <<>> /\ handling[1].originalPacket = b THEN 1 ELSE 0
  <2>1. CASE handling = <<>>
    <3>1. inHandling = {}
      BY <2>1
    <3>. QED  BY <2>1, <3>1, FS_EmptySet
  <2>2. ASSUME NEW s \in PacketSets, handling = <<s>>
        PROVE  Cardinality(inHandling) = IF handling[1].originalPacket = b THEN 1 ELSE 0
    <3>1. DOMAIN handling = {1}
      BY <2>2
    <3>2. inHandling = IF handling[1].originalPacket = b THEN {1} ELSE {}
      BY <3>1
    <3>. QED  BY <3>2, FS_EmptySet, FS_Singleton
  <2>3. \A s : <<s>> # <<>>
    OBVIOUS
  <2>. QED  BY <2>1, <2>2, <2>3 DEF OInv, Sets
<1>3. Holders(b) = (IF recvPacket = b THEN 1 ELSE 0) + Cardinality(inQueue)
                     + Cardinality(inHandling)
  BY DEF Holders
<1>. HIDE DEF inQueue, inHandling
<1>. QED  BY <1>1, <1>2, <1>3 DEF OInv, Owned, NoneLost

\* Whenever no worker is inside a completion each buffer is free or has one
\* holder, the session or a set that Free will return once: for any number of
\* buffers and any way RegisterPackets ends.
THEOREM OneHolderHolds == Spec => []OneHolder
<1>1. Spec => []IInv
  BY UnreadIsShort
<1>2. Init => OInv
  BY OwnInit
<1>3. IInv /\ OInv /\ [Next]_vars => OInv'
  BY OwnNext
<1>4. IInv /\ OInv => OneHolder
  BY OwnImplies
<1>. QED  BY <1>1, <1>2, <1>3, <1>4, PTL DEF Spec

-----------------------------------------------------------------------------
(***************************************************************************)
(* What the handlers read.                                                 *)
(***************************************************************************)
\* An element of a sequence.
LEMMA Element == ASSUME NEW S, NEW q \in Seq(S), NEW j \in DOMAIN q PROVE q[j] \in S
  OBVIOUS

\* What Decode makes of a byte.
LEMMA DecodedByte ==
  ASSUME NEW x \in Byte
  PROVE  [x EXCEPT !.plain = TRUE] = [msg |-> x.msg, at |-> x.at, plain |-> TRUE]
<1>1. PICK y : y = [x EXCEPT !.plain = TRUE]
  OBVIOUS
<1>2. y \in Byte /\ y.msg = x.msg /\ y.at = x.at /\ y.plain = TRUE
  BY <1>1 DEF Byte
<1>3. y = [msg |-> y.msg, at |-> y.at, plain |-> y.plain]
  BY <1>2 DEF Byte
<1>. QED  BY <1>1, <1>2, <1>3

\* Sets in memory nobody wrote keep their messages, also when more are sent.
LEMMA SoundKeeps ==
  ASSUME NEW d, NEW e, NEW S \in Seq(Messages), NEW R \in Seq(Messages),
         NEW s \in PacketSets, Sound(d, S, s),
         s.packets # <<>> => e[s.originalPacket] = d[s.originalPacket],
         Len(S) <= Len(R), \A k \in DOMAIN S : R[k] = S[k]
  PROVE  Sound(e, R, s)
<1>. SUFFICES ASSUME NEW j \in DOMAIN s.packets
              PROVE  Reads(e, R, s.originalPacket, s.packets[j])
  BY DEF Sound
<1>1. s.packets # <<>>
  BY SetParts
<1>2. DOMAIN S \subseteq DOMAIN R
  OBVIOUS
<1>. QED  BY <1>1, <1>2 DEF Sound, Reads

\* Steps that leave the sets handed over and what they point to.
LEMMA HandedSound ==
  ASSUME IInv, OInv, AllSound,
         UNCHANGED <<queue, handling>>,
         sent' \in Seq(Messages), Len(sent) <= Len(sent'),
         \A k \in DOMAIN sent : sent'[k] = sent[k],
         \A k \in DOMAIN queue :
           data'[queue[k].originalPacket] = data[queue[k].originalPacket],
         handling # <<>> =>
           data'[handling[1].originalPacket] = data[handling[1].originalPacket]
  PROVE  /\ \A k \in DOMAIN queue' : Sound(data', sent', queue'[k])
         /\ handling' # <<>> => Sound(data', sent', handling'[1])
<1>0. sent \in Seq(Messages)
  BY DEF IInv, TypeOK
<1>1. ASSUME NEW k \in DOMAIN queue
      PROVE  Sound(data', sent', queue[k])
  <2>1. queue[k] \in PacketSets /\ Sound(data, sent, queue[k])
    BY DEF OInv, Sets, AllSound
  <2>2. data'[queue[k].originalPacket] = data[queue[k].originalPacket]
    OBVIOUS
  <2>. QED  BY <1>0, <2>1, <2>2, SoundKeeps
<1>2. ASSUME handling # <<>>
      PROVE  Sound(data', sent', handling[1])
  <2>1. PICK s \in PacketSets : handling = <<s>>
    BY <1>2 DEF OInv, Sets
  <2>2. handling[1] \in PacketSets /\ Sound(data, sent, handling[1])
    BY <1>2, <2>1 DEF AllSound
  <2>3. data'[handling[1].originalPacket] = data[handling[1].originalPacket]
    BY <1>2
  <2>. QED  BY <1>0, <2>2, <2>3, SoundKeeps
<1>. QED  BY <1>1, <1>2

\* The same, when the set that is filled is left as it is, or empty.
LEMMA SoundStays ==
  ASSUME IInv, OInv, AllSound,
         UNCHANGED <<queue, handling>>,
         sent' \in Seq(Messages), Len(sent) <= Len(sent'),
         \A k \in DOMAIN sent : sent'[k] = sent[k],
         \A k \in DOMAIN queue :
           data'[queue[k].originalPacket] = data[queue[k].originalPacket],
         handling # <<>> =>
           data'[handling[1].originalPacket] = data[handling[1].originalPacket],
         \/ /\ filling' = filling
            /\ data'[filling.originalPacket] = data[filling.originalPacket]
         \/ filling'.packets = <<>>
  PROVE  AllSound'
<1>1. /\ \A k \in DOMAIN queue' : Sound(data', sent', queue'[k])
      /\ handling' # <<>> => Sound(data', sent', handling'[1])
  BY HandedSound
<1>2. Sound(data', sent', filling')
  <2>1. CASE filling' = filling /\ data'[filling.originalPacket] = data[filling.originalPacket]
    <3>1. filling \in PacketSets /\ sent \in Seq(Messages) /\ Sound(data, sent, filling)
      BY DEF AllSound, IInv, TypeOK
    <3>2. /\ sent' \in Seq(Messages) /\ Len(sent) <= Len(sent')
          /\ \A k \in DOMAIN sent : sent'[k] = sent[k]
      OBVIOUS
    <3>3. Sound(data', sent', filling)
      BY <2>1, <3>1, <3>2, SoundKeeps, SMTT(20)
    <3>. QED  BY <2>1, <3>3
  <2>2. CASE filling'.packets = <<>>
    BY <2>2 DEF Sound
  <2>. QED  BY <2>1, <2>2
<1>. QED  BY <1>1, <1>2 DEF AllSound

\* Steps that leave the sets and what was read and dropped.
LEMMA LinedKeeps ==
  ASSUME NEW m, Lined(m),
         UNCHANGED <<queue, handling, handled, dropped>>,
         filling' = filling \/ (filling.packets = <<>> /\ filling'.packets = <<>>),
         pc \notin {"rejected", "none"} \/ pc' = pc
  PROVE  Lined(m)'
<1>1. CASE filling' = filling
  <2>1. InOrder(m)' = InOrder(m)
    BY <1>1 DEF InOrder, Fresh, Before
  <2>2. \A n : Somewhere(n)' = Somewhere(n)
    BY <1>1 DEF Somewhere, Has
  <2>. QED  BY <2>1, <2>2 DEF Lined
<1>2. CASE filling.packets = <<>> /\ filling'.packets = <<>>
  <2>1. DOMAIN filling'.packets = {} /\ DOMAIN filling.packets = {}
    BY <1>2
  <2>2. InOrder(m)'
    BY <2>1 DEF Lined, InOrder, Fresh, Before
  <2>3. \A n : Somewhere(n) => Somewhere(n)'
    BY <2>1, Zenon DEF Somewhere, Has
  <2>. QED  BY <2>2, <2>3 DEF Lined
<1>. QED  BY <1>1, <1>2

\* The lengths of the stream, while the session receives.
LEMMA Lengths ==
  ASSUME IInv, pc \in Active
  PROVE  /\ Unread \in Nat /\ Len(wire) \in Nat /\ Len(sent) \in Nat
         /\ Unread = writePos - readPos
         /\ readPos \in Nat /\ writePos \in Nat
         /\ readPos <= writePos /\ recvPacket \in Buffers
         /\ sent \in Seq(Messages) /\ wire \in Seq(Byte)
         /\ DOMAIN sent = 1 .. Len(sent)
         /\ \A k \in 1 .. Len(sent) : sent[k] \in Messages /\ sent[k].size \in Nat
<1>1. /\ readPos \in Int /\ writePos \in Int
      /\ 0 <= readPos /\ readPos <= writePos /\ recvPacket \in Buffers
  BY PositionsRange DEF IInv, TypeOK, AtRest, AtWork, Active
<1>2. /\ sent \in Seq(Messages) /\ wire \in Seq(Byte)
      /\ Len(wire) \in Nat /\ Len(sent) \in Nat /\ DOMAIN sent = 1 .. Len(sent)
      /\ \A k \in 1 .. Len(sent) : sent[k] \in Messages
  BY DEF IInv, TypeOK
<1>. QED  BY <1>1, <1>2 DEF Unread, Messages

\* A number below the end of an interval is in it.
LEMMA Below ==
  ASSUME NEW o \in Nat, NEW z \in Nat, NEW u \in Nat, NEW w \in Nat, NEW i \in Nat,
         o + eNET_HEADER_SIZE + z <= u + w, 1 <= i, i <= eNET_HEADER_SIZE + z
  PROVE  o + i - 1 \in 0 .. u + w - 1
  OBVIOUS

\* Every byte of a message that is laid out is in the stream.
LEMMA InStream ==
  ASSUME IInv, pc \in Active, NEW off, NEW m \in Nat, Laid(off, m),
         NEW k \in m .. Len(sent), NEW i \in 1 .. eNET_HEADER_SIZE + sent[k].size
  PROVE  /\ k \in 1 .. Len(sent) /\ k \in Nat /\ off[k] \in Nat
         /\ off[k] + i - 1 \in 0 .. Unread + Len(wire) - 1
         /\ off[k] + eNET_HEADER_SIZE + sent[k].size <= Unread + Len(wire)
<1>1. k \in 1 .. Len(sent) /\ k + 1 \in m .. Len(sent) + 1 /\ Len(sent) + 1 \in m .. Len(sent) + 1
      /\ k + 1 <= Len(sent) + 1 /\ k \in Nat /\ k + 1 \in Nat
  BY Lengths DEF Laid
<1>2. off[k + 1] <= off[Len(sent) + 1]
  BY <1>1 DEF Laid
<1>3. off[k + 1] = off[k] + eNET_HEADER_SIZE + sent[k].size
  BY DEF Laid
<1>4. off[Len(sent) + 1] = Unread + Len(wire)
  BY DEF Laid
<1>5. off[k] \in Nat /\ sent[k].size \in Nat
  BY <1>1, Lengths DEF Laid
<1>6. off[k] + eNET_HEADER_SIZE + sent[k].size <= Unread + Len(wire)
  BY <1>2, <1>3, <1>4
<1>7. i \in Nat /\ 1 <= i /\ i <= eNET_HEADER_SIZE + sent[k].size
  BY <1>5
<1>8. Unread \in Nat /\ Len(wire) \in Nat
  BY Lengths
<1>9. off[k] + i - 1 \in 0 .. Unread + Len(wire) - 1
  BY <1>5, <1>6, <1>7, <1>8, Below
<1>. QED  BY <1>1, <1>5, <1>6, <1>9

\* Bytes that move from the wire to the buffer, or from one buffer to the next,
\* are the same stream.
LEMMA LaidKeeps ==
  ASSUME IInv, pc \in Active, NEW off, NEW m \in Nat, Laid(off, m),
         sent' = sent, (Unread + Len(wire))' = Unread + Len(wire),
         \A i \in 0 .. Unread + Len(wire) - 1 : StreamAt(i)' = StreamAt(i)
  PROVE  Laid(off, m)'
<1>1. ASSUME NEW k \in m .. Len(sent), NEW i \in 1 .. eNET_HEADER_SIZE + sent[k].size
      PROVE  StreamAt(off[k] + i - 1)' = [msg |-> k, at |-> i, plain |-> FALSE]
  <2>1. off[k] + i - 1 \in 0 .. Unread + Len(wire) - 1
    BY <1>1, InStream
  <2>2. StreamAt(off[k] + i - 1)' = StreamAt(off[k] + i - 1)
    BY <2>1
  <2>. QED  BY <2>2 DEF Laid
<1>. QED  BY <1>1 DEF Laid

\* Where a header should be is the header of the next message.
LEMMA HeaderIsNext ==
  ASSUME IInv, NEW off, NEW m \in Nat, Laid(off, m),
         pc = "register", ~isSmallerThanHeaderSize
  PROVE  /\ m \in 1 .. Len(sent) /\ HeaderAt = m /\ packetSize = sent[m].size
         /\ sent[m] \in Messages /\ sent[m].size \in Nat
         /\ off[m + 1] = eNET_HEADER_SIZE + sent[m].size
         /\ \A i \in 1 .. eNET_HEADER_SIZE + sent[m].size :
              i <= Unread =>
                ByteAt(readPos + i - 1) = [msg |-> m, at |-> i, plain |-> FALSE]
<1>1. pc \in Active /\ eNET_HEADER_SIZE <= Unread /\ eNET_HEADER_SIZE \in Nat \ {0}
  BY Lengths DEF Active, isSmallerThanHeaderSize, GetUsedSize, Unread
<1>2. m \in 1 .. Len(sent)
  <2>1. /\ m \in 1 .. Len(sent) + 1 /\ off[m] = 0
        /\ off[Len(sent) + 1] = Unread + Len(wire)
    BY DEF Laid
  <2>2. Unread \in Nat /\ Len(wire) \in Nat /\ Len(sent) \in Nat
    BY <1>1, Lengths
  <2>3. m # Len(sent) + 1
    BY <2>1, <2>2, <1>1
  <2>4. m \in 1 .. Len(sent) + 1 /\ Len(sent) \in Nat
    BY <2>1, <2>2
  <2>. QED  BY ONLY <2>3, <2>4
<1>3. sent[m] \in Messages /\ sent[m].size \in Nat
  BY <1>1, <1>2, Lengths
<1>4. off[m] = 0 /\ off[m + 1] = eNET_HEADER_SIZE + sent[m].size
  <2>1. /\ off[m] = 0
        /\ off[m + 1] = off[m] + eNET_HEADER_SIZE + sent[m].size
    BY <1>2 DEF Laid
  <2>. QED  BY <2>1, <1>3
<1>5. ASSUME NEW i \in 1 .. eNET_HEADER_SIZE + sent[m].size, i <= Unread
      PROVE  ByteAt(readPos + i - 1) = [msg |-> m, at |-> i, plain |-> FALSE]
  <2>1. StreamAt(off[m] + i - 1) = [msg |-> m, at |-> i, plain |-> FALSE]
    <3>1. m \in m .. Len(sent)
      BY <1>2
    <3>. QED  BY <3>1, Zenon DEF Laid
  <2>2. off[m] + i - 1 = i - 1 /\ i - 1 < Unread /\ readPos + (i - 1) = readPos + i - 1
    BY <1>1, <1>3, <1>4, <1>5, Lengths, SMTT(40)
  <2>. QED  BY <2>1, <2>2 DEF StreamAt, ByteAt
<1>6. \A i \in 1 .. eNET_HEADER_SIZE :
        ByteAt(readPos + i - 1) = [msg |-> m, at |-> i, plain |-> FALSE]
  <2>1. \A i \in 1 .. eNET_HEADER_SIZE :
          i \in 1 .. eNET_HEADER_SIZE + sent[m].size /\ i <= Unread
    <3>1. Unread \in Nat
      BY <1>1, Lengths
    <3>. QED  BY ONLY <3>1, <1>1, <1>3
  <2>. QED  BY ONLY <2>1, <1>5
<1>7. ByteAt(readPos).msg = m
  <2>1. 1 \in 1 .. eNET_HEADER_SIZE /\ readPos + 1 - 1 = readPos
    BY <1>1, Lengths
  <2>2. ByteAt(readPos + 1 - 1) = [msg |-> m, at |-> 1, plain |-> FALSE]
    BY <1>6, <2>1
  <2>. QED  BY <2>1, <2>2
<1>8. HeaderAt = m
  <2>1. \A i \in 1 .. eNET_HEADER_SIZE :
          ByteAt(readPos + i - 1).msg = m /\ ByteAt(readPos + i - 1).at = i
    <3>. SUFFICES ASSUME NEW i \in 1 .. eNET_HEADER_SIZE
                  PROVE  ByteAt(readPos + i - 1).msg = m /\ ByteAt(readPos + i - 1).at = i
      OBVIOUS
    <3>1. ByteAt(readPos + i - 1) = [msg |-> m, at |-> i, plain |-> FALSE]
      BY <1>6
    <3>. QED  BY <3>1
  <2>. HIDE DEF ByteAt
  <2>. QED  BY <2>1, <1>7 DEF HeaderAt
<1>. QED  BY <1>2, <1>3, <1>4, <1>5, <1>8 DEF packetSize

-----------------------------------------------------------------------------
\* Steps that leave the sets, the stream and the memory.
LEMMA ReadsStutter ==
  ASSUME IInv, OInv, RInv,
         UNCHANGED <<sent, wire, data, recvPacket, readPos, writePos, queue, handling,
                     handled, dropped>>,
         \/ filling' = filling /\ pc' = pc
         \/ filling' = filling /\ pc = "post" /\ pc' = "posted"
         \/ filling' = filling /\ pc = "posted" /\ pc' = "closed"
         \/ /\ pc = "copy" /\ pc' = "post"
            /\ filling.packets = <<>> /\ filling'.packets = <<>>
  PROVE  RInv'
<1>1. PICK m \in Nat :
        /\ Lined(m) /\ NotWhole(m)
        /\ pc \in Active => \E off : Laid(off, m)
  BY DEF RInv, Stream
<1>2. Lined(m)' /\ AllSound'
  <2>1. sent \in Seq(Messages) /\ Len(sent) <= Len(sent)
    BY DEF IInv, TypeOK
  <2>2. AllSound'
    BY <2>1, SoundStays DEF RInv
  <2>. QED  BY <1>1, <2>2, LinedKeeps
<1>3. NotWhole(m)'
  BY <1>1 DEF NotWhole, Unread
<1>4. ASSUME pc' \in Active PROVE \E off : Laid(off, m)'
  <2>1. pc \in Active
    BY <1>4 DEF Active
  <2>2. PICK off : Laid(off, m)
    BY <1>1, <2>1
  <2>3. Laid(off, m)'
    BY <2>1, <2>2, LaidKeeps DEF StreamAt, Unread
  <2>. QED  BY <2>3
<1>5. Stream'
  BY <1>1, <1>2, <1>3, <1>4 DEF Stream
<1>6. Filled' /\ AsSent'
  BY DEF RInv, Filled, AsSent, Payload, WellFormed
<1>. QED  BY <1>2, <1>5, <1>6 DEF RInv

\* A connection that begins has sent nothing.
Begins == /\ sent = <<>> /\ wire = <<>> /\ handled = <<>> /\ dropped = {}
          /\ queue = <<>> /\ handling = <<>> /\ filling = EmptySet
          /\ readPos = start /\ writePos = start
          /\ pc \in {"none", "post"}

\* Nothing is in hand and nothing on its way.
LEMMA ReadsBegin == Begins => RInv
<1>. SUFFICES ASSUME Begins PROVE RInv
  OBVIOUS
<1>. USE DEF Begins
<1> DEFINE off == [k \in Nat |-> 0]
<1>1. /\ Len(sent) = 0 /\ Len(wire) = 0
      /\ DOMAIN queue = {} /\ DOMAIN filling.packets = {}
      /\ DOMAIN handled = {} /\ DOMAIN sent = {}
      /\ handled \in Seq([msg : Nat, bytes : Seq(Byte)])
  BY DEF EmptySet
<1>2. Unread = 0
  BY PositionsRange DEF Unread
<1>3. Lined(1) /\ AllSound
  BY <1>1 DEF Lined, InOrder, Fresh, AllSound, Sound
<1>4. NotWhole(1)
  BY <1>1 DEF NotWhole
<1>5. Laid(off, 1)
  BY <1>1, <1>2 DEF Laid
<1>6. Filled /\ AsSent
  BY <1>1 DEF Filled, AsSent
<1>. HIDE DEF off
<1>8. Stream
  BY <1>3, <1>4, <1>5 DEF Stream
<1>. QED  BY <1>3, <1>6, <1>8 DEF RInv

\* At the start nothing was read.
LEMMA ReadsInit == Init => RInv
<1>. SUFFICES ASSUME Init PROVE RInv
  OBVIOUS
<1>1. /\ sent = <<>> /\ wire = <<>> /\ handled = <<>> /\ dropped = {}
      /\ queue = <<>> /\ handling = <<>> /\ filling = EmptySet
      /\ readPos = start /\ writePos = start /\ pc = "none"
  BY Zenon DEF Init
<1>. QED  BY <1>1, ReadsBegin DEF Begins

\* A connection that takes the slot has sent nothing.
LEMMA ReadsInitialize ==
  ASSUME IInv, OInv, NEW b \in Buffers, Initialize(b)
  PROVE  RInv'
<1>1. Begins'
  <2>1. /\ pc = "none" /\ pc' = "post" /\ readPos' = start /\ writePos' = start
        /\ sent' = <<>> /\ wire' = <<>> /\ handled' = <<>> /\ dropped' = {}
        /\ UNCHANGED <<filling, queue, handling>>
    BY DEF Initialize
  <2>. QED  BY <2>1 DEF Begins, OInv, Owned, FillingOwned
<1>2. Begins' => RInv'
  BY ReadsBegin, PTL
<1>. QED  BY <1>1, <1>2

\* What the client sends comes behind all that is on its way.
LEMMA ReadsClientSends ==
  ASSUME IInv, OInv, RInv, NEW msg \in Messages, ClientSends(msg)
  PROVE  RInv'
<1>1. PICK m \in Nat :
        /\ Lined(m) /\ NotWhole(m)
        /\ pc \in Active => \E off : Laid(off, m)
  BY DEF RInv, Stream
<1>2. /\ sent' = Append(sent, msg) /\ wire' = wire \o Encoded(Len(sent) + 1, msg)
      /\ UNCHANGED <<data, recvPacket, readPos, writePos, pc, filling, queue, handling,
                     handled, dropped>>
  BY DEF ClientSends
<1>3. /\ sent \in Seq(Messages) /\ sent' \in Seq(Messages)
      /\ Len(sent) \in Nat /\ Len(sent') = Len(sent) + 1
      /\ DOMAIN sent = 1 .. Len(sent) /\ DOMAIN sent' = 1 .. Len(sent) + 1
      /\ \A k \in DOMAIN sent : sent'[k] = sent[k] /\ k \in DOMAIN sent'
      /\ sent'[Len(sent) + 1] = msg
  BY <1>2 DEF IInv, TypeOK
<1>4. Lined(m)' /\ AllSound'
  <2>1. AllSound'
    BY <1>2, <1>3, SoundStays DEF RInv
  <2>. QED  BY <1>1, <1>2, <2>1, LinedKeeps
<1>5. Filled' /\ AsSent'
  <2>1. \A k \in DOMAIN sent : WellFormed(sent[k])
    BY DEF ClientSends
  <2>2. pc # "rejected"
    BY <2>1 DEF RInv, AsSent
  <2>3. \A k \in DOMAIN sent : Payload(k)' = Payload(k)
    BY <1>3 DEF Payload
  <2>. QED  BY <1>2, <1>3, <2>2, <2>3 DEF RInv, Filled, AsSent
<1>6. CASE pc \notin Active
  <2>1. NotWhole(m)'
    BY <1>2, <1>6 DEF NotWhole, Active
  <2>2. Stream'
    BY <1>2, <1>4, <1>6, <2>1 DEF Stream
  <2>. QED  BY <1>4, <1>5, <2>2 DEF RInv
<1>7. CASE pc \in Active
  <2>1. PICK off : Laid(off, m)
    BY <1>1, <1>7
  <2> DEFINE n == eNET_HEADER_SIZE + msg.size
  <2>2. /\ Unread \in Nat /\ Len(wire) \in Nat /\ n \in Nat \ {0}
        /\ msg.size \in Nat /\ wire \in Seq(Byte)
    BY <1>7, Lengths, SMTT(30) DEF Messages
  <2>3. /\ Unread' = Unread /\ Len(wire') = Len(wire) + n
        /\ \A i \in 1 .. Len(wire) : wire'[i] = wire[i]
        /\ \A i \in 1 .. n :
             wire'[Len(wire) + i] = [msg |-> Len(sent) + 1, at |-> i, plain |-> FALSE]
    <3> DEFINE e == Encoded(Len(sent) + 1, msg)
    <3>1. e = [i \in 1 .. n |-> [msg |-> Len(sent) + 1, at |-> i, plain |-> FALSE]]
      BY DEF Encoded
    <3>2. \A i \in 1 .. n : [msg |-> Len(sent) + 1, at |-> i, plain |-> FALSE] \in Byte
      BY <1>3 DEF Byte
    <3>3. e \in Seq(Byte) /\ Len(e) = n
      BY <2>2, <3>1, <3>2
    <3>4. wire' = wire \o e /\ wire \in Seq(Byte)
      BY <1>2, <2>2
    <3>. HIDE DEF e, n
    <3>5. Len(wire') = Len(wire) + n /\ \A i \in 1 .. Len(wire) : wire'[i] = wire[i]
      <4>1. \A s, t \in Seq(Byte) : Len(s \o t) = Len(s) + Len(t)
        OBVIOUS
      <4>2. \A i \in 1 .. Len(wire) : (wire \o e)[i] = wire[i]
        BY <3>3, <3>4
      <4>. QED  BY ONLY <3>3, <3>4, <4>1, <4>2
    <3>6. ASSUME NEW i \in 1 .. n PROVE wire'[Len(wire) + i] = e[i]
      <4>1. Len(wire) + i \in 1 .. Len(wire) + n /\ Len(wire) + i > Len(wire)
        BY <2>2, <3>6
      <4>. QED  BY <2>2, <3>3, <3>4, <4>1
    <3>. QED  BY <1>2, <3>1, <3>5, <3>6 DEF Unread
  <2>. HIDE DEF n
  <2>4. PICK T \in Nat : T = Unread + Len(wire)
    BY <2>2
  <2>5. PICK L \in Nat : L = Len(sent)
    BY <1>3
  <2>6. /\ m \in 1 .. L + 1 /\ off[L + 1] = T /\ off[m] = 0
        /\ \A k \in Nat : off[k] \in Nat
    BY <2>1, <2>4, <2>5 DEF Laid
  <2>7. \A j, k \in m .. L + 1 : j <= k => off[j] <= off[k]
    BY <2>1, <2>5 DEF Laid
  <2>8. \A k \in m .. L :
          /\ off[k + 1] = off[k] + eNET_HEADER_SIZE + sent[k].size
          /\ \A i \in 1 .. eNET_HEADER_SIZE + sent[k].size :
               StreamAt(off[k] + i - 1) = [msg |-> k, at |-> i, plain |-> FALSE]
    BY <2>1, <2>5 DEF Laid
  <2>9. PICK next : /\ \A k \in Nat : next[k] \in Nat
                    /\ \A k \in 1 .. L + 1 : next[k] = off[k]
                    /\ next[L + 2] = T + n
    <3> DEFINE f == [k \in Nat |-> IF k = L + 2 THEN T + n ELSE off[k]]
    <3>1. /\ \A k \in Nat : f[k] \in Nat
          /\ \A k \in 1 .. L + 1 : f[k] = off[k]
          /\ f[L + 2] = T + n
      BY <2>2, <2>6
    <3>. QED  BY <3>1
  <2>10. /\ Len(sent') = L + 1 /\ (Unread + Len(wire))' = T + n
         /\ m \in 1 .. L + 1 /\ L + 1 \in m .. L + 1 /\ next[m] = 0
    BY <1>3, <2>2, <2>3, <2>4, <2>5, <2>6, <2>9
  <2>11. ASSUME NEW k \in m .. L + 1
         PROVE  next[k + 1] = next[k] + eNET_HEADER_SIZE + sent'[k].size
    <3>1. CASE k = L + 1
      <4>1. next[k] = T /\ k + 1 = L + 2
        BY <2>6, <2>9, <3>1
      <4>2. sent'[k].size = msg.size
        BY <1>3, <2>5, <3>1
      <4>3. T + n = T + eNET_HEADER_SIZE + msg.size
        BY <2>2 DEF n
      <4>. QED  BY <2>9, <4>1, <4>2, <4>3
    <3>2. CASE k \in m .. L
      <4>1. k \in 1 .. L + 1 /\ k + 1 \in 1 .. L + 1 /\ k \in DOMAIN sent
        BY <1>3, <2>5, <2>6, <3>2
      <4>2. next[k] = off[k] /\ next[k + 1] = off[k + 1] /\ sent'[k] = sent[k]
        BY <1>3, <2>9, <4>1
      <4>. QED  BY <2>8, <3>2, <4>2
    <3>. QED  BY <2>6, <2>11, <3>1, <3>2
  <2>12. ASSUME NEW j \in m .. L + 2, NEW k \in m .. L + 2, j <= k
         PROVE  next[j] <= next[k]
    <3>1. CASE k \in m .. L + 1
      <4>1. j \in m .. L + 1 /\ j \in 1 .. L + 1 /\ k \in 1 .. L + 1
        BY <2>6, <2>12, <3>1
      <4>. QED  BY <2>7, <2>9, <2>12, <3>1, <4>1
    <3>2. CASE k = L + 2 /\ j \in m .. L + 1
      <4>1. j \in 1 .. L + 1 /\ j <= L + 1 /\ j \in Nat
        BY <2>6, <3>2
      <4>2. off[j] <= off[L + 1]
        BY <2>7, <2>10, <3>2, <4>1
      <4>3. next[j] <= T /\ next[j] \in Nat
        BY <2>6, <2>9, <4>1, <4>2
      <4>4. T <= T + n
        BY <2>2
      <4>. QED  BY <2>2, <2>9, <3>2, <4>3, <4>4
    <3>3. CASE k = L + 2 /\ j = L + 2
      BY <2>2, <2>9, <3>3
    <3>. QED  BY <2>6, <2>12, <3>1, <3>2, <3>3
  <2>13. ASSUME NEW k \in m .. L + 1, NEW i \in 1 .. eNET_HEADER_SIZE + sent'[k].size
         PROVE  StreamAt(next[k] + i - 1)' = [msg |-> k, at |-> i, plain |-> FALSE]
    <3>1. CASE k = L + 1
      <4>1. next[k] = T /\ sent'[k] = msg
        BY <1>3, <2>5, <2>6, <2>9, <3>1
      <4>2. i \in 1 .. n /\ i \in Nat /\ 1 <= i
        BY <2>2, <2>13, <4>1 DEF n
      <4>3. ~(T + i - 1 < Unread) /\ (T + i - 1) - Unread + 1 = Len(wire) + i
        BY <2>2, <2>4, <4>2
      <4>4. StreamAt(T + i - 1)' = wire'[(T + i - 1) - Unread + 1]
        BY <2>3, <4>3 DEF StreamAt
      <4>. QED  BY <2>3, <2>5, <3>1, <4>1, <4>2, <4>3, <4>4
    <3>2. CASE k \in m .. L
      <4>1. k \in 1 .. L + 1 /\ k \in DOMAIN sent /\ k \in m .. Len(sent)
        BY <1>3, <2>5, <2>6, <3>2
      <4>2. sent'[k] = sent[k] /\ next[k] = off[k]
        BY <1>3, <2>9, <4>1
      <4>3. off[k] + i - 1 \in 0 .. Unread + Len(wire) - 1
        BY <1>7, <2>1, <2>13, <4>1, <4>2, InStream
      <4>4. PICK q : q = off[k] + i - 1
        OBVIOUS
      <4>5. q \in Nat /\ q <= Unread + Len(wire) - 1
        BY <2>2, <4>3, <4>4
      <4>6. q >= Unread => q - Unread + 1 \in 1 .. Len(wire)
        BY <2>2, <4>5
      <4>7. StreamAt(q)' = StreamAt(q)
        BY <1>2, <2>2, <2>3, <4>5, <4>6 DEF StreamAt
      <4>8. StreamAt(q) = [msg |-> k, at |-> i, plain |-> FALSE]
        BY <2>8, <2>13, <3>2, <4>2, <4>4
      <4>. QED  BY <4>2, <4>4, <4>7, <4>8
    <3>. QED  BY <2>6, <2>13, <3>1, <3>2
  <2>14. Laid(next, m)'
    <3>1. L + 1 + 1 = L + 2 /\ m \in 1 .. L + 2
      BY <2>6
    <3>. QED  BY <2>9, <2>10, <2>11, <2>12, <2>13, <3>1, Zenon DEF Laid
  <2>15. NotWhole(m)'
    <3>1. CASE m \in 1 .. L
      BY <1>1, <1>2, <1>3, <2>3, <2>5, <3>1 DEF NotWhole
    <3>2. CASE m = L + 1
      <4>1. Unread = 0
        BY <2>2, <2>4, <2>6, <3>2
      <4>. QED  BY <1>3, <2>2, <2>3, <2>5, <3>2, <4>1, SMTT(30) DEF NotWhole, n
    <3>. QED  BY <2>6, <3>1, <3>2
  <2>16. Stream'
    BY <1>4, <2>14, <2>15 DEF Stream
  <2>. QED  BY <1>4, <1>5, <2>16 DEF RInv
<1>. QED  BY <1>6, <1>7

\* What a receive brings goes from the wire behind what is unread.
LEMMA ReadsCompleteRecv ==
  ASSUME IInv, OInv, RInv, NEW n \in 1 .. Room, CompleteRecv(n)
  PROVE  RInv'
<1>1. CASE isFullWithWritePos(n)
  BY <1>1, ReadsStutter DEF CompleteRecv, Crash
<1>2. CASE ~isFullWithWritePos(n)
  <2>1. PICK m \in Nat :
          /\ Lined(m) /\ NotWhole(m)
          /\ pc \in Active => \E off : Laid(off, m)
    BY DEF RInv, Stream
  <2>2. /\ pc = "posted" /\ pc' = "register" /\ n \in Nat /\ n <= Len(wire)
        /\ filling' = [packets |-> <<>>, originalPacket |-> recvPacket]
        /\ wire' = SubSeq(wire, n + 1, Len(wire)) /\ writePos' = writePos + n
        /\ UNCHANGED <<sent, recvPacket, readPos, queue, handling, handled, dropped>>
    BY <1>2 DEF CompleteRecv
  <2>3. filling.packets = <<>> /\ filling'.packets = <<>>
    BY <2>2 DEF OInv, FillingOwned, EmptySet
  <2>4. pc \in Active
    BY <2>2 DEF Active
  <2>5. PICK off : Laid(off, m)
    BY <2>1, <2>4
  <2>6. /\ Unread \in Nat /\ Len(wire) \in Nat /\ Unread = writePos - readPos
        /\ readPos \in Nat /\ writePos \in Nat /\ readPos <= writePos
        /\ recvPacket \in Buffers /\ wire \in Seq(Byte)
    BY <2>4, Lengths
  <2>7. /\ Len(wire') = Len(wire) - n /\ Unread' = Unread + n
        /\ \A i \in 1 .. Len(wire) - n : wire'[i] = wire[i + n]
    <3>1. /\ Len(wire') = Len(wire) - n
          /\ \A i \in 1 .. Len(wire) - n : wire'[i] = wire[i + n]
      BY <2>2, <2>6
    <3>2. Unread' = Unread + n
      BY <2>2, <2>6 DEF Unread
    <3>. QED  BY <3>1, <3>2
  <2>8. writePos + n < end
    BY <1>2, <2>2, <2>6, PositionsRange DEF isFullWithWritePos
  <2> DEFINE filled == [p \in Positions |-> IF p \in writePos .. writePos + n - 1
                                            THEN wire[p - writePos + 1]
                                            ELSE data[recvPacket][p]]
  <2>9. data' = [data EXCEPT ![recvPacket] = filled] /\ data \in [Buffers -> [Positions -> Byte]]
    BY <1>2 DEF CompleteRecv, IInv, TypeOK
  <2>10. /\ \A b \in Buffers : b # recvPacket => data'[b] = data[b]
         /\ data'[recvPacket] = filled
    <3>. HIDE DEF filled
    <3>. QED  BY <2>6, <2>9
  <2>11. Lined(m)' /\ AllSound'
    <3>1. sent' \in Seq(Messages) /\ Len(sent) <= Len(sent')
          /\ \A k \in DOMAIN sent : sent'[k] = sent[k]
      BY <2>2 DEF IInv, TypeOK
    <3>2. /\ \A k \in DOMAIN queue :
               data'[queue[k].originalPacket] = data[queue[k].originalPacket]
          /\ handling # <<>> =>
               data'[handling[1].originalPacket] = data[handling[1].originalPacket]
      BY <2>10 DEF OInv, Owned
    <3>3. AllSound'
      BY <2>2, <2>3, <3>1, <3>2, SoundStays DEF RInv
    <3>. QED  BY <2>1, <2>2, <2>3, <3>3, LinedKeeps
  <2>12. \A q \in 0 .. Unread + Len(wire) - 1 : StreamAt(q)' = StreamAt(q)
    <3>. SUFFICES ASSUME NEW q \in 0 .. Unread + Len(wire) - 1
                  PROVE  StreamAt(q)' = StreamAt(q)
      OBVIOUS
    <3>1. q \in Nat /\ q <= Unread + Len(wire) - 1
      BY <2>6
    <3>2. CASE q < Unread
      <4>1. /\ readPos + q \in Positions /\ readPos + q \notin writePos .. writePos + n - 1
            /\ q < Unread + n
        BY <2>2, <2>6, <2>8, <3>1, <3>2, PositionsRange
      <4>2. filled[readPos + q] = data[recvPacket][readPos + q]
        BY <4>1
      <4>. HIDE DEF filled
      <4>. QED  BY <2>2, <2>7, <2>10, <3>2, <4>1, <4>2 DEF StreamAt
    <3>3. CASE q >= Unread /\ q < Unread + n
      <4>1. /\ readPos + q \in Positions /\ readPos + q \in writePos .. writePos + n - 1
            /\ (readPos + q) - writePos + 1 = q - Unread + 1 /\ ~(q < Unread)
        BY <2>2, <2>6, <2>8, <3>1, <3>3, PositionsRange
      <4>2. filled[readPos + q] = wire[(readPos + q) - writePos + 1]
        BY <4>1
      <4>. HIDE DEF filled
      <4>3. StreamAt(q)' = data'[recvPacket'][readPos' + q]
        BY <2>7, <3>3 DEF StreamAt
      <4>4. StreamAt(q) = wire[q - Unread + 1]
        BY <4>1 DEF StreamAt
      <4>. QED  BY <2>2, <2>10, <4>1, <4>2, <4>3, <4>4
    <3>4. CASE q >= Unread + n
      <4>1. /\ ~(q < Unread) /\ ~(q < Unread + n)
            /\ q - (Unread + n) + 1 \in 1 .. Len(wire) - n
            /\ (q - (Unread + n) + 1) + n = q - Unread + 1
        BY <2>2, <2>6, <3>1, <3>4
      <4>2. StreamAt(q)' = wire'[q - (Unread + n) + 1]
        BY <2>7, <4>1 DEF StreamAt
      <4>3. StreamAt(q) = wire[q - Unread + 1]
        BY <4>1 DEF StreamAt
      <4>. QED  BY <2>7, <4>1, <4>2, <4>3
    <3>. QED  BY <2>2, <2>6, <3>1, <3>2, <3>3, <3>4
  <2>13. (Unread + Len(wire))' = Unread + Len(wire)
    <3>1. \A u, w \in Nat : (u + n) + (w - n) = u + w
      BY <2>2
    <3>. QED  BY <2>6, <2>7, <3>1
  <2>14. Laid(off, m)'
    BY <2>2, <2>4, <2>5, <2>12, <2>13, LaidKeeps
  <2>15. Stream'
    <3>1. NotWhole(m)'
      BY <2>2 DEF NotWhole
    <3>. QED  BY <2>11, <2>14, <3>1 DEF Stream
  <2>16. Filled' /\ AsSent'
    <3>1. DOMAIN filling'.packets = {}
      BY <2>3
    <3>. QED  BY <2>2, <3>1 DEF RInv, Filled, AsSent, Payload, WellFormed
  <2>. QED  BY <2>11, <2>15, <2>16 DEF RInv
<1>. QED  BY <1>1, <1>2

\* The message that is registered comes behind all the others.
LEMMA LinedGrows ==
  ASSUME IInv, OInv, RInv, NEW m \in Nat, Lined(m), NEW n \in Nat,
         UNCHANGED <<queue, handling, handled, dropped>>, pc' = pc,
         filling' \in PacketSets,
         DOMAIN filling.packets = 1 .. n, DOMAIN filling'.packets = 1 .. n + 1,
         \A j \in 1 .. n : filling'.packets[j] = filling.packets[j],
         filling'.packets[n + 1].msg = m
  PROVE  Lined(m + 1)'
<1>1. /\ \A k \in DOMAIN handled : handled[k].msg \in Nat
      /\ dropped \subseteq Nat
  <2>1. /\ handled \in Seq([msg : Nat, bytes : Seq(Byte)])
        /\ dropped \subseteq Nat
    BY DEF RInv, AsSent
  <2>2. \A k \in DOMAIN handled : handled[k] \in [msg : Nat, bytes : Seq(Byte)]
    BY <2>1, Element, Zenon
  <2>. QED  BY <2>1, <2>2
<1>2. ASSUME NEW s \in PacketSets, NEW j \in DOMAIN s.packets
      PROVE  s.packets[j].msg \in Nat
  <2>1. s.packets[j] \in [msg : Nat, from : Int, size : Int]
    BY SetParts, Element
  <2>. QED  BY <2>1
<1>3. ASSUME NEW s \in PacketSets, Fresh(s, m)
      PROVE  Fresh(s, m + 1)'
  BY <1>2, <1>3 DEF Fresh
<1>4. ASSUME NEW s \in PacketSets, Fresh(s, m), Before(s, filling)
      PROVE  Before(s, filling')
  <2>. SUFFICES ASSUME NEW i \in DOMAIN s.packets, NEW j \in 1 .. n + 1
                PROVE  s.packets[i].msg < filling'.packets[j].msg
    BY DEF Before
  <2>1. CASE j \in 1 .. n
    BY <1>4, <2>1 DEF Before
  <2>2. CASE j = n + 1
    BY <1>4, <2>2 DEF Fresh
  <2>. QED  BY <2>1, <2>2
<1>5. filling \in PacketSets /\ Fresh(filling, m) /\ m \notin dropped
  BY <1>1 DEF IInv, TypeOK, Lined, InOrder
<1>6. Fresh(filling, m + 1)'
  <2>. SUFFICES ASSUME NEW j \in 1 .. n + 1
                PROVE  /\ filling'.packets[j].msg \notin dropped
                       /\ filling'.packets[j].msg < m + 1
                       /\ \A k \in DOMAIN handled : handled[k].msg < filling'.packets[j].msg
                       /\ \A i \in 1 .. n + 1 : i < j =>
                            filling'.packets[i].msg < filling'.packets[j].msg
    BY DEF Fresh
  <2>1. CASE j \in 1 .. n
    <3>1. filling.packets[j].msg \in Nat
      BY <1>2, <1>5, <2>1
    <3>2. j \in DOMAIN filling.packets /\ filling'.packets[j] = filling.packets[j]
      BY <2>1
    <3>3. \A i \in 1 .. n + 1 : i < j =>
            i \in DOMAIN filling.packets /\ filling'.packets[i] = filling.packets[i]
      BY <2>1
    <3>. QED  BY <1>5, <3>1, <3>2, <3>3, SMTT(40) DEF Fresh
  <2>2. CASE j = n + 1
    <3>1. \A k \in DOMAIN handled : handled[k].msg < m
      BY DEF Lined, InOrder
    <3>2. \A i \in 1 .. n : filling'.packets[i].msg < m
      BY <1>5 DEF Fresh
    <3>. QED  BY <1>5, <2>2, <3>1, <3>2
  <2>. QED  BY <2>1, <2>2
<1>7. ASSUME NEW k \in DOMAIN queue
      PROVE  /\ Fresh(queue[k], m + 1)' /\ Before(queue[k], filling')
             /\ \A j \in DOMAIN queue : j < k => Before(queue[j], queue[k])
  <2>1. queue[k] \in PacketSets
    BY DEF OInv, Sets
  <2>2. /\ Fresh(queue[k], m) /\ Before(queue[k], filling)
        /\ \A j \in DOMAIN queue : j < k => Before(queue[j], queue[k])
    BY DEF Lined, InOrder
  <2>. QED  BY <1>3, <1>4, <2>1, <2>2
<1>8. ASSUME handling # <<>>
      PROVE  /\ Fresh(handling[1], m + 1)' /\ Before(handling[1], filling')
             /\ \A k \in DOMAIN queue : Before(handling[1], queue[k])
  <2>1. PICK s \in PacketSets : handling = <<s>>
    BY <1>8 DEF OInv, Sets
  <2>2. handling[1] = s
    BY <2>1
  <2>3. /\ Fresh(s, m) /\ Before(s, filling)
        /\ \A k \in DOMAIN queue : Before(s, queue[k])
    BY <1>8, <2>2 DEF Lined, InOrder
  <2>. QED  BY <1>3, <1>4, <2>2, <2>3
<1>9. InOrder(m + 1)'
  <2>0. /\ \A k \in DOMAIN handled : handled[k].msg \notin dropped /\ handled[k].msg < m
        /\ \A x \in dropped : x < m
    BY ZenonT(40) DEF Lined, InOrder
  <2>1. /\ \A k \in DOMAIN handled : handled[k].msg \notin dropped /\ handled[k].msg < m + 1
        /\ \A x \in dropped : x < m + 1
    BY <1>1, <2>0
  <2>. QED  BY <1>6, <1>7, <1>8, <2>1 DEF InOrder, Before
<1>10. ASSUME pc \notin {"rejected", "none"}, NEW x \in Nat \ {0}, x < m + 1
       PROVE  Somewhere(x)'
  <2>1. CASE x = m
    <3>1. Has(filling', m)
      BY DEF Has
    <3>. QED  BY <2>1, <3>1 DEF Somewhere
  <2>2. CASE x < m
    <3>1. Somewhere(x)
      BY <1>10, <2>2 DEF Lined
    <3>2. Has(filling, x) => Has(filling', x)
      BY DEF Has
    <3>. QED  BY <3>1, <3>2 DEF Somewhere, Has
  <2>. QED  BY <1>10, <2>1, <2>2
<1>. QED  BY <1>9, <1>10 DEF Lined

\* A packet that is registered is the next message, decoded once, and the stream
\* goes on behind it.
LEMMA ReadsRegisterPacket ==
  ASSUME IInv, OInv, RInv, RegisterPacket
  PROVE  RInv'
<1>1. CASE Len(filling.packets) >= eNET_PACKET_SET_MAX_COUNT
  BY <1>1, ReadsStutter DEF RegisterPacket, Crash
<1>2. CASE ~(Len(filling.packets) >= eNET_PACKET_SET_MAX_COUNT)
  <2>1. PICK m \in Nat :
          /\ Lined(m) /\ NotWhole(m)
          /\ pc \in Active => \E off : Laid(off, m)
    BY DEF RInv, Stream
  <2>2. pc = "register" /\ pc \in Active /\ ~isSmallerThanHeaderSize
    BY DEF RegisterPacket, Active
  <2>3. PICK off : Laid(off, m)
    BY <2>1, <2>2
  <2>4. /\ m \in 1 .. Len(sent) /\ HeaderAt = m /\ packetSize = sent[m].size
        /\ off[m + 1] = eNET_HEADER_SIZE + sent[m].size
        /\ \A i \in 1 .. eNET_HEADER_SIZE + sent[m].size :
             i <= Unread => ByteAt(readPos + i - 1) = [msg |-> m, at |-> i, plain |-> FALSE]
    BY <2>2, <2>3, HeaderIsNext
  <2>5. PICK z \in Nat : z = sent[m].size
    BY <2>2, <2>3, HeaderIsNext
  <2>6. /\ Unread \in Nat /\ Len(wire) \in Nat /\ Unread = writePos - readPos
        /\ readPos \in Nat /\ writePos \in Nat /\ readPos <= writePos
        /\ recvPacket \in Buffers /\ Len(sent) \in Nat /\ DOMAIN sent = 1 .. Len(sent)
    BY <2>2, Lengths
  <2>7. eNET_HEADER_SIZE + z <= Unread
    <3>1. ~(Unread - eNET_HEADER_SIZE < z)
      BY <2>4, <2>5 DEF RegisterPacket, IsPart, GetUsedSize, Unread
    <3>. QED  BY <2>6, <3>1
  <2>8. writePos < end
    BY <2>2 DEF IInv, AtWork
  <2>9. PICK r \in Nat : r = readPos
    BY <2>6
  <2>. \A x \in Nat : x + (eNET_HEADER_SIZE + z) = x + eNET_HEADER_SIZE + z
    OBVIOUS
  <2> DEFINE packet  == [msg |-> m, from |-> r + eNET_HEADER_SIZE, size |-> z]
             decoded == [p \in Positions |->
                           IF p - r + 1 \in eNET_HEADER_SIZE .. eNET_HEADER_SIZE + z
                           THEN [data[recvPacket][p] EXCEPT !.plain = TRUE]
                           ELSE data[recvPacket][p]]
  <2>10. /\ readPos' = r + eNET_HEADER_SIZE + z /\ pc' = "register"
         /\ data' = [data EXCEPT ![recvPacket] = decoded]
         /\ filling' = [filling EXCEPT !.packets = Append(filling.packets, packet)]
         /\ UNCHANGED <<sent, wire, recvPacket, writePos, queue, handling, handled, dropped>>
    BY <1>2, <2>4, <2>5, <2>9 DEF RegisterPacket, Decoded
  <2>11. /\ \A b \in Buffers : b # recvPacket => data'[b] = data[b]
         /\ data'[recvPacket] = decoded
    <3>1. data \in [Buffers -> [Positions -> Byte]]
      BY DEF IInv, TypeOK
    <3>. HIDE DEF decoded, packet
    <3>. QED  BY <2>6, <2>10, <3>1
  <2>12. /\ \A p \in Positions :
               p < r \/ p >= r + eNET_HEADER_SIZE + z => data'[recvPacket][p] = data[recvPacket][p]
         /\ \A i \in 1 .. z :
               data'[recvPacket][r + eNET_HEADER_SIZE + i - 1]
                 = [msg |-> m, at |-> eNET_HEADER_SIZE + i, plain |-> TRUE]
    <3>1. ASSUME NEW p \in Positions, p < r \/ p >= r + eNET_HEADER_SIZE + z
          PROVE  decoded[p] = data[recvPacket][p]
      <4>1. p - r + 1 \notin eNET_HEADER_SIZE .. eNET_HEADER_SIZE + z
        BY <3>1, PositionsRange
      <4>. QED  BY <4>1
    <3>2. ASSUME NEW i \in 1 .. z
          PROVE  decoded[r + eNET_HEADER_SIZE + i - 1]
                   = [msg |-> m, at |-> eNET_HEADER_SIZE + i, plain |-> TRUE]
      <4>1. PICK p : p = r + eNET_HEADER_SIZE + i - 1
        OBVIOUS
      <4>2. /\ p \in Positions /\ p - r + 1 \in eNET_HEADER_SIZE .. eNET_HEADER_SIZE + z
            /\ eNET_HEADER_SIZE + i \in 1 .. eNET_HEADER_SIZE + z
            /\ eNET_HEADER_SIZE + i <= Unread
            /\ p = readPos + (eNET_HEADER_SIZE + i) - 1
        BY <2>6, <2>7, <2>8, <2>9, <4>1, PositionsRange
      <4>3. data[recvPacket][p] = [msg |-> m, at |-> eNET_HEADER_SIZE + i, plain |-> FALSE]
        BY <2>4, <2>5, <4>2 DEF ByteAt
      <4>4. decoded[p] = [data[recvPacket][p] EXCEPT !.plain = TRUE]
        BY <4>2
      <4>. HIDE DEF decoded
      <4>5. data[recvPacket][p] \in Byte
        BY <2>6, <4>2 DEF IInv, TypeOK
      <4>6. /\ data[recvPacket][p].msg = m
            /\ data[recvPacket][p].at = eNET_HEADER_SIZE + i
        BY <4>3
      <4>7. [data[recvPacket][p] EXCEPT !.plain = TRUE]
              = [msg |-> data[recvPacket][p].msg, at |-> data[recvPacket][p].at,
                 plain |-> TRUE]
        BY <4>5, DecodedByte
      <4>. QED  BY ONLY <4>1, <4>4, <4>6, <4>7
    <3>. HIDE DEF decoded
    <3>. QED  BY <2>11, <3>1, <3>2
  <2>. HIDE DEF decoded
  <2>13. /\ filling \in PacketSets /\ filling.originalPacket = recvPacket
         /\ filling.packets \in Seq([msg : Nat, from : Int, size : Int])
         /\ Len(filling.packets) \in Nat /\ DOMAIN filling.packets = 1 .. Len(filling.packets)
    BY <2>2, SetParts DEF IInv, TypeOK, OInv, FillingOwned
  <2>14. PICK n \in Nat : n = Len(filling.packets)
    BY <2>13
  <2>15. packet \in [msg : Nat, from : Int, size : Int]
    BY <2>9
  <2>16. /\ filling'.originalPacket = recvPacket /\ Len(filling'.packets) = n + 1
         /\ DOMAIN filling'.packets = 1 .. n + 1
         /\ \A j \in 1 .. n : filling'.packets[j] = filling.packets[j]
         /\ filling'.packets[n + 1] = packet
    <3>1. /\ filling'.packets = Append(filling.packets, packet)
          /\ filling'.originalPacket = filling.originalPacket
      BY <2>10, <2>13 DEF PacketSets
    <3>. HIDE DEF packet
    <3>2. /\ Len(Append(filling.packets, packet)) = n + 1
          /\ DOMAIN Append(filling.packets, packet) = 1 .. n + 1
          /\ \A j \in 1 .. n : Append(filling.packets, packet)[j] = filling.packets[j]
          /\ Append(filling.packets, packet)[n + 1] = packet
      BY <2>13, <2>14, <2>15
    <3>. QED  BY <2>13, <3>1, <3>2
  <2>18. Sound(data', sent', filling')
    <3>. SUFFICES ASSUME NEW j \in 1 .. n + 1
                  PROVE  Reads(data', sent', recvPacket, filling'.packets[j])
      BY <2>16 DEF Sound
    <3>1. CASE j \in 1 .. n
      <4>0. filling.packets[j] \in [msg : Nat, from : Int, size : Int]
        <5>1. j \in DOMAIN filling.packets
          BY <2>13, <2>14, <3>1
        <5>. QED  BY <2>13, <5>1, Element, Zenon
      <4>1. PICK p \in [msg : Nat, from : Int, size : Int] : p = filling.packets[j]
        BY <4>0
      <4>2. Reads(data, sent, recvPacket, p)
        BY <2>13, <2>14, <3>1, <4>1 DEF RInv, AllSound, Sound
      <4>3. p.from + p.size <= r /\ p.from \in Int /\ p.size \in Int
        BY <2>2, <2>9, <2>13, <2>14, <3>1, <4>1 DEF RInv, Filled
      <4>4. ASSUME NEW i \in 1 .. p.size
            PROVE  data'[recvPacket][p.from + i - 1] = data[recvPacket][p.from + i - 1]
        <5>1. 0 <= p.from /\ p.from + p.size <= end
          BY <4>2 DEF Reads
        <5>2. p.from + i - 1 \in Positions /\ p.from + i - 1 < r
          BY <4>3, <4>4, <5>1, PositionsRange
        <5>. QED  BY <2>12, <5>2
      <4>5. Reads(data', sent', recvPacket, p)
        BY <2>10, <4>2, <4>4 DEF Reads
      <4>. QED  BY <2>16, <3>1, <4>1, <4>5
    <3>2. CASE j = n + 1
      <4>2. packet.msg = m /\ packet.from = r + eNET_HEADER_SIZE /\ packet.size = z
        OBVIOUS
      <4>3. r + eNET_HEADER_SIZE + z <= end /\ 0 <= r + eNET_HEADER_SIZE
        BY <2>6, <2>7, <2>8, <2>9, PositionsRange
      <4>. HIDE DEF packet
      <4>4. Reads(data', sent', recvPacket, packet)
        BY <2>4, <2>5, <2>6, <2>10, <2>12, <4>2, <4>3 DEF Reads
      <4>. QED  BY <2>16, <3>2, <4>4
    <3>. QED  BY <3>1, <3>2
  <2>17. AllSound'
    <3>1. /\ sent' \in Seq(Messages) /\ Len(sent) <= Len(sent')
          /\ \A k \in DOMAIN sent : sent'[k] = sent[k]
      BY <2>10 DEF IInv, TypeOK
    <3>2. /\ \A k \in DOMAIN queue :
               data'[queue[k].originalPacket] = data[queue[k].originalPacket]
          /\ handling # <<>> =>
               data'[handling[1].originalPacket] = data[handling[1].originalPacket]
      BY <2>11 DEF OInv, Owned
    <3>. QED  BY <2>10, <2>18, <3>1, <3>2, HandedSound DEF RInv, AllSound
  <2>19. Lined(m + 1)'
    <3>1. m \in Nat /\ filling' \in PacketSets /\ packet.msg = m
      <4>1. packet \in [msg : Nat, from : Int, size : Int] /\ packet.msg = m
        BY <2>15
      <4>. HIDE DEF packet
      <4>2. Append(filling.packets, packet) \in Seq([msg : Nat, from : Int, size : Int])
        BY <2>13, <4>1
      <4>. QED  BY <2>10, <2>13, <4>1, <4>2 DEF PacketSets
    <3>. HIDE DEF packet
    <3>2. filling'.packets[n + 1].msg = m
      BY <2>16, <3>1
    <3>. QED  BY <2>1, <2>2, <2>10, <2>13, <2>14, <2>16, <3>1, <3>2, LinedGrows
  <2>20. PICK d \in Nat \ {0} : d = eNET_HEADER_SIZE + z
    BY <2>5
  <2>21. \A k \in m + 1 .. Len(sent) + 1 : off[k] >= d
    <3>. SUFFICES ASSUME NEW k \in m + 1 .. Len(sent) + 1 PROVE off[k] >= d
      OBVIOUS
    <3>1. /\ m + 1 \in m .. Len(sent) + 1 /\ k \in m .. Len(sent) + 1 /\ m + 1 <= k
          /\ m + 1 \in Nat /\ k \in Nat
      BY <2>4, <2>6
    <3>2. off[m + 1] <= off[k] /\ off[m + 1] \in Nat /\ off[k] \in Nat
      BY <2>3, <3>1 DEF Laid
    <3>3. off[m + 1] = d
      BY <2>4, <2>5, <2>20
    <3>. QED  BY <3>2, <3>3
  <2>22. PICK next : /\ \A k \in Nat : next[k] \in Nat
                     /\ \A k \in m + 1 .. Len(sent) + 1 : next[k] = off[k] - d
    <3> DEFINE g == [k \in Nat |-> IF k \in m + 1 .. Len(sent) + 1 THEN off[k] - d ELSE 0]
    <3>1. \A k \in m + 1 .. Len(sent) + 1 : off[k] - d \in Nat /\ k \in Nat
      <4>1. \A k \in Nat : off[k] \in Nat
        BY <2>3 DEF Laid
      <4>. QED  BY <2>4, <2>6, <2>21, <4>1
    <3>2. \A k \in Nat : g[k] \in Nat
      BY <3>1
    <3>3. \A k \in m + 1 .. Len(sent) + 1 : g[k] = off[k] - d
      BY <3>1
    <3>. HIDE DEF g
    <3>. QED  BY <3>2, <3>3
  <2>23. Laid(next, m + 1)'
    <3>1. /\ Len(wire') = Len(wire) /\ Unread' = Unread - d /\ Len(sent') = Len(sent)
          /\ d <= Unread
      <4>1. Unread' = writePos - (r + eNET_HEADER_SIZE + z)
        BY <2>10 DEF Unread
      <4>2. writePos - (r + eNET_HEADER_SIZE + z) = (writePos - r) - d
        BY <2>6, <2>20
      <4>. QED  BY <2>6, <2>7, <2>9, <2>10, <2>20, <4>1, <4>2
    <3>2. m + 1 \in 1 .. Len(sent) + 1
      BY <2>4, <2>6
    <3>3. next[m + 1] = 0 /\ next[Len(sent) + 1] = (Unread - d) + Len(wire)
      <4>1. m + 1 \in m + 1 .. Len(sent) + 1 /\ Len(sent) + 1 \in m + 1 .. Len(sent) + 1
        BY <2>4, <2>6
      <4>2. off[Len(sent) + 1] = Unread + Len(wire)
        BY <2>3 DEF Laid
      <4>3. off[m + 1] = d
        BY <2>4, <2>5, <2>20
      <4>4. next[m + 1] = off[m + 1] - d /\ next[Len(sent) + 1] = off[Len(sent) + 1] - d
        BY <2>22, <4>1
      <4>5. d - d = 0 /\ (Unread + Len(wire)) - d = (Unread - d) + Len(wire)
        BY <2>6
      <4>. QED  BY ONLY <4>2, <4>3, <4>4, <4>5
    <3>4. ASSUME NEW k \in m + 1 .. Len(sent)
          PROVE  /\ next[k + 1] = next[k] + eNET_HEADER_SIZE + sent[k].size
                 /\ next[k] = off[k] - d /\ off[k] \in Nat /\ off[k] >= d
                 /\ k \in m .. Len(sent) /\ sent[k].size \in Nat
      <4>1. /\ k \in m .. Len(sent) /\ k \in m + 1 .. Len(sent) + 1
            /\ k + 1 \in m + 1 .. Len(sent) + 1 /\ k \in Nat /\ k \in 1 .. Len(sent)
        BY <2>4, <2>6
      <4>2. off[k + 1] = off[k] + eNET_HEADER_SIZE + sent[k].size /\ off[k] \in Nat
        BY <2>3, <4>1 DEF Laid
      <4>3. sent[k].size \in Nat
        BY <2>2, <4>1, Lengths
      <4>4. next[k] = off[k] - d /\ next[k + 1] = off[k + 1] - d /\ off[k] >= d
        BY <2>21, <2>22, <4>1
      <4>. QED  BY <4>1, <4>2, <4>3, <4>4
    <3>5. ASSUME NEW j \in m + 1 .. Len(sent) + 1, NEW k \in m + 1 .. Len(sent) + 1, j <= k
          PROVE  next[j] <= next[k]
      <4>1. /\ j \in m .. Len(sent) + 1 /\ k \in m .. Len(sent) + 1
            /\ j \in Nat /\ k \in Nat
        BY <2>4, <2>6
      <4>2. off[j] <= off[k] /\ off[j] \in Nat /\ off[k] \in Nat
        BY <2>3, <3>5, <4>1 DEF Laid
      <4>. QED  BY <2>22, <4>2
    <3>6. ASSUME NEW k \in m + 1 .. Len(sent), NEW i \in 1 .. eNET_HEADER_SIZE + sent[k].size
          PROVE  StreamAt(next[k] + i - 1)' = [msg |-> k, at |-> i, plain |-> FALSE]
      <4>1. PICK q : q = off[k] + i - 1
        OBVIOUS
      <4>2. q \in 0 .. Unread + Len(wire) - 1
        BY <2>2, <2>3, <3>4, <3>6, <4>1, InStream
      <4>3. StreamAt(q) = [msg |-> k, at |-> i, plain |-> FALSE]
        BY <2>3, <3>4, <3>6, <4>1 DEF Laid
      <4>4. q \in Nat /\ q >= d /\ next[k] + i - 1 = q - d /\ q <= Unread + Len(wire) - 1
        <5>1. i \in Nat /\ 1 <= i
          BY <3>4
        <5>. QED  BY <2>6, <3>4, <4>1, <4>2, <5>1, SMTT(30)
      <4>5. StreamAt(q - d)' = StreamAt(q)
        <5>1. q - d < Unread - d <=> q < Unread
          BY <2>6, <4>4
        <5>2. CASE q < Unread
          <6>1. /\ readPos' + (q - d) = readPos + q /\ readPos + q \in Positions
                /\ readPos + q >= r + eNET_HEADER_SIZE + z
            <7>1. /\ readPos + q \in Positions /\ readPos + q >= readPos + d
              BY <2>6, <2>8, <4>4, <5>2, PositionsRange
            <7>2. readPos' = readPos + d
              BY <2>9, <2>10, <2>20
            <7>3. (readPos + d) + (q - d) = readPos + q
              BY <2>6, <4>4
            <7>. QED  BY <2>9, <2>20, <7>1, <7>2, <7>3
          <6>2. StreamAt(q - d)' = data'[recvPacket'][readPos' + (q - d)]
            BY <3>1, <5>1, <5>2 DEF StreamAt
          <6>3. StreamAt(q) = data[recvPacket][readPos + q]
            BY <5>2 DEF StreamAt
          <6>. QED  BY <2>10, <2>12, <6>1, <6>2, <6>3
        <5>3. CASE ~(q < Unread)
          <6>1. (q - d) - (Unread - d) + 1 = q - Unread + 1
            BY <2>6, <4>4
          <6>2. StreamAt(q - d)' = wire'[(q - d) - (Unread - d) + 1]
            BY <3>1, <5>1, <5>3 DEF StreamAt
          <6>. QED  BY <2>10, <5>3, <6>1, <6>2 DEF StreamAt
        <5>. QED  BY <5>2, <5>3
      <4>. QED  BY <4>3, <4>4, <4>5
    <3>. QED
      BY <2>10, <2>22, <3>1, <3>2, <3>3, <3>4, <3>5, <3>6, Zenon DEF Laid
  <2>24. Stream'
    <3>1. NotWhole(m + 1)'
      BY <2>10 DEF NotWhole
    <3>2. m + 1 \in Nat
      OBVIOUS
    <3>. QED  BY <2>19, <2>23, <3>1, <3>2, Zenon DEF Stream
  <2>25. Filled'
    <3>. SUFFICES ASSUME NEW j \in 1 .. n + 1
                  PROVE  filling'.packets[j].from + filling'.packets[j].size <= readPos'
      BY <2>16 DEF Filled
    <3>1. CASE j \in 1 .. n
      <4>0. filling.packets[j] \in [msg : Nat, from : Int, size : Int]
        <5>1. j \in DOMAIN filling.packets
          BY <2>13, <2>14, <3>1
        <5>. QED  BY <2>13, <5>1, Element, Zenon
      <4>1. PICK p \in [msg : Nat, from : Int, size : Int] : p = filling.packets[j]
        BY <4>0
      <4>2. p.from + p.size <= r /\ p.from \in Int /\ p.size \in Int
        BY <2>2, <2>9, <2>13, <2>14, <3>1, <4>1 DEF RInv, Filled
      <4>3. p.from + p.size <= r + eNET_HEADER_SIZE + z
        BY <4>2
      <4>. QED  BY <2>10, <2>16, <3>1, <4>1, <4>3
    <3>2. CASE j = n + 1
      <4>1. packet.from + packet.size <= r + eNET_HEADER_SIZE + z
        OBVIOUS
      <4>. HIDE DEF packet
      <4>. QED  BY <2>10, <2>16, <3>2, <4>1
    <3>. QED  BY <3>1, <3>2
  <2>26. AsSent'
    BY <2>2, <2>10 DEF RInv, AsSent, Payload, WellFormed
  <2>. QED  BY <2>17, <2>24, <2>25, <2>26 DEF RInv
<1>. QED  BY <1>1, <1>2

\* Registering only stops short of the next message when that one is wrong, or
\* when it is not whole.
LEMMA ReadsRejectStream ==
  ASSUME IInv, OInv, RInv, RejectStream
  PROVE  RInv'
<1>1. PICK m \in Nat :
        /\ Lined(m) /\ NotWhole(m)
        /\ pc \in Active => \E off : Laid(off, m)
  BY DEF RInv, Stream
<1>2. pc = "register" /\ pc \in Active /\ ~isSmallerThanHeaderSize
  BY DEF RejectStream, Active
<1>3. PICK off : Laid(off, m)
  BY <1>1, <1>2
<1>4. /\ m \in 1 .. Len(sent) /\ HeaderAt = m /\ packetSize = sent[m].size
      /\ sent[m] \in Messages /\ sent[m].size \in Nat
      /\ \A i \in 1 .. eNET_HEADER_SIZE + sent[m].size :
           i <= Unread => ByteAt(readPos + i - 1) = [msg |-> m, at |-> i, plain |-> FALSE]
  BY <1>2, <1>3, HeaderIsNext
<1>5. Unread \in Nat /\ DOMAIN sent = 1 .. Len(sent)
  BY <1>2, Lengths
<1>6. ~WellFormed(sent[m])
  <2>. SUFFICES ASSUME WellFormed(sent[m]) PROVE FALSE
    OBVIOUS
  <2>1. sent[m].kind = "good" /\ CodeIsRight /\ ~SizeIsTooLarge
    BY <1>4 DEF WellFormed, CodeIsRight, SizeIsTooLarge
  <2>2. ~IsPart /\ ~SumIsRight
    BY <2>1 DEF RejectStream
  <2>3. eNET_HEADER_SIZE + sent[m].size <= Unread
    <3>1. ~(Unread - eNET_HEADER_SIZE < sent[m].size)
      BY <1>4, <2>2 DEF IsPart, GetUsedSize, Unread
    <3>. QED  BY <1>4, <1>5, <3>1
  <2>4. ASSUME NEW i \in eNET_HEADER_SIZE .. eNET_HEADER_SIZE + sent[m].size
        PROVE  ByteAt(readPos + i - 1) = [msg |-> m, at |-> i, plain |-> FALSE]
    <3>1. i \in 1 .. eNET_HEADER_SIZE + sent[m].size /\ i <= Unread
      BY <1>4, <1>5, <2>3, <2>4
    <3>. QED  BY <1>4, <3>1
  <2>5. SumIsRight
    BY <1>4, <2>1, <2>4 DEF SumIsRight
  <2>. QED  BY <2>2, <2>5
<1>7. /\ filling' = EmptySet /\ pc' = "rejected"
      /\ UNCHANGED <<sent, data, queue, handling, handled, dropped>>
  BY DEF RejectStream
<1>9. Lined(m)' /\ AllSound'
  <2>1. DOMAIN filling'.packets = {}
    BY <1>7 DEF EmptySet
  <2>2. AllSound'
    BY <1>7, <2>1 DEF RInv, AllSound, Sound
  <2>3. Lined(m)'
    BY <1>1, <1>7, <2>1 DEF Lined, InOrder, Fresh, Before
  <2>. QED  BY <2>2, <2>3
<1>10. Stream'
  <2>1. NotWhole(m)' /\ pc' \notin Active
    BY <1>7 DEF NotWhole, Active
  <2>. QED  BY <1>9, <2>1 DEF Stream
<1>11. Filled' /\ AsSent'
  BY <1>4, <1>5, <1>6, <1>7 DEF RInv, Filled, AsSent, Payload, WellFormed
<1>. QED  BY <1>9, <1>10, <1>11 DEF RInv

\* Registering stops at a message that is not whole.
LEMMA ReadsStopRegistering ==
  ASSUME IInv, OInv, RInv, StopRegistering
  PROVE  RInv'
<1>1. PICK m \in Nat :
        /\ Lined(m) /\ NotWhole(m)
        /\ pc \in Active => \E off : Laid(off, m)
  BY DEF RInv, Stream
<1>2. /\ pc = "register" /\ pc' = "copy" /\ pc \in Active
      /\ UNCHANGED <<sent, wire, data, recvPacket, readPos, writePos, filling, queue,
                     handling, handled, dropped>>
  BY DEF StopRegistering, Active
<1>3. PICK off : Laid(off, m)
  BY <1>1, <1>2
<1>4. Unread \in Nat /\ sent \in Seq(Messages) /\ eNET_HEADER_SIZE \in Nat
  BY <1>2, Lengths
<1>5. ASSUME m <= Len(sent)
      PROVE  Unread < eNET_HEADER_SIZE + sent[m].size
  <2>1. m \in 1 .. Len(sent) /\ sent[m].size \in Nat
    BY <1>2, <1>3, <1>5, Lengths DEF Laid
  <2>2. CASE isSmallerThanHeaderSize
    BY <1>4, <2>1, <2>2 DEF isSmallerThanHeaderSize, GetUsedSize, Unread
  <2>3. CASE ~isSmallerThanHeaderSize
    <3>1. packetSize = sent[m].size /\ IsPart
      BY <1>2, <1>3, <2>3, HeaderIsNext DEF StopRegistering
    <3>2. Unread - eNET_HEADER_SIZE < sent[m].size
      BY <3>1 DEF IsPart, GetUsedSize, Unread
    <3>. QED  BY <1>4, <2>1, <3>2
  <2>. QED  BY <2>2, <2>3
<1>6. NotWhole(m)'
  BY <1>2, <1>5 DEF NotWhole, Unread
<1>7. Lined(m)' /\ AllSound'
  <2>1. AllSound'
    BY <1>2, <1>4, SoundStays DEF RInv
  <2>. QED  BY <1>1, <1>2, <2>1, LinedKeeps
<1>8. Laid(off, m)'
  BY <1>2, <1>3, LaidKeeps DEF StreamAt, Unread
<1>9. Stream'
  BY <1>6, <1>7, <1>8 DEF Stream
<1>10. Filled' /\ AsSent'
  BY <1>2 DEF RInv, Filled, AsSent, Payload, WellFormed
<1>. QED  BY <1>7, <1>9, <1>10 DEF RInv

\* A buffer without a packet is kept as it is.
LEMMA ReadsKeepPacket ==
  ASSUME IInv, OInv, RInv, KeepPacket
  PROVE  RInv'
<1>1. /\ pc = "copy" /\ pc' = "post" /\ readPos' = readPos
      /\ filling.packets = <<>> /\ filling'.packets = <<>>
      /\ UNCHANGED <<sent, wire, data, recvPacket, writePos, queue, handling, handled,
                     dropped>>
  BY DEF KeepPacket, EmptySet, IInv, AtWork
<1>. QED  BY <1>1, ReadsStutter

\* The rest is copied to where nobody has a packet.
LEMMA ReadsCopyRemainder ==
  ASSUME IInv, OInv, RInv, NEW b \in Buffers, CopyRemainder(b)
  PROVE  RInv'
<1>1. CASE GetUsedSize > eBUFFER_CENTER
  BY <1>1, ReadsStutter DEF CopyRemainder, Crash
<1>2. CASE ~(GetUsedSize > eBUFFER_CENTER)
  <2>1. PICK m \in Nat :
          /\ Lined(m) /\ NotWhole(m)
          /\ pc \in Active => \E off : Laid(off, m)
    BY DEF RInv, Stream
  <2>2. pc = "copy" /\ pc \in Active /\ b \in pool
    BY Zenon DEF CopyRemainder, Active
  <2>3. PICK off : Laid(off, m)
    BY <2>1, <2>2
  <2>4. /\ Unread \in Nat /\ Len(wire) \in Nat /\ Unread = writePos - readPos
        /\ readPos \in Nat /\ writePos \in Nat /\ readPos <= writePos
        /\ recvPacket \in Buffers /\ sent \in Seq(Messages)
    BY <2>2, Lengths
  <2>5. PICK u \in Nat : u = Unread
    BY <2>4
  <2>6. GetUsedSize = u /\ u <= start
    BY <1>2, <2>4, <2>5 DEF GetUsedSize, Unread, start
  <2> DEFINE copied == [p \in Positions |->
                          IF p \in start - u .. start - 1
                          THEN data[recvPacket][readPos + (p - (start - u))]
                          ELSE data[b][p]]
  <2>7. /\ pc' = "handover" /\ recvPacket' = b
        /\ readPos' = start - u /\ writePos' = start
        /\ data' = [data EXCEPT ![b] = copied]
        /\ UNCHANGED <<sent, wire, filling, queue, handling, handled, dropped>>
    BY <1>2, <2>6 DEF CopyRemainder, ByteAt
  <2>8. /\ \A c \in Buffers : c # b => data'[c] = data[c]
        /\ data'[b] = copied
    <3>1. data \in [Buffers -> [Positions -> Byte]]
      BY DEF IInv, TypeOK
    <3>. HIDE DEF copied
    <3>. QED  BY <2>7, <3>1
  <2>9. ASSUME NEW q \in 0 .. u - 1
        PROVE  copied[(start - u) + q] = data[recvPacket][readPos + q]
    <3>1. /\ (start - u) + q \in Positions /\ (start - u) + q \in start - u .. start - 1
          /\ readPos + (((start - u) + q) - (start - u)) = readPos + q
      BY <2>4, <2>6, PositionsRange
    <3>. QED  BY <3>1
  <2>. HIDE DEF copied
  <2>10. Lined(m)' /\ AllSound'
    <3>1. /\ \A k \in DOMAIN queue :
               data'[queue[k].originalPacket] = data[queue[k].originalPacket]
          /\ handling # <<>> =>
               data'[handling[1].originalPacket] = data[handling[1].originalPacket]
      BY <2>2, <2>8 DEF OInv, Owned
    <3>2. data'[filling.originalPacket] = data[filling.originalPacket]
      BY <2>2, <2>4, <2>8 DEF OInv, Owned, FillingOwned
    <3>3. /\ sent' \in Seq(Messages) /\ Len(sent) <= Len(sent')
          /\ \A k \in DOMAIN sent : sent'[k] = sent[k]
      BY <2>4, <2>7
    <3>4. AllSound'
      BY <2>7, <3>1, <3>2, <3>3, SoundStays DEF RInv
    <3>. QED  BY <2>1, <2>2, <2>7, <3>4, LinedKeeps
  <2>11. Unread' = Unread /\ Unread' = u
    <3>1. start - (start - u) = u
      BY PositionsRange
    <3>. QED  BY <2>5, <2>7, <3>1 DEF Unread
  <2>12. \A q \in 0 .. Unread + Len(wire) - 1 : StreamAt(q)' = StreamAt(q)
    <3>. SUFFICES ASSUME NEW q \in 0 .. Unread + Len(wire) - 1
                  PROVE  StreamAt(q)' = StreamAt(q)
      OBVIOUS
    <3>1. CASE q < Unread
      <4>1. q \in 0 .. u - 1
        BY <2>4, <2>5, <3>1
      <4>2. StreamAt(q)' = data'[recvPacket'][readPos' + q]
        BY <2>11, <3>1 DEF StreamAt
      <4>3. StreamAt(q) = data[recvPacket][readPos + q]
        BY <3>1 DEF StreamAt
      <4>. QED  BY <2>7, <2>8, <2>9, <4>1, <4>2, <4>3
    <3>2. CASE ~(q < Unread)
      BY <2>7, <2>11, <3>2 DEF StreamAt
    <3>. QED  BY <3>1, <3>2
  <2>13. Laid(off, m)'
    <3>1. (Unread + Len(wire))' = Unread + Len(wire)
      BY <2>7, <2>11
    <3>. QED  BY <2>2, <2>3, <2>7, <2>12, <3>1, LaidKeeps
  <2>14. NotWhole(m)'
    BY <2>1, <2>2, <2>7, <2>11 DEF NotWhole
  <2>15. Stream'
    BY <2>10, <2>13, <2>14 DEF Stream
  <2>16. Filled' /\ AsSent'
    BY <2>7 DEF RInv, Filled, AsSent, Payload, WellFormed
  <2>. QED  BY <2>10, <2>15, <2>16 DEF RInv
<1>. QED  BY <1>1, <1>2

-----------------------------------------------------------------------------
\* Steps of the handler leave the stream and the session's buffer.
LEMMA StreamStays ==
  ASSUME IInv, NEW m \in Nat, NotWhole(m), pc \in Active => \E off : Laid(off, m),
         UNCHANGED <<sent, wire, recvPacket, readPos, writePos>>,
         data'[recvPacket] = data[recvPacket],
         pc' = pc \/ (pc = "handover" /\ pc' = "post")
  PROVE  /\ NotWhole(m)'
         /\ pc' \in Active => \E off : Laid(off, m)'
<1>1. NotWhole(m)'
  BY DEF NotWhole, Unread
<1>2. ASSUME pc' \in Active PROVE \E off : Laid(off, m)'
  <2>1. pc \in Active
    BY <1>2 DEF Active
  <2>2. PICK off : Laid(off, m)
    BY <2>1
  <2>3. Laid(off, m)'
    BY <2>1, <2>2, LaidKeeps DEF StreamAt, Unread
  <2>. QED  BY <2>3
<1>. QED  BY <1>1, <1>2

\* The set that is handed over goes behind those in the queue.
LEMMA ReadsHandOver ==
  ASSUME IInv, OInv, RInv, HandOver
  PROVE  RInv'
<1>1. PICK m \in Nat :
        /\ Lined(m) /\ NotWhole(m)
        /\ pc \in Active => \E off : Laid(off, m)
  BY DEF RInv, Stream
<1>2. /\ pc = "handover" /\ pc' = "post" /\ filling' = EmptySet
      /\ queue' = Append(queue, filling)
      /\ UNCHANGED <<sent, wire, data, recvPacket, readPos, writePos, handling, handled,
                     dropped>>
  BY DEF HandOver
<1>3. PICK l \in Nat : l = Len(queue)
  BY DEF OInv, Sets
<1>4. /\ DOMAIN queue = 1 .. l /\ DOMAIN queue' = 1 .. l + 1
      /\ \A k \in 1 .. l : queue'[k] = queue[k]
      /\ queue'[l + 1] = filling
  <2>1. queue \in Seq(PacketSets) /\ filling \in PacketSets
    BY DEF OInv, Sets, IInv, TypeOK
  <2>. QED  BY <1>2, <1>3, <2>1
<1>5. DOMAIN filling'.packets = {}
  BY <1>2 DEF EmptySet
<1>6. AllSound'
  <2>1. \A k \in 1 .. l + 1 : Sound(data, sent, queue'[k])
    BY <1>4 DEF RInv, AllSound
  <2>2. Sound(data', sent', filling')
    BY <1>5 DEF Sound
  <2>. QED  BY <1>2, <1>4, <2>1, <2>2 DEF RInv, AllSound
<1>7. InOrder(m)'
  <2>1. ASSUME NEW k \in 1 .. l + 1
        PROVE  /\ Fresh(queue'[k], m)
               /\ \A j \in 1 .. l + 1 : j < k => Before(queue'[j], queue'[k])
    <3>1. CASE k = l + 1
      BY <1>1, <1>4, <3>1 DEF Lined, InOrder
    <3>2. CASE k \in 1 .. l
      BY <1>1, <1>4, <3>2 DEF Lined, InOrder
    <3>. QED  BY <2>1, <3>1, <3>2
  <2>2. ASSUME handling # <<>>, NEW k \in 1 .. l + 1
        PROVE  Before(handling[1], queue'[k])
    <3>1. CASE k = l + 1
      BY <1>1, <1>4, <2>2, <3>1 DEF Lined, InOrder
    <3>2. CASE k \in 1 .. l
      BY <1>1, <1>4, <2>2, <3>2 DEF Lined, InOrder
    <3>. QED  BY <2>2, <3>1, <3>2
  <2>3. Fresh(filling, m)' /\ \A s : Before(s, filling')
    BY <1>5 DEF Fresh, Before
  <2>4. \A s : Fresh(s, m)' = Fresh(s, m)
    BY <1>2 DEF Fresh
  <2>5. /\ handling # <<>> => Fresh(handling[1], m)
        /\ \A k \in DOMAIN handled : handled[k].msg \notin dropped /\ handled[k].msg < m
        /\ \A n \in dropped : n < m
    BY <1>1 DEF Lined, InOrder
  <2>. QED  BY <1>2, <1>4, <2>1, <2>2, <2>3, <2>4, <2>5 DEF InOrder
<1>8. ASSUME NEW n \in Nat \ {0}, n < m
      PROVE  Somewhere(n)'
  <2>1. Somewhere(n)
    BY <1>1, <1>2, <1>8 DEF Lined
  <2>2. (\E k \in DOMAIN queue : Has(queue[k], n)) \/ Has(filling, n)
          => \E k \in DOMAIN queue' : Has(queue'[k], n)
    <3>1. l + 1 \in 1 .. l + 1 /\ \A k \in 1 .. l : k \in 1 .. l + 1
      OBVIOUS
    <3>. QED  BY <1>4, <3>1
  <2>. QED  BY <1>2, <2>1, <2>2 DEF Somewhere
<1>9. Stream'
  <2>1. Lined(m)'
    BY <1>7, <1>8 DEF Lined
  <2>. QED  BY <1>1, <1>2, <2>1, StreamStays DEF Stream
<1>10. Filled' /\ AsSent'
  BY <1>2 DEF RInv, Filled, AsSent, Payload, WellFormed
<1>. QED  BY <1>6, <1>9, <1>10 DEF RInv

\* The first set of the queue goes to the handler.
LEMMA ReadsTakeSet ==
  ASSUME IInv, OInv, RInv, TakeSet
  PROVE  RInv'
<1>1. PICK m \in Nat :
        /\ Lined(m) /\ NotWhole(m)
        /\ pc \in Active => \E off : Laid(off, m)
  BY DEF RInv, Stream
<1>2. /\ handling = <<>> /\ queue # <<>> /\ handling' = <<Head(queue)>>
      /\ queue' = Tail(queue)
      /\ UNCHANGED <<sent, wire, data, recvPacket, readPos, writePos, handled, dropped,
                     pc, filling>>
  BY DEF TakeSet
<1>3. PICK l \in Nat : l + 1 = Len(queue)
  <2>1. Len(queue) \in Nat \ {0}
    BY <1>2 DEF OInv, Sets
  <2>2. Len(queue) - 1 \in Nat /\ (Len(queue) - 1) + 1 = Len(queue)
    BY <2>1
  <2>. QED  BY <2>2
<1>4. /\ DOMAIN queue = 1 .. l + 1 /\ DOMAIN queue' = 1 .. l
      /\ \A k \in 1 .. l : queue'[k] = queue[k + 1]
      /\ handling' = <<queue[1]>> /\ handling'[1] = queue[1] /\ handling' # <<>>
  BY <1>2, <1>3 DEF OInv, Sets
<1>5. \A k \in 1 .. l : k + 1 \in 1 .. l + 1 /\ 1 < k + 1
  OBVIOUS
<1>6. 1 \in 1 .. l + 1
  OBVIOUS
<1>7. AllSound'
  <2>1. \A k \in 1 .. l : Sound(data, sent, queue'[k])
    BY <1>4, <1>5 DEF RInv, AllSound
  <2>2. Sound(data, sent, queue[1]) /\ Sound(data, sent, filling)
    BY <1>4, <1>6 DEF RInv, AllSound
  <2>. QED  BY <1>2, <1>4, <2>1, <2>2 DEF AllSound
<1>8. InOrder(m)'
  <2>1. ASSUME NEW k \in 1 .. l
        PROVE  /\ Fresh(queue'[k], m) /\ Before(queue'[k], filling)
               /\ Before(queue[1], queue'[k])
               /\ \A j \in 1 .. l : j < k => Before(queue'[j], queue'[k])
    <3>1. \A j \in 1 .. l : j < k => j + 1 < k + 1
      OBVIOUS
    <3>. QED  BY <1>1, <1>4, <1>5, <1>6, <3>1 DEF Lined, InOrder
  <2>2. Fresh(queue[1], m) /\ Before(queue[1], filling) /\ Fresh(filling, m)
    BY <1>1, <1>4, <1>6 DEF Lined, InOrder
  <2>3. \A s : Fresh(s, m)' = Fresh(s, m)
    BY <1>2 DEF Fresh
  <2>4. /\ \A k \in DOMAIN handled : handled[k].msg \notin dropped /\ handled[k].msg < m
        /\ \A n \in dropped : n < m
    BY <1>1 DEF Lined, InOrder
  <2>. QED  BY <1>2, <1>4, <2>1, <2>2, <2>3, <2>4 DEF InOrder
<1>9. ASSUME NEW n, Somewhere(n)
      PROVE  Somewhere(n)'
  <2>1. ASSUME NEW k \in 1 .. l + 1, Has(queue[k], n)
        PROVE  Has(queue[1], n) \/ \E i \in 1 .. l : Has(queue'[i], n)
    <3>1. CASE k # 1
      <4>1. PICK i \in 1 .. l : k = i + 1
        <5>1. k - 1 \in 1 .. l /\ k = (k - 1) + 1
          BY <2>1, <3>1
        <5>. QED  BY <5>1
      <4>. QED  BY <1>4, <2>1, <4>1
    <3>. QED  BY <2>1, <3>1
  <2>. QED  BY <1>2, <1>4, <1>9, <2>1 DEF Somewhere
<1>10. Stream'
  <2>1. Lined(m)'
    BY <1>1, <1>2, <1>8, <1>9 DEF Lined
  <2>. QED  BY <1>1, <1>2, <2>1, StreamStays DEF Stream
<1>11. Filled' /\ AsSent'
  BY <1>2 DEF RInv, Filled, AsSent, Payload, WellFormed
<1>. QED  BY <1>7, <1>10, <1>11 DEF RInv

\* A payload is bytes.
LEMMA PayloadType ==
  ASSUME IInv, NEW n \in DOMAIN sent
  PROVE  n \in Nat /\ Payload(n) \in Seq(Byte)
<1>1. n \in Nat /\ sent[n] \in Messages
  BY DEF IInv, TypeOK
<1>2. PICK z \in Nat : z = sent[n].size
  BY <1>1 DEF Messages
<1>3. PICK read : read = [i \in 1 .. z |->
                           [msg |-> n, at |-> eNET_HEADER_SIZE + i, plain |-> TRUE]]
  OBVIOUS
<1>4. \A i \in 1 .. z : [msg |-> n, at |-> eNET_HEADER_SIZE + i, plain |-> TRUE] \in Byte
  BY <1>1 DEF Byte
<1>5. read \in Seq(Byte)
  <2>1. read \in [1 .. z -> Byte]
    BY <1>3, <1>4, Zenon
  <2>2. \A q \in [1 .. z -> Byte] : q \in Seq(Byte)
    OBVIOUS
  <2>. QED  BY <2>1, <2>2, Zenon
<1>. QED  BY <1>1, <1>2, <1>3, <1>5 DEF Payload

\* The packet read is the first of the set in hand, and it is read as it was sent.
LEMMA ReadsFirst ==
  ASSUME IInv, OInv, RInv, ReadsPacket
  PROVE  \E s \in PacketSets, l \in Nat, h \in Nat, n \in Nat :
           /\ handling = <<s>> /\ handling[1] = s /\ handling # <<>>
           /\ Len(s.packets) = l + 1 /\ DOMAIN s.packets = 1 .. l + 1
           /\ Head(s.packets) = s.packets[1] /\ s.packets[1].msg = n
           /\ DOMAIN handled = 1 .. h /\ DOMAIN handled' = 1 .. h + 1
           /\ \A k \in 1 .. h : handled'[k] = handled[k] /\ handled[k].msg < n
           /\ n \in DOMAIN sent
           /\ handled'[h + 1].msg = n /\ handled'[h + 1].bytes = Payload(n)
           /\ handled' \in Seq([msg : Nat, bytes : Seq(Byte)])
<1>1. handling # <<>> /\ handling[1].packets # <<>>
  BY DEF ReadsPacket
<1>2. PICK s \in PacketSets : handling = <<s>>
  BY <1>1 DEF OInv, Sets
<1>3. handling[1] = s /\ s.packets # <<>>
  BY <1>1, <1>2
<1>4. s.packets \in Seq([msg : Nat, from : Int, size : Int])
  BY SetParts
<1>5. PICK l \in Nat : l + 1 = Len(s.packets)
  <2>1. Len(s.packets) \in Nat \ {0}
    BY <1>3, <1>4
  <2>2. Len(s.packets) - 1 \in Nat /\ (Len(s.packets) - 1) + 1 = Len(s.packets)
    BY <2>1
  <2>. QED  BY <2>2
<1>6. /\ DOMAIN s.packets = 1 .. l + 1 /\ 1 \in DOMAIN s.packets
      /\ Head(s.packets) = s.packets[1]
  BY <1>3, <1>4, <1>5
<1>7. PICK p \in [msg : Nat, from : Int, size : Int] : p = s.packets[1]
  BY <1>4, <1>6, Element, Zenon
<1>8. PICK n \in Nat : n = p.msg
  BY <1>7
<1>9. PICK x : x = [msg   |-> n,
                    bytes |-> [i \in 1 .. p.size |-> data[s.originalPacket][p.from + i - 1]]]
  OBVIOUS
<1>10. handled' = Append(handled, x)
  BY <1>3, <1>6, <1>7, <1>8, <1>9 DEF ReadsPacket
<1>11. Reads(data, sent, s.originalPacket, p)
  BY <1>1, <1>3, <1>6, <1>7 DEF RInv, AllSound, Sound
<1>12. n \in DOMAIN sent /\ x.msg = n /\ x.bytes = Payload(n)
  <2>1. [i \in 1 .. p.size |-> data[s.originalPacket][p.from + i - 1]] = Payload(n)
    BY <1>8, <1>11 DEF Reads, Payload
  <2>2. n \in DOMAIN sent
    BY <1>8, <1>11 DEF Reads
  <2>. QED  BY <1>9, <2>1, <2>2
<1>13. x \in [msg : Nat, bytes : Seq(Byte)]
  <2>5. Payload(n) \in Seq(Byte)
    BY <1>12, PayloadType
  <2>6. x = [msg |-> n, bytes |-> Payload(n)]
    BY <1>9, <1>12
  <2>. QED  BY <2>5, <2>6
<1>14. PICK h \in Nat : h = Len(handled)
  BY DEF RInv, AsSent
<1>15. /\ DOMAIN handled = 1 .. h /\ DOMAIN handled' = 1 .. h + 1
       /\ \A k \in 1 .. h : handled'[k] = handled[k]
       /\ handled'[h + 1] = x
       /\ handled' \in Seq([msg : Nat, bytes : Seq(Byte)])
  <2>1. handled \in Seq([msg : Nat, bytes : Seq(Byte)])
    BY DEF RInv, AsSent
  <2>. QED  BY <1>10, <1>13, <1>14, <2>1
<1>16. \A k \in 1 .. h : handled[k].msg < n
  <2>1. PICK m : Lined(m)
    BY DEF RInv, Stream
  <2>2. Fresh(s, m)
    BY <1>1, <1>3, <2>1 DEF Lined, InOrder
  <2>. QED  BY <1>6, <1>7, <1>8, <1>15, <2>2 DEF Fresh
<1>. QED
  <2>1. s.packets[1].msg = n /\ Len(s.packets) = l + 1
    BY <1>5, <1>7, <1>8
  <2>. QED  BY <1>1, <1>2, <1>3, <1>6, <1>12, <1>15, <1>16, <2>1

\* What was read is in its order when that packet is.
LEMMA FirstAsSent ==
  ASSUME IInv, OInv, RInv, ReadsPacket, sent' = sent, pc' = pc, dropped' \subseteq Nat
  PROVE  AsSent'
<1>1. PICK s \in PacketSets, l \in Nat, h \in Nat, n \in Nat :
        /\ DOMAIN handled = 1 .. h /\ DOMAIN handled' = 1 .. h + 1
        /\ \A k \in 1 .. h : handled'[k] = handled[k] /\ handled[k].msg < n
        /\ n \in DOMAIN sent
        /\ handled'[h + 1].msg = n /\ handled'[h + 1].bytes = Payload(n)
        /\ handled' \in Seq([msg : Nat, bytes : Seq(Byte)])
  BY ReadsFirst, ZenonT(40)
<1>2. \A k : Payload(k)' = Payload(k)
  BY DEF Payload
<1>3. ASSUME NEW k \in 1 .. h + 1
      PROVE  /\ handled'[k].msg \in DOMAIN sent
             /\ handled'[k].bytes = Payload(handled'[k].msg)
             /\ \A j \in 1 .. h + 1 : j < k => handled'[j].msg < handled'[k].msg
  <2>1. CASE k = h + 1
    <3>1. ASSUME NEW j \in 1 .. h + 1, j < k PROVE j \in 1 .. h
      BY <2>1, <3>1
    <3>. QED  BY <1>1, <2>1, <3>1
  <2>2. CASE k \in 1 .. h
    <3>1. \A j \in 1 .. h + 1 : j < k => j \in 1 .. h
      BY <2>2
    <3>. QED  BY <1>1, <2>2, <3>1 DEF RInv, AsSent
  <2>. QED  BY <1>3, <2>1, <2>2
<1>4. pc' = "rejected" => \E k \in DOMAIN sent : ~WellFormed(sent[k])
  BY DEF RInv, AsSent
<1>. QED  BY <1>1, <1>2, <1>3, <1>4 DEF AsSent

\* The sets behind the one in hand stay behind what was read and dropped of it.
LEMMA FreshAfter ==
  ASSUME NEW m, NEW s, NEW t \in PacketSets, Fresh(t, m), Before(s, t),
         1 \in DOMAIN s.packets, NEW h \in Nat,
         DOMAIN handled = 1 .. h, DOMAIN handled' = 1 .. h + 1,
         \A k \in 1 .. h : handled'[k] = handled[k],
         handled'[h + 1].msg = s.packets[1].msg,
         \A x \in dropped' : x \in dropped \/ Has(s, x)
  PROVE  Fresh(t, m)'
<1>1. ASSUME NEW j \in DOMAIN t.packets
      PROVE  /\ t.packets[j].msg \in Nat
             /\ \A i \in DOMAIN s.packets : s.packets[i].msg < t.packets[j].msg
  <2>1. t.packets[j] \in [msg : Nat, from : Int, size : Int]
    BY SetParts, Element
  <2>. QED  BY <2>1 DEF Before
<1>2. ASSUME NEW j \in DOMAIN t.packets
      PROVE  t.packets[j].msg \notin dropped'
  BY <1>1 DEF Fresh, Has
<1>3. ASSUME NEW j \in DOMAIN t.packets, NEW k \in 1 .. h + 1
      PROVE  handled'[k].msg < t.packets[j].msg
  <2>1. CASE k \in 1 .. h
    BY <2>1 DEF Fresh
  <2>2. CASE k = h + 1
    BY <1>1, <2>2
  <2>. QED  BY <1>3, <2>1, <2>2
<1>. QED  BY <1>2, <1>3 DEF Fresh

\* The packet read leaves the set, and the others keep their order.
LEMMA ReadsHandlePacket ==
  ASSUME IInv, OInv, RInv, HandlePacket
  PROVE  RInv'
<1>1. PICK m \in Nat :
        /\ Lined(m) /\ NotWhole(m)
        /\ pc \in Active => \E off : Laid(off, m)
  BY DEF RInv, Stream
<1>2. PICK s \in PacketSets, l \in Nat, h \in Nat, n \in Nat :
        /\ handling = <<s>> /\ handling[1] = s /\ handling # <<>>
        /\ Len(s.packets) = l + 1 /\ DOMAIN s.packets = 1 .. l + 1
        /\ Head(s.packets) = s.packets[1] /\ s.packets[1].msg = n
        /\ DOMAIN handled = 1 .. h /\ DOMAIN handled' = 1 .. h + 1
        /\ \A k \in 1 .. h : handled'[k] = handled[k] /\ handled[k].msg < n
        /\ n \in DOMAIN sent
        /\ handled'[h + 1].msg = n /\ handled'[h + 1].bytes = Payload(n)
        /\ handled' \in Seq([msg : Nat, bytes : Seq(Byte)])
  <2>1. ReadsPacket
    BY Zenon DEF HandlePacket
  <2>. QED  BY <2>1, ReadsFirst, Zenon
<1>3. PICK rest : rest = Tail(s.packets)
  OBVIOUS
<1>4. /\ rest \in Seq([msg : Nat, from : Int, size : Int]) /\ DOMAIN rest = 1 .. l
      /\ \A j \in 1 .. l : rest[j] = s.packets[j + 1]
  <2>1. PICK q \in Seq([msg : Nat, from : Int, size : Int]) : q = s.packets
    BY SetParts
  <2>2. Len(q) = l + 1 /\ q # <<>>
    BY <1>2, <2>1
  <2>3. /\ Tail(q) \in Seq([msg : Nat, from : Int, size : Int])
        /\ DOMAIN Tail(q) = 1 .. l
        /\ \A j \in 1 .. l : Tail(q)[j] = q[j + 1]
    BY ONLY <2>2, l \in Nat
  <2>. QED  BY <1>3, <2>1, <2>3
<1>5. PICK t : t = [s EXCEPT !.packets = rest]
  OBVIOUS
<1>6. t \in PacketSets /\ t.packets = rest /\ t.originalPacket = s.originalPacket
  BY <1>4, <1>5 DEF PacketSets
<1>7. /\ handling' = <<t>> /\ handling' # <<>> /\ handling'[1] = t
      /\ UNCHANGED <<sent, wire, data, recvPacket, readPos, writePos, queue, dropped,
                     pc, filling>>
  BY <1>2, <1>3, <1>5 DEF HandlePacket
<1>8. /\ \A j \in 1 .. l : j + 1 \in 1 .. l + 1 /\ 1 < j + 1
      /\ 1 \in 1 .. l + 1 /\ h + 1 \in 1 .. h + 1
  OBVIOUS
<1>9. AllSound'
  <2>1. Sound(data, sent, s)
    BY <1>2 DEF RInv, AllSound
  <2>2. Sound(data, sent, t)
    BY <1>2, <1>4, <1>6, <1>8, <2>1 DEF Sound
  <2>. QED  BY <1>7, <2>2 DEF RInv, AllSound
<1>10. /\ Fresh(s, m) /\ Before(s, filling)
       /\ \A k \in DOMAIN queue : Before(s, queue[k])
  BY <1>1, <1>2 DEF Lined, InOrder
<1>11. Fresh(t, m)'
  <2>. SUFFICES ASSUME NEW j \in 1 .. l
                PROVE  /\ rest[j].msg \notin dropped /\ rest[j].msg < m
                       /\ \A k \in 1 .. h + 1 : handled'[k].msg < rest[j].msg
                       /\ \A i \in 1 .. l : i < j => rest[i].msg < rest[j].msg
    BY <1>2, <1>4, <1>6, <1>7 DEF Fresh
  <2>1. ASSUME NEW k \in 1 .. h + 1 PROVE handled'[k].msg < rest[j].msg
    <3>1. CASE k \in 1 .. h
      BY <1>2, <1>4, <1>8, <1>10, <3>1 DEF Fresh
    <3>2. CASE k = h + 1
      <4>1. s.packets[1].msg < s.packets[j + 1].msg
        BY <1>2, <1>8, <1>10 DEF Fresh
      <4>. QED  BY <1>2, <1>4, <3>2, <4>1
    <3>. QED  BY <2>1, <3>1, <3>2
  <2>2. \A i \in 1 .. l : i < j => i + 1 < j + 1
    OBVIOUS
  <2>3. /\ s.packets[j + 1].msg \notin dropped /\ s.packets[j + 1].msg < m
        /\ \A i \in 1 .. l + 1 : i < j + 1 => s.packets[i].msg < s.packets[j + 1].msg
    BY <1>2, <1>8, <1>10 DEF Fresh
  <2>4. \A i \in 1 .. l : i < j => rest[i].msg < rest[j].msg
    BY <1>4, <1>8, <2>2, <2>3
  <2>. QED  BY <1>4, <2>1, <2>3, <2>4
<1>12. ASSUME NEW u \in PacketSets, Fresh(u, m), Before(s, u)
       PROVE  Fresh(u, m)' /\ Before(t, u)
  <2>1. Before(t, u)
    <3>1. ASSUME NEW i \in DOMAIN t.packets, NEW j \in DOMAIN u.packets
          PROVE  t.packets[i].msg < u.packets[j].msg
      <4>1. i + 1 \in DOMAIN s.packets /\ t.packets[i] = s.packets[i + 1]
        BY <1>2, <1>4, <1>6, <1>8
      <4>. QED  BY <1>12, <4>1 DEF Before
    <3>. QED  BY <3>1 DEF Before
  <2>2. 1 \in DOMAIN s.packets /\ dropped' = dropped
    BY <1>2, <1>7, <1>8
  <2>. QED  BY <1>2, <1>12, <2>1, <2>2, FreshAfter
<1>13. InOrder(m)'
  <2>1. ASSUME NEW k \in 1 .. h + 1
        PROVE  handled'[k].msg \notin dropped /\ handled'[k].msg < m
    <3>1. CASE k \in 1 .. h
      BY <1>1, <1>2, <3>1 DEF Lined, InOrder
    <3>2. CASE k = h + 1
      BY <1>2, <1>8, <1>10, <3>2 DEF Fresh
    <3>. QED  BY <2>1, <3>1, <3>2
  <2>2. ASSUME NEW k \in DOMAIN queue
        PROVE  /\ Fresh(queue[k], m)' /\ Before(t, queue[k])
               /\ Before(queue[k], filling)
               /\ \A j \in DOMAIN queue : j < k => Before(queue[j], queue[k])
    <3>1. queue[k] \in PacketSets
      BY DEF OInv, Sets
    <3>2. /\ Fresh(queue[k], m) /\ Before(queue[k], filling)
          /\ \A j \in DOMAIN queue : j < k => Before(queue[j], queue[k])
      BY <1>1 DEF Lined, InOrder
    <3>. QED  BY <1>7, <1>10, <1>12, <3>1, <3>2
  <2>3. Fresh(filling, m)' /\ Before(t, filling)
    <3>1. filling \in PacketSets /\ Fresh(filling, m)
      BY <1>1 DEF IInv, TypeOK, Lined, InOrder
    <3>. QED  BY <1>7, <1>10, <1>12, <3>1
  <2>4. \A x \in dropped : x < m
    BY <1>1 DEF Lined, InOrder
  <2>. QED  BY <1>2, <1>7, <1>11, <2>1, <2>2, <2>3, <2>4 DEF InOrder
<1>14. ASSUME NEW x, Somewhere(x)
       PROVE  Somewhere(x)'
  <2>1. Has(s, x) => x = n \/ Has(t, x)
    <3>. SUFFICES ASSUME NEW k \in 1 .. l + 1, s.packets[k].msg = x, k # 1
                  PROVE  \E j \in 1 .. l : rest[j].msg = x
      BY <1>2, <1>4, <1>6 DEF Has
    <3>1. k - 1 \in 1 .. l /\ (k - 1) + 1 = k
      OBVIOUS
    <3>. QED  BY <1>4, <3>1
  <2>2. \E k \in DOMAIN handled' : handled'[k].msg = n
    BY <1>2, <1>8
  <2>3. \A k \in DOMAIN handled : k \in DOMAIN handled' /\ handled'[k] = handled[k]
    BY <1>2
  <2>. QED  BY <1>2, <1>7, <1>14, <2>1, <2>2, <2>3 DEF Somewhere
<1>15. Stream'
  <2>1. Lined(m)'
    BY <1>1, <1>7, <1>13, <1>14 DEF Lined
  <2>. QED  BY <1>1, <1>7, <2>1, StreamStays DEF Stream
<1>16. Filled' /\ AsSent'
  <2>1. dropped' \subseteq Nat
    BY <1>7 DEF RInv, AsSent
  <2>2. AsSent'
    BY <1>7, <2>1, FirstAsSent DEF HandlePacket
  <2>. QED  BY <1>7, <2>2 DEF RInv, Filled
<1>. QED  BY <1>9, <1>15, <1>16 DEF RInv

-----------------------------------------------------------------------------
\* Freed buffers are not those of the sets that stay, nor the session's.
LEMMA FreeKeeps ==
  ASSUME IInv, OInv, AllSound, pc # "none", NEW bs, data' = Overwritten(bs),
         recvPacket \notin bs, pc = "handover" => filling.originalPacket \notin bs,
         UNCHANGED <<sent, filling>>,
         \/ queue' = <<>>
         \/ queue' = queue /\ \A k \in DOMAIN queue : queue[k].originalPacket \notin bs,
         \/ handling' = <<>>
         \/ handling' = handling /\ handling[1].originalPacket \notin bs
  PROVE  AllSound' /\ data'[recvPacket] = data[recvPacket]
<1>1. \A b \in Buffers : b \notin bs => data'[b] = data[b]
  BY DEF Overwritten
<1>2. sent \in Seq(Messages) /\ filling \in PacketSets /\ recvPacket \in Buffers
  BY DEF IInv, TypeOK, OInv, Owned
<1>3. Len(sent) <= Len(sent) /\ \A k \in DOMAIN sent : sent[k] = sent[k]
  BY <1>2
<1>4. ASSUME NEW k \in DOMAIN queue'
      PROVE  Sound(data', sent, queue'[k])
  <2>1. queue' = queue /\ k \in DOMAIN queue /\ queue[k].originalPacket \notin bs
    BY <1>4
  <2>2. queue[k] \in PacketSets /\ queue[k].originalPacket \in Buffers
    BY <2>1 DEF OInv, Sets, Owned
  <2>3. data'[queue[k].originalPacket] = data[queue[k].originalPacket]
    BY <1>1, <2>1, <2>2
  <2>4. Sound(data, sent, queue[k])
    BY <2>1 DEF AllSound
  <2>. QED  BY <1>2, <1>3, <2>1, <2>2, <2>3, <2>4, SoundKeeps
<1>5. ASSUME handling' # <<>>
      PROVE  Sound(data', sent, handling'[1])
  <2>1. handling' = handling /\ handling # <<>> /\ handling[1].originalPacket \notin bs
    BY <1>5
  <2>2. handling[1] \in PacketSets /\ handling[1].originalPacket \in Buffers
    <3>1. PICK s \in PacketSets : handling = <<s>>
      BY <2>1 DEF OInv, Sets
    <3>2. handling[1].originalPacket \in Buffers
      BY <2>1 DEF OInv, Owned
    <3>. QED  BY <3>1, <3>2
  <2>3. data'[handling[1].originalPacket] = data[handling[1].originalPacket]
    BY <1>1, <2>1, <2>2
  <2>4. Sound(data, sent, handling[1])
    BY <2>1 DEF AllSound
  <2>. QED  BY <1>2, <1>3, <2>1, <2>2, <2>3, <2>4, SoundKeeps
<1>6. Sound(data', sent, filling)
  <2>1. filling.packets # <<>> =>
          data'[filling.originalPacket] = data[filling.originalPacket]
    <3>1. filling.packets # <<>> => pc \in {"register", "copy", "handover"}
      BY DEF OInv, FillingOwned, EmptySet
    <3>2. /\ pc \in {"register", "copy"} => filling.originalPacket = recvPacket
          /\ pc = "handover" => filling.originalPacket \in Buffers
      BY DEF OInv, FillingOwned
    <3>. QED  BY <1>1, <1>2, <3>1, <3>2
  <2>2. Sound(data, sent, filling)
    BY DEF AllSound
  <2>. QED  BY <1>2, <1>3, <2>1, <2>2, SoundKeeps
<1>7. data'[recvPacket] = data[recvPacket]
  BY <1>1, <1>2
<1>. QED  BY <1>4, <1>5, <1>6, <1>7 DEF AllSound

\* The set in hand leaves with its buffer.
LEMMA HandlingFreed ==
  ASSUME IInv, OInv, AllSound, handling # <<>>, handling' = <<>>,
         FreeSets({handling[1]}), UNCHANGED <<sent, filling, queue>>
  PROVE  pc # "none" /\ AllSound' /\ data'[recvPacket] = data[recvPacket]
<1>1. PICK b \in Buffers : b = handling[1].originalPacket
  BY DEF OInv, Owned
<1>2. data' = Overwritten({b})
  <2>1. {s.originalPacket : s \in {handling[1]}} \ {NoBuffer} = {b}
    BY <1>1
  <2>. QED  BY <2>1 DEF FreeSets, FreeBuffers
<1>3. pc # "none" /\ recvPacket \notin {b}
  BY <1>1 DEF OInv, Owned
<1>4. pc = "handover" => filling.originalPacket \notin {b}
  BY <1>1 DEF OInv, FillingOwned
<1>5. \A k \in DOMAIN queue : queue[k].originalPacket \notin {b}
  BY <1>1 DEF OInv, Owned
<1>. QED  BY <1>2, <1>3, <1>4, <1>5, FreeKeeps

\* A set is freed when all its packets are read.
LEMMA ReadsFreeSet ==
  ASSUME IInv, OInv, RInv, FreeSet
  PROVE  RInv'
<1>1. PICK m \in Nat :
        /\ Lined(m) /\ NotWhole(m)
        /\ pc \in Active => \E off : Laid(off, m)
  BY DEF RInv, Stream
<1>2. /\ handling # <<>> /\ handling[1].packets = <<>> /\ handling' = <<>>
      /\ FreeSets({handling[1]})
      /\ UNCHANGED <<sent, wire, recvPacket, readPos, writePos, pc, filling, queue,
                     handled, dropped>>
  BY Zenon DEF FreeSet, streamVars, posVars
<1>3. AllSound' /\ data'[recvPacket] = data[recvPacket]
  BY <1>2, HandlingFreed DEF RInv
<1>4. Lined(m)'
  <2>1. InOrder(m)'
    BY <1>1, <1>2 DEF Lined, InOrder, Fresh, Before
  <2>2. ASSUME NEW n, Somewhere(n) PROVE Somewhere(n)'
    <3>1. ~Has(handling[1], n)
      BY <1>2 DEF Has
    <3>. QED  BY <1>2, <2>2, <3>1 DEF Somewhere, Has
  <2>. QED  BY <1>1, <1>2, <2>1, <2>2 DEF Lined
<1>5. Stream'
  BY <1>1, <1>2, <1>3, <1>4, StreamStays DEF Stream
<1>6. Filled' /\ AsSent'
  BY <1>2 DEF RInv, Filled, AsSent, Payload, WellFormed
<1>. QED  BY <1>3, <1>5, <1>6 DEF RInv

\* A set whose handler fails leaves with the packets behind the one read.
LEMMA ReadsHandlerFails ==
  ASSUME IInv, OInv, RInv, HandlerFails
  PROVE  RInv'
<1>1. PICK m \in Nat :
        /\ Lined(m) /\ NotWhole(m)
        /\ pc \in Active => \E off : Laid(off, m)
  BY DEF RInv, Stream
<1>2. PICK s \in PacketSets, l \in Nat, h \in Nat, n \in Nat :
        /\ handling = <<s>> /\ handling[1] = s /\ handling # <<>>
        /\ Len(s.packets) = l + 1 /\ DOMAIN s.packets = 1 .. l + 1
        /\ Head(s.packets) = s.packets[1] /\ s.packets[1].msg = n
        /\ DOMAIN handled = 1 .. h /\ DOMAIN handled' = 1 .. h + 1
        /\ \A k \in 1 .. h : handled'[k] = handled[k] /\ handled[k].msg < n
        /\ n \in DOMAIN sent
        /\ handled'[h + 1].msg = n /\ handled'[h + 1].bytes = Payload(n)
        /\ handled' \in Seq([msg : Nat, bytes : Seq(Byte)])
  <2>1. ReadsPacket
    BY Zenon DEF HandlerFails
  <2>. QED  BY <2>1, ReadsFirst, Zenon
<1>3. /\ FreeSets({handling[1]}) /\ handling' = <<>>
      /\ dropped' = dropped \cup (MessagesOf(handling[1])
                                   \ {Head(handling[1].packets).msg})
      /\ UNCHANGED <<sent, wire, recvPacket, readPos, writePos, pc, filling, queue>>
  BY Zenon DEF HandlerFails, streamVars, posVars
<1>4. dropped' = dropped \cup (MessagesOf(s) \ {n})
  BY <1>2, <1>3
<1>5. \A x : Has(s, x) <=> x \in MessagesOf(s)
  BY Zenon DEF Has, MessagesOf
<1>6. AllSound' /\ data'[recvPacket] = data[recvPacket]
  BY <1>2, <1>3, HandlingFreed DEF RInv
<1>7. 1 \in 1 .. l + 1 /\ h + 1 \in 1 .. h + 1
  OBVIOUS
<1>8. ASSUME NEW j \in 1 .. l + 1
      PROVE  /\ s.packets[j].msg \in Nat /\ s.packets[j].msg < m
             /\ s.packets[j].msg \notin dropped
             /\ \A k \in 1 .. h : handled[k].msg < s.packets[j].msg
  <2>1. s.packets[j] \in [msg : Nat, from : Int, size : Int]
    BY <1>2, SetParts, Element
  <2>2. Fresh(s, m)
    BY <1>1, <1>2 DEF Lined, InOrder
  <2>. QED  BY <1>2, <2>1, <2>2 DEF Fresh
<1>9. ASSUME NEW u \in PacketSets, Fresh(u, m), Before(s, u)
      PROVE  Fresh(u, m)'
  <2>1. 1 \in DOMAIN s.packets
    BY <1>2, <1>7
  <2>2. \A x \in dropped' : x \in dropped \/ Has(s, x)
    BY <1>4, <1>5
  <2>3. \A k \in 1 .. h : handled'[k] = handled[k]
    BY <1>2
  <2>. QED  BY <1>2, <1>9, <2>1, <2>2, <2>3, FreshAfter
<1>10. InOrder(m)'
  <2>1. ASSUME NEW k \in 1 .. h + 1
        PROVE  handled'[k].msg \notin dropped' /\ handled'[k].msg < m
    <3>1. CASE k \in 1 .. h
      <4>1. handled'[k] = handled[k] /\ handled[k].msg \notin dropped /\ handled[k].msg < m
        BY <1>1, <1>2, <3>1 DEF Lined, InOrder
      <4>2. handled[k].msg \in Nat
        <5>1. handled \in Seq([msg : Nat, bytes : Seq(Byte)])
          BY DEF RInv, AsSent
        <5>2. handled[k] \in [msg : Nat, bytes : Seq(Byte)]
          BY <1>2, <3>1, <5>1, Element
        <5>. QED  BY <5>2
      <4>3. handled[k].msg \notin MessagesOf(s)
        <5>1. ASSUME NEW j \in 1 .. l + 1 PROVE handled[k].msg # s.packets[j].msg
          BY <1>8, <3>1, <4>2
        <5>. QED  BY <1>2, <5>1, Zenon DEF MessagesOf
      <4>. QED  BY <1>4, <4>1, <4>3
    <3>2. CASE k = h + 1
      BY <1>2, <1>4, <1>7, <1>8, <3>2
    <3>. QED  BY <2>1, <3>1, <3>2
  <2>2. \A x \in dropped' : x < m
    <3>1. \A x \in dropped : x < m
      BY <1>1 DEF Lined, InOrder
    <3>2. \A x \in MessagesOf(s) : x < m
      BY <1>2, <1>8 DEF MessagesOf
    <3>. QED  BY <1>4, <3>1, <3>2
  <2>3. ASSUME NEW k \in DOMAIN queue
        PROVE  /\ Fresh(queue[k], m)' /\ Before(queue[k], filling)
               /\ \A j \in DOMAIN queue : j < k => Before(queue[j], queue[k])
    <3>1. queue[k] \in PacketSets
      BY DEF OInv, Sets
    <3>2. /\ Fresh(queue[k], m) /\ Before(queue[k], filling) /\ Before(s, queue[k])
          /\ \A j \in DOMAIN queue : j < k => Before(queue[j], queue[k])
      BY <1>1, <1>2 DEF Lined, InOrder
    <3>. QED  BY <1>3, <1>9, <3>1, <3>2
  <2>4. Fresh(filling, m)'
    <3>1. filling \in PacketSets /\ Fresh(filling, m) /\ Before(s, filling)
      BY <1>1, <1>2 DEF IInv, TypeOK, Lined, InOrder
    <3>. QED  BY <1>3, <1>9, <3>1
  <2>. QED  BY <1>2, <1>3, <2>1, <2>2, <2>3, <2>4 DEF InOrder
<1>11. ASSUME NEW x, Somewhere(x)
       PROVE  Somewhere(x)'
  <2>1. Has(s, x) => x = n \/ x \in dropped'
    BY <1>4, <1>5
  <2>2. \E k \in DOMAIN handled' : handled'[k].msg = n
    BY <1>2, <1>7
  <2>3. \A k \in DOMAIN handled : k \in DOMAIN handled' /\ handled'[k] = handled[k]
    BY <1>2
  <2>. QED  BY <1>2, <1>3, <1>4, <1>11, <2>1, <2>2, <2>3 DEF Somewhere
<1>12. Stream'
  <2>1. Lined(m)'
    BY <1>1, <1>3, <1>10, <1>11 DEF Lined
  <2>. QED  BY <1>1, <1>3, <1>6, <2>1, StreamStays DEF Stream
<1>13. Filled' /\ AsSent'
  <2>1. dropped' \subseteq Nat
    <3>1. dropped \subseteq Nat
      BY DEF RInv, AsSent
    <3>2. MessagesOf(s) \subseteq Nat
      BY <1>2, <1>8 DEF MessagesOf
    <3>. QED  BY <1>4, <3>1, <3>2
  <2>2. AsSent'
    <3>1. ReadsPacket
      BY Zenon DEF HandlerFails
    <3>. QED  BY <1>3, <2>1, <3>1, FirstAsSent
  <2>. QED  BY <1>3, <2>2 DEF RInv, Filled
<1>. QED  BY <1>6, <1>12, <1>13 DEF RInv

\* The sets in the queue leave unread at a move.
LEMMA ReadsClearJobQ ==
  ASSUME IInv, OInv, RInv, ClearJobQ
  PROVE  RInv'
<1>1. PICK m \in Nat :
        /\ Lined(m) /\ NotWhole(m)
        /\ pc \in Active => \E off : Laid(off, m)
  BY DEF RInv, Stream
<1>2. /\ queue # <<>> /\ queue' = <<>>
      /\ dropped' = dropped \cup UNION {MessagesOf(queue[k]) : k \in DOMAIN queue}
      /\ FreeSets({queue[k] : k \in DOMAIN queue})
      /\ UNCHANGED <<sent, wire, recvPacket, readPos, writePos, pc, filling, handling,
                     handled>>
  BY Zenon DEF ClearJobQ, streamVars, posVars
<1>3. AllSound' /\ data'[recvPacket] = data[recvPacket]
  <2>1. PICK bs : bs = {queue[k].originalPacket : k \in DOMAIN queue}
    OBVIOUS
  <2>2. data' = Overwritten(bs)
    <3>1. {s.originalPacket : s \in {queue[k] : k \in DOMAIN queue}} \ {NoBuffer} = bs
      BY <2>1 DEF OInv, Owned
    <3>. QED  BY <1>2, <3>1 DEF FreeSets, FreeBuffers
  <2>3. pc # "none" /\ recvPacket \notin bs
    BY <1>2, <2>1 DEF OInv, Owned
  <2>4. pc = "handover" => filling.originalPacket \notin bs
    BY <2>1 DEF OInv, FillingOwned
  <2>5. handling # <<>> => handling[1].originalPacket \notin bs
    BY <2>1 DEF OInv, Owned
  <2>6. handling = <<>> => handling' = <<>>
    BY <1>2
  <2>. QED  BY <1>2, <2>2, <2>3, <2>4, <2>5, <2>6, FreeKeeps DEF RInv
<1>4. ASSUME NEW k \in DOMAIN queue, NEW j \in DOMAIN queue[k].packets
      PROVE  /\ queue[k].packets[j].msg \in Nat /\ queue[k].packets[j].msg < m
             /\ \A i \in DOMAIN handled : handled[i].msg < queue[k].packets[j].msg
  <2>1. queue[k] \in PacketSets
    BY DEF OInv, Sets
  <2>2. queue[k].packets[j] \in [msg : Nat, from : Int, size : Int]
    BY <2>1, SetParts, Element
  <2>3. Fresh(queue[k], m)
    BY <1>1 DEF Lined, InOrder
  <2>. QED  BY <2>2, <2>3 DEF Fresh
<1>5. \A x \in dropped' :
        \/ x \in dropped
        \/ \E k \in DOMAIN queue : \E j \in DOMAIN queue[k].packets :
             x = queue[k].packets[j].msg
  BY <1>2, ZenonT(40) DEF MessagesOf
<1>6. ASSUME NEW t \in PacketSets, Fresh(t, m),
             \/ \A k \in DOMAIN queue : Before(queue[k], t)
             \/ \A k \in DOMAIN queue : Before(t, queue[k])
      PROVE  Fresh(t, m)'
  <2>1. ASSUME NEW j \in DOMAIN t.packets
        PROVE  t.packets[j].msg \notin dropped'
    <3>1. t.packets[j] \in [msg : Nat, from : Int, size : Int]
      BY SetParts, Element
    <3>2. t.packets[j].msg \notin dropped
      BY <1>6 DEF Fresh
    <3>3. ASSUME NEW k \in DOMAIN queue, NEW i \in DOMAIN queue[k].packets
          PROVE  t.packets[j].msg # queue[k].packets[i].msg
      BY <1>4, <1>6, <3>1 DEF Before
    <3>. QED  BY <1>5, <3>2, <3>3
  <2>. QED  BY <1>2, <1>6, <2>1 DEF Fresh
<1>7. InOrder(m)'
  <2>1. ASSUME NEW k \in DOMAIN handled
        PROVE  handled[k].msg \notin dropped' /\ handled[k].msg < m
    <3>1. handled[k].msg \notin dropped /\ handled[k].msg < m
      BY <1>1 DEF Lined, InOrder
    <3>2. handled[k].msg \in Nat
      <4>1. handled \in Seq([msg : Nat, bytes : Seq(Byte)])
        BY DEF RInv, AsSent
      <4>2. handled[k] \in [msg : Nat, bytes : Seq(Byte)]
        BY <4>1, Element
      <4>. QED  BY <4>2
    <3>3. ASSUME NEW q \in DOMAIN queue, NEW j \in DOMAIN queue[q].packets
          PROVE  handled[k].msg # queue[q].packets[j].msg
      BY <1>4, <3>2
    <3>. QED  BY <1>5, <3>1, <3>3
  <2>2. \A x \in dropped' : x < m
    <3>1. \A x \in dropped : x < m
      BY <1>1 DEF Lined, InOrder
    <3>. QED  BY <1>4, <1>5, <3>1
  <2>3. Fresh(filling, m)'
    <3>1. /\ filling \in PacketSets /\ Fresh(filling, m)
          /\ \A k \in DOMAIN queue : Before(queue[k], filling)
      BY <1>1 DEF IInv, TypeOK, Lined, InOrder
    <3>. QED  BY <1>2, <1>6, <3>1
  <2>4. ASSUME handling # <<>>
        PROVE  Fresh(handling[1], m)' /\ Before(handling[1], filling)
    <3>1. PICK s \in PacketSets : handling = <<s>>
      BY <2>4 DEF OInv, Sets
    <3>2. /\ handling[1] \in PacketSets
          /\ Fresh(handling[1], m) /\ Before(handling[1], filling)
          /\ \A k \in DOMAIN queue : Before(handling[1], queue[k])
      BY <1>1, <2>4, <3>1 DEF Lined, InOrder
    <3>. QED  BY <1>2, <1>6, <3>2
  <2>5. DOMAIN queue' = {}
    BY <1>2
  <2>. QED  BY <1>2, <2>1, <2>2, <2>3, <2>4, <2>5 DEF InOrder, Before
<1>8. ASSUME NEW x, Somewhere(x)
      PROVE  Somewhere(x)'
  <2>1. ASSUME NEW k \in DOMAIN queue, Has(queue[k], x) PROVE x \in dropped'
    <3>1. x \in MessagesOf(queue[k])
      BY <2>1, Zenon DEF Has, MessagesOf
    <3>. QED  BY <1>2, <3>1
  <2>. QED  BY <1>2, <1>8, <2>1 DEF Somewhere, Has
<1>9. Stream'
  <2>1. Lined(m)'
    BY <1>1, <1>2, <1>7, <1>8 DEF Lined
  <2>. QED  BY <1>1, <1>2, <1>3, <2>1, StreamStays DEF Stream
<1>10. Filled' /\ AsSent'
  <2>1. dropped' \subseteq Nat
    BY <1>4, <1>5 DEF RInv, AsSent
  <2>. QED  BY <1>2, <2>1 DEF RInv, Filled, AsSent, Payload, WellFormed
<1>. QED  BY <1>3, <1>9, <1>10 DEF RInv

\* What was not read of a connection that ends is gone with it.
LEMMA ReadsDestroy ==
  ASSUME IInv, OInv, RInv, Destroy
  PROVE  RInv'
<1>1. PICK m \in Nat : Lined(m)
  BY DEF RInv, Stream
<1>2. /\ pc \in {"closed", "rejected"} /\ pc' = "none"
      /\ handling = <<>> /\ handling' = <<>> /\ queue' = <<>>
      /\ UNCHANGED <<sent, handled, dropped, filling>>
  BY Zenon DEF Destroy, streamVars
<1>3. DOMAIN filling.packets = {} /\ DOMAIN queue' = {}
  BY <1>2 DEF OInv, FillingOwned, EmptySet
<1>4. AllSound'
  BY <1>2, <1>3 DEF AllSound, Sound
<1>5. Lined(m)'
  BY <1>1, <1>2, <1>3 DEF Lined, InOrder, Fresh
<1>6. Stream'
  BY <1>1, <1>2, <1>5 DEF Stream, NotWhole, Active
<1>7. Filled' /\ AsSent'
  BY <1>2 DEF RInv, Filled, AsSent, Payload, WellFormed
<1>. QED  BY <1>4, <1>6, <1>7 DEF RInv

-----------------------------------------------------------------------------
\* One step for each action of Next.
LEMMA ReadsNext == IInv /\ OInv /\ RInv /\ [Next]_vars => RInv'
<1>. SUFFICES ASSUME IInv, OInv, RInv, [Next]_vars PROVE RInv'
  OBVIOUS
<1>1. ASSUME NEW b \in Buffers, Initialize(b) PROVE RInv'
  BY <1>1, ReadsInitialize
<1>2. ASSUME NEW b \in Buffers, CopyRemainder(b) PROVE RInv'
  BY <1>2, ReadsCopyRemainder
<1>3. ASSUME NEW n \in 1 .. Room, CompleteRecv(n) PROVE RInv'
  BY <1>3, ReadsCompleteRecv
<1>4. CASE RegisterPacket
  BY <1>4, ReadsRegisterPacket
<1>5. CASE RejectStream
  BY <1>5, ReadsRejectStream
<1>6. CASE StopRegistering
  BY <1>6, ReadsStopRegistering
<1>7. CASE KeepPacket
  BY <1>7, ReadsKeepPacket
<1>8. CASE HandOver
  BY <1>8, ReadsHandOver
<1>9. CASE TakeSet
  BY <1>9, ReadsTakeSet
<1>10. CASE HandlePacket
  BY <1>10, ReadsHandlePacket
<1>11. CASE HandlerFails
  BY <1>11, ReadsHandlerFails
<1>12. CASE ClearJobQ
  BY <1>12, ReadsClearJobQ
<1>13. CASE FreeSet
  BY <1>13, ReadsFreeSet
<1>14. CASE Destroy
  BY <1>14, ReadsDestroy
<1>15. CASE RecvPost \/ EndReceive
  BY <1>15, ReadsStutter DEF RecvPost, EndReceive
<1>16. ASSUME NEW msg \in Messages, ClientSends(msg) PROVE RInv'
  BY <1>16, ReadsClientSends
<1>17. CASE UNCHANGED vars
  BY <1>17, ReadsStutter DEF vars
<1>. QED
  BY <1>1, <1>2, <1>3, <1>4, <1>5, <1>6, <1>7, <1>8, <1>9, <1>10, <1>11, <1>12, <1>13,
     <1>14, <1>15, <1>16, <1>17, Zenon DEF Next, Receive, Handle

\* With nothing on its way the stream is registered to its end: what is left would
\* be a message that is not whole, and clients send whole ones.
LEMMA AllRegistered ==
  ASSUME IInv, pc = "posted", wire = <<>>, NEW m \in Nat, NotWhole(m),
         NEW off, Laid(off, m)
  PROVE  m = Len(sent) + 1
<1>1. pc \in Active /\ Len(wire) = 0
  BY DEF Active
<1>2. m \in 1 .. Len(sent) + 1 /\ Len(sent) \in Nat /\ Unread \in Nat
  BY <1>1, Lengths DEF Laid
<1>3. ASSUME m <= Len(sent) PROVE FALSE
  <2>1. m \in m .. Len(sent) /\ m \in 1 .. Len(sent)
    BY <1>2, <1>3
  <2>2. sent[m].size \in Nat /\ eNET_HEADER_SIZE \in Nat \ {0}
    BY <1>1, <2>1, Lengths
  <2>3. Unread < eNET_HEADER_SIZE + sent[m].size
    BY <1>3 DEF NotWhole
  <2>4. 1 \in 1 .. eNET_HEADER_SIZE + sent[m].size
    BY <2>2
  <2>5. /\ off[m] + eNET_HEADER_SIZE + sent[m].size <= Unread + Len(wire)
        /\ off[m] = 0
    BY <1>1, <2>1, <2>4, InStream DEF Laid
  <2>. QED  BY <1>1, <1>2, <2>2, <2>3, <2>5
<1>. QED  BY <1>2, <1>3

\* What handlers read is in order, and what they never read was dropped.
LEMMA ReadsImplies == IInv /\ OInv /\ RInv => ReadsWhatWasSent
<1>. SUFFICES ASSUME IInv, OInv, RInv PROVE ReadsWhatWasSent
  OBVIOUS
<1>1. PICK m \in Nat :
        /\ Lined(m) /\ NotWhole(m)
        /\ pc \in Active => \E off : Laid(off, m)
  BY DEF RInv, Stream
<1>2. ASSUME NEW k \in DOMAIN handled
      PROVE  /\ handled[k].msg \in DOMAIN sent \ dropped
             /\ handled[k].bytes = Payload(handled[k].msg)
             /\ \A j \in 1 .. k - 1 : handled[j].msg < handled[k].msg
  <2>1. handled[k].msg \notin dropped
    BY <1>1 DEF Lined, InOrder
  <2>2. \A j \in 1 .. k - 1 : j \in DOMAIN handled /\ j < k
    BY DEF RInv, AsSent
  <2>. QED  BY <2>1, <2>2 DEF RInv, AsSent
<1>3. ASSUME pc = "posted", wire = <<>>, queue = <<>>, handling = <<>>,
             NEW n \in DOMAIN sent \ dropped
      PROVE  \E k \in DOMAIN handled : handled[k].msg = n
  <2>1. pc \in Active /\ pc \notin {"rejected", "none"}
    BY <1>3 DEF Active
  <2>2. m = Len(sent) + 1
    BY <1>1, <1>3, <2>1, AllRegistered
  <2>3. n \in Nat \ {0} /\ n < m
    BY <2>2 DEF IInv, TypeOK
  <2>4. Somewhere(n)
    BY <1>1, <2>1, <2>3 DEF Lined
  <2>5. DOMAIN queue = {} /\ ~Has(filling, n)
    BY <1>3 DEF OInv, FillingOwned, EmptySet, Has
  <2>. QED  BY <1>3, <2>4, <2>5 DEF Somewhere
<1>4. pc = "rejected" => \E k \in DOMAIN sent : ~WellFormed(sent[k])
  BY DEF RInv, AsSent
<1>. QED  BY <1>2, <1>3, <1>4 DEF ReadsWhatWasSent

\* However the network cuts the stream, whatever handlers make of their packets and
\* whenever the user moves, handlers read payloads as they were sent, in their
\* order, none twice, each decoded once, from buffers nobody else writes; of what
\* was received only the rest of a refused set and the sets freed at a move are
\* missing in the end, and none of these was read; and a stream is only rejected
\* for a message that is wrong: for any sizes, buffers, messages and connections.
THEOREM ReadsWhatWasSentHolds == Spec => []ReadsWhatWasSent
<1>1. Spec => []IInv
  BY UnreadIsShort
<1>2. Init => OInv /\ RInv
  BY OwnInit, ReadsInit
<1>3. IInv /\ OInv /\ RInv /\ [Next]_vars => OInv' /\ RInv'
  BY OwnNext, ReadsNext
<1>4. IInv /\ OInv /\ RInv => ReadsWhatWasSent
  BY ReadsImplies
<1>. QED  BY <1>1, <1>2, <1>3, <1>4, PTL DEF Spec
=============================================================================
