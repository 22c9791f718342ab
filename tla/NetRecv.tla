------------------------------- MODULE NetRecv --------------------------------
(***************************************************************************)
(* The receive path of a session: bytes of a stream come in pieces of any  *)
(* length into a buffer (NetLargePacket), the whole packets in it become a *)
(* packet set that points into the buffer, and what is left over is copied *)
(* before the middle of a fresh one.                                       *)
(*                                                                         *)
(* A worker registers packets, copies, hands the set over and posts the    *)
(* next receive; another thread reads the packets of the sets handed over  *)
(* from the old buffers meanwhile.  A buffer that is freed is at once used *)
(* by another session.                                                     *)
(*                                                                         *)
(* A byte is known by its message and its place in it; the code, size, key *)
(* and checksum of the header are what the message says of them.  Decoding *)
(* is in place: a byte decoded twice is garbage.                           *)
(***************************************************************************)
EXTENDS Integers, Sequences, FiniteSets

CONSTANTS
  eNET_HEADER_SIZE,
  eNET_PROTOCOL_MSG_MAX_LEN,
  eBUFFER_CENTER,
  eNET_PACKET_SET_MAX_COUNT,
  Buffers,            \* the memory of the pool
  NoBuffer,           \* nullptr
  MaxSets,            \* bound: sets handed over and not yet freed
  MaxMessages,        \* bound: messages of all connections
  MaxConnections      \* bound: connections that use the slot

\* A longest packet fits in either half of a buffer: 5 + 512 in 4096.
ASSUME RecvAssumption ==
  /\ eNET_HEADER_SIZE \in Nat \ {0} /\ eNET_PROTOCOL_MSG_MAX_LEN \in Nat
  /\ eBUFFER_CENTER \in Nat
  /\ eNET_HEADER_SIZE + eNET_PROTOCOL_MSG_MAX_LEN + 1 < eBUFFER_CENTER
  /\ eNET_PACKET_SET_MAX_COUNT \in Nat /\ NoBuffer \notin Buffers
  /\ MaxSets \in Nat /\ MaxMessages \in Nat /\ MaxConnections \in Nat

start == eBUFFER_CENTER
end   == 2 * eBUFFER_CENTER - 1

Positions == 0 .. end
Garbage   == [msg |-> 0, at |-> 0, plain |-> FALSE]

VARIABLES
  sent,                            \* history: the messages of this connection
  wire,                            \* bytes on their way
  data,                            \* data_ of each buffer
  pool,                            \* the buffers that are free
  recvPacket,                      \* recvPacket_ of the session
  readPos, prevReadPos, writePos,  \* positions of that buffer
  pc,                              \* where the session's receive is
  filling,                         \* the set the worker fills
  queue,                           \* the sets handed over
  handling,                        \* the set whose packets are read: at most one
  handled,                         \* history: what was read, packet by packet
  dropped,                         \* history: the messages freed unread
  crashed,                         \* why the process ended, "" while it runs
  canceled,                        \* isIOCanceled_
  connections, messages            \* counts for the bounds

streamVars == <<sent, wire, messages>>
posVars    == <<readPos, prevReadPos, writePos>>
readVars   == <<queue, handling, handled, dropped>>
endVars    == <<crashed, canceled, connections>>
vars == <<streamVars, data, pool, recvPacket, posVars, pc, filling, readVars,
          endVars>>

-----------------------------------------------------------------------------
EmptySet == [packets |-> <<>>, originalPacket |-> NoBuffer]

Init ==
  /\ sent = <<>> /\ wire = <<>> /\ messages = 0
  /\ data = [b \in Buffers |-> [p \in Positions |-> Garbage]]
  /\ pool = Buffers /\ recvPacket = NoBuffer
  /\ readPos = start /\ prevReadPos = start /\ writePos = start
  /\ pc = "none" /\ filling = EmptySet
  /\ queue = <<>> /\ handling = <<>> /\ handled = <<>> /\ dropped = {}
  /\ crashed = "" /\ canceled = FALSE /\ connections = 0

Crash(why) ==
  /\ crashed' = why
  /\ UNCHANGED <<streamVars, data, pool, recvPacket, posVars, pc, filling,
                 readVars, canceled, connections>>

\* Freed buffers hold what other sessions put there.
Overwritten(bs) == [b \in Buffers |-> IF b \in bs THEN [p \in Positions |-> Garbage]
                                                  ELSE data[b]]
FreeBuffers(bs) == pool' = pool \cup bs /\ data' = Overwritten(bs)

\* NetPacketSet::Free, of some sets at once.
FreeSets(ss) == FreeBuffers({s.originalPacket : s \in ss} \ {NoBuffer})

-----------------------------------------------------------------------------
(***************************************************************************)
(* The stream.                                                             *)
(***************************************************************************)
Kinds == {"good", "wrongCode", "wrongSum"}

\* What a client may send: any size, one more than the longest included.
Messages == [size : 0 .. eNET_PROTOCOL_MSG_MAX_LEN + 1, kind : Kinds]

WellFormed(m) == m.kind = "good" /\ m.size <= eNET_PROTOCOL_MSG_MAX_LEN

\* The bytes of the k-th message as Encode leaves them, header and payload.
Encoded(k, m) == [i \in 1 .. eNET_HEADER_SIZE + m.size |->
                    [msg |-> k, at |-> i, plain |-> FALSE]]

\* What a handler should read of it.
Payload(k) == [i \in 1 .. sent[k].size |->
                 [msg |-> k, at |-> eNET_HEADER_SIZE + i, plain |-> TRUE]]

ClientSends(m) ==
  /\ pc # "none" /\ messages < MaxMessages
  /\ \A k \in DOMAIN sent : WellFormed(sent[k])
  /\ sent' = Append(sent, m)
  /\ wire' = wire \o Encoded(Len(sent) + 1, m)
  /\ messages' = messages + 1
  /\ UNCHANGED <<data, pool, recvPacket, posVars, pc, filling, readVars, endVars>>

-----------------------------------------------------------------------------
(***************************************************************************)
(* The session and its receive.                                            *)
(***************************************************************************)
GetUsedSize == writePos - readPos

\* Mutant: a receive may fill the buffer to its end.
RoomToEnd == end - writePos

\* The length of a posted receive.
Room == (end - writePos) - 1

\* Initialize: a connection takes the slot, with a fresh buffer.
Initialize(b) ==
  /\ pc = "none" /\ connections < MaxConnections /\ b \in pool
  /\ pool' = pool \ {b} /\ recvPacket' = b
  /\ readPos' = start /\ prevReadPos' = start /\ writePos' = start
  /\ pc' = "post" /\ connections' = connections + 1 /\ canceled' = FALSE
  /\ sent' = <<>> /\ wire' = <<>> /\ handled' = <<>> /\ dropped' = {}
  /\ UNCHANGED <<data, messages, filling, queue, handling, crashed>>

RecvPost ==
  /\ pc = "post" /\ pc' = "posted"
  /\ UNCHANGED <<streamVars, data, pool, recvPacket, posVars, filling, readVars,
                 endVars>>

\* MoveWritePos refuses what does not fit.
isFullWithWritePos(n) == writePos + n >= end

\* The receive ends with n bytes: a set is made and points to the buffer.
CompleteRecv(n) ==
  /\ pc = "posted" /\ ~canceled /\ n <= Room /\ n <= Len(wire)
  /\ IF isFullWithWritePos(n)
     THEN Crash("OnRecvComplete - Recv Packet Full")
     ELSE /\ data' = [data EXCEPT ![recvPacket] =
                        [p \in Positions |->
                           IF p \in writePos .. writePos + n - 1
                           THEN wire[p - writePos + 1] ELSE @[p]]]
          /\ wire' = SubSeq(wire, n + 1, Len(wire))
          /\ writePos' = writePos + n /\ prevReadPos' = readPos
          /\ filling' = [packets |-> <<>>, originalPacket |-> recvPacket]
          /\ pc' = "register"
          /\ UNCHANGED <<sent, messages, pool, recvPacket, readPos, readVars,
                         endVars>>

\* The client closes, or the session was canceled: what came is not looked at.
EndReceive ==
  /\ pc = "posted" /\ pc' = "closed"
  /\ UNCHANGED <<streamVars, data, pool, recvPacket, posVars, filling, readVars,
                 endVars>>

-----------------------------------------------------------------------------
(***************************************************************************)
(* RegisterPackets: one action for each turn of its loop.                  *)
(***************************************************************************)
ByteAt(p) == data[recvPacket][p]

\* The message whose header starts at readPos, 0 when that is no header.
HeaderAt ==
  LET k == ByteAt(readPos).msg
  IN  IF \A i \in 1 .. eNET_HEADER_SIZE :
           /\ ByteAt(readPos + i - 1).msg = k /\ ByteAt(readPos + i - 1).at = i
      THEN k ELSE 0

isSmallerThanHeaderSize == GetUsedSize < eNET_HEADER_SIZE

CodeIsRight == HeaderAt # 0 /\ sent[HeaderAt].kind # "wrongCode"

packetSize == sent[HeaderAt].size

SizeIsTooLarge == packetSize > eNET_PROTOCOL_MSG_MAX_LEN

IsPart == GetUsedSize - eNET_HEADER_SIZE < packetSize

\* Whether Decode finds its checksum.
SumIsRight ==
  /\ sent[HeaderAt].kind = "good"
  /\ \A i \in eNET_HEADER_SIZE .. eNET_HEADER_SIZE + packetSize :
       ByteAt(readPos + i - 1) = [msg |-> HeaderAt, at |-> i, plain |-> FALSE]

\* Decode overwrites the checksum and the payload.
Decoded ==
  [data EXCEPT ![recvPacket] =
     [p \in Positions |->
        IF p - readPos + 1 \in eNET_HEADER_SIZE .. eNET_HEADER_SIZE + packetSize
        THEN [@[p] EXCEPT !.plain = TRUE] ELSE @[p]]]

RegisterPacket ==
  /\ pc = "register" /\ ~isSmallerThanHeaderSize
  /\ CodeIsRight /\ ~SizeIsTooLarge /\ ~IsPart /\ SumIsRight
  /\ IF Len(filling.packets) >= eNET_PACKET_SET_MAX_COUNT
     THEN Crash("PacketSet Enq Failed : Already Max Size")
     ELSE /\ data' = Decoded
          /\ readPos' = readPos + eNET_HEADER_SIZE + packetSize
          /\ filling' = [filling EXCEPT !.packets =
                           Append(@, [msg |-> HeaderAt,
                                      from |-> readPos + eNET_HEADER_SIZE,
                                      size |-> packetSize])]
          /\ UNCHANGED <<streamVars, pool, recvPacket, prevReadPos, writePos, pc,
                         readVars, endVars>>

\* Mutant: an error leaves the session's buffer with the set, which frees it.
RejectStreamKeeps ==
  /\ pc = "register" /\ ~isSmallerThanHeaderSize
  /\ \/ ~CodeIsRight
     \/ CodeIsRight /\ SizeIsTooLarge
     \/ CodeIsRight /\ ~SizeIsTooLarge /\ ~IsPart /\ ~SumIsRight
  /\ FreeSets({filling}) /\ filling' = EmptySet
  /\ pc' = "rejected"
  /\ canceled' = TRUE
  /\ UNCHANGED <<streamVars, recvPacket, posVars, readVars, crashed, connections>>

\* An error: the set is freed without the buffer, what it held is dropped, and
\* the session is disconnected.
RejectStream ==
  /\ pc = "register" /\ ~isSmallerThanHeaderSize
  /\ \/ ~CodeIsRight
     \/ CodeIsRight /\ SizeIsTooLarge
     \/ CodeIsRight /\ ~SizeIsTooLarge /\ ~IsPart /\ ~SumIsRight
  /\ filling' = EmptySet
  /\ pc' = "rejected"
  /\ canceled' = TRUE
  /\ UNCHANGED <<streamVars, data, pool, recvPacket, posVars, readVars, crashed,
                 connections>>

StopRegistering ==
  /\ pc = "register"
  /\ isSmallerThanHeaderSize \/ (CodeIsRight /\ ~SizeIsTooLarge /\ IsPart)
  /\ pc' = "copy"
  /\ UNCHANGED <<streamVars, data, pool, recvPacket, posVars, filling, readVars,
                 endVars>>

-----------------------------------------------------------------------------
(***************************************************************************)
(* CopyRemainderToNewPacket, handing over, handling.                       *)
(***************************************************************************)
\* No packet in the buffer: it is kept, and the empty set is freed.
KeepPacket ==
  /\ pc = "copy" /\ filling.packets = <<>>
  /\ readPos' = prevReadPos
  /\ filling' = EmptySet /\ pc' = "post"
  /\ UNCHANGED <<streamVars, data, pool, recvPacket, prevReadPos, writePos,
                 readVars, endVars>>

\* Mutant: the remainder goes behind the middle, where the next receive goes.
CopyRemainderToStart(b) ==
  /\ pc = "copy" /\ filling.packets # <<>> /\ b \in pool
  /\ pool' = pool \ {b} /\ recvPacket' = b
  /\ readPos' = start /\ prevReadPos' = start /\ writePos' = start
  /\ data' = [data EXCEPT ![b] =
                [p \in Positions |-> IF p \in start .. start + GetUsedSize - 1
                                     THEN ByteAt(readPos + (p - start))
                                     ELSE @[p]]]
  /\ pc' = "handover"
  /\ UNCHANGED <<streamVars, filling, readVars, endVars>>

\* Otherwise the rest goes before the middle of a fresh buffer.
CopyRemainder(b) ==
  /\ pc = "copy" /\ filling.packets # <<>> /\ b \in pool
  /\ IF GetUsedSize > eBUFFER_CENTER
     THEN Crash("CopyRemainterToNew - Not Enough Buffer Space")
     ELSE /\ pool' = pool \ {b} /\ recvPacket' = b
          /\ readPos' = start - GetUsedSize
          /\ prevReadPos' = start /\ writePos' = start
          /\ data' = [data EXCEPT ![b] =
                        [p \in Positions |->
                           IF p \in start - GetUsedSize .. start - 1
                           THEN ByteAt(readPos + (p - (start - GetUsedSize)))
                           ELSE @[p]]]
          /\ pc' = "handover"
          /\ UNCHANGED <<streamVars, filling, readVars, endVars>>

\* OnRecv puts the set into the session's job queue.
HandOver ==
  /\ pc = "handover" /\ Len(queue) + Len(handling) < MaxSets
  /\ queue' = Append(queue, filling)
  /\ filling' = EmptySet /\ pc' = "post"
  /\ UNCHANGED <<streamVars, data, pool, recvPacket, posVars, handling, handled,
                 dropped, endVars>>

TakeSet ==
  /\ handling = <<>> /\ queue # <<>>
  /\ handling' = <<Head(queue)>> /\ queue' = Tail(queue)
  /\ UNCHANGED <<streamVars, data, pool, recvPacket, posVars, pc, filling,
                 handled, dropped, endVars>>

\* PacketProc reads a packet out of the set's buffer.
ReadsPacket ==
  /\ handling # <<>> /\ handling[1].packets # <<>>
  /\ LET p == Head(handling[1].packets)
     IN  handled' = Append(handled,
           [msg   |-> p.msg,
            bytes |-> [i \in 1 .. p.size |->
                         data[handling[1].originalPacket][p.from + i - 1]]])

HandlePacket ==
  /\ ReadsPacket
  /\ handling' = <<[handling[1] EXCEPT !.packets = Tail(@)]>>
  /\ UNCHANGED <<streamVars, data, pool, recvPacket, posVars, pc, filling, queue,
                 dropped, endVars>>

MessagesOf(s) == {s.packets[j].msg : j \in DOMAIN s.packets}

\* A handler is not content with its packet: the rest of the set is freed unread
\* and the session disconnected.  The sets in the queue stay there, and those of
\* them that a later frame still sees are handled.
HandlerFails ==
  /\ ReadsPacket
  /\ dropped' = dropped \cup (MessagesOf(handling[1])
                               \ {Head(handling[1].packets).msg})
  /\ FreeSets({handling[1]}) /\ handling' = <<>>
  /\ canceled' = TRUE
  /\ UNCHANGED <<streamVars, recvPacket, posVars, pc, filling, queue, crashed,
                 connections>>

\* A move to another pipe frees the sets in the queue; a handler may ask for it
\* while its own set is read.  (How the steps of it meet those of HandOver is in
\* JobQueue.)
ClearJobQ ==
  /\ queue # <<>> /\ queue' = <<>>
  /\ dropped' = dropped \cup UNION {MessagesOf(queue[k]) : k \in DOMAIN queue}
  /\ FreeSets({queue[k] : k \in DOMAIN queue})
  /\ UNCHANGED <<streamVars, recvPacket, posVars, pc, filling, handling, handled,
                 endVars>>

FreeSet ==
  /\ handling # <<>> /\ handling[1].packets = <<>>
  /\ FreeSets({handling[1]}) /\ handling' = <<>>
  /\ UNCHANGED <<streamVars, recvPacket, posVars, pc, filling, queue, handled,
                 dropped, endVars>>

\* Once no reference is left the thread that handles sets destroys the session:
\* its buffer and the sets in its queue are freed.
Destroy ==
  /\ pc \in {"closed", "rejected"} /\ handling = <<>>
  /\ FreeBuffers({recvPacket} \cup {queue[k].originalPacket : k \in DOMAIN queue})
  /\ queue' = <<>> /\ recvPacket' = NoBuffer /\ pc' = "none"
  /\ UNCHANGED <<streamVars, posVars, filling, handling, handled, dropped, endVars>>

-----------------------------------------------------------------------------
Receive ==
  \/ \E b \in Buffers : Initialize(b) \/ CopyRemainder(b)
  \/ \E n \in 1 .. Room : CompleteRecv(n)
  \/ RecvPost \/ EndReceive \/ RegisterPacket \/ RejectStream \/ StopRegistering
  \/ KeepPacket \/ HandOver

Handle ==
  TakeSet \/ HandlePacket \/ HandlerFails \/ FreeSet \/ ClearJobQ \/ Destroy

Next == crashed = "" /\ (Receive \/ Handle \/ \E m \in Messages : ClientSends(m))

Spec == Init /\ [][Next]_vars

-----------------------------------------------------------------------------
(***************************************************************************)
(* Properties.                                                             *)
(***************************************************************************)
\* However the network cuts the stream, whatever handlers make of their packets and
\* whenever the user moves: what handlers read are payloads of messages as they
\* were sent, in their order, none twice, each decoded once, from buffers nobody
\* else writes.  When all that was sent has been received and nothing is left to
\* handle, no message is missing but those freed unread, behind the packet of its
\* set that a handler refused or in the queue at a move, and none of these is read.
\* And a stream is only rejected for a message that is wrong.
ReadsWhatWasSent ==
  /\ \A k \in DOMAIN handled :
       /\ handled[k].msg \in DOMAIN sent \ dropped
       /\ handled[k].bytes = Payload(handled[k].msg)
       /\ \A j \in 1 .. k - 1 : handled[j].msg < handled[k].msg
  /\ (pc = "posted" /\ wire = <<>> /\ queue = <<>> /\ handling = <<>>)
       => \A n \in DOMAIN sent \ dropped : \E k \in DOMAIN handled : handled[k].msg = n
  /\ pc = "rejected" => \E k \in DOMAIN sent : ~WellFormed(sent[k])

\* How many references there are to a buffer once the worker is done with it.
Holders(b) ==
    (IF recvPacket = b THEN 1 ELSE 0)
  + Cardinality({k \in DOMAIN queue : queue[k].originalPacket = b})
  + Cardinality({k \in DOMAIN handling : handling[k].originalPacket = b})

\* Whenever no worker is inside a completion, each buffer is free or has exactly
\* one holder, the session or a set: on every way out of RegisterPackets it is
\* freed once and by whoever is left with it, and none is lost.
OneHolder ==
  pc \in {"posted", "closed", "rejected", "none"} =>
    \A b \in Buffers : Holders(b) = IF b \in pool THEN 0 ELSE 1

\* A posted receive has room (a receive of no bytes would look like the end of
\* the stream), what comes always fits behind it, and what is left over always
\* fits before the middle of the next buffer: the process never ends there.
NeverOverruns ==
  /\ pc = "posted" => Room > 0
  /\ crashed \notin {"OnRecvComplete - Recv Packet Full",
                     "CopyRemainterToNew - Not Enough Buffer Space"}
=============================================================================
