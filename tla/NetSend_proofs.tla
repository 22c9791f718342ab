--------------------------- MODULE NetSend_proofs ---------------------------
(***************************************************************************)
(* Proofs about NetSend, for every number of threads and packets, every    *)
(* length of the send queue, and both ways the server may be started.      *)
(*                                                                         *)
(* The argument: a session that is dead is quiet, because its word was 0   *)
(* when it died and the word counts every reference, while none is missing *)
(* because WSASend ended in the way the server was not started for.  So    *)
(* the flag has one owner at most, a thread or the kernel; what the owner  *)
(* took out of the queue is between what was sent and what waits; and each *)
(* packet is in one place.                                                 *)
(***************************************************************************)
EXTENDS NetSend, FiniteSetTheorems, SequenceTheorems, TLAPS

\* A thread has a packet in hand from its request until the queue has it.
Carrying == {"acquire", "chkCancel", "chkFull", "enqueue"}
Hands == \A t \in Threads : pkt[t] # 0 <=> pc[t] \in Carrying

\* The type invariant in the parts that steps change together.
Scalars ==
  /\ isSendIOPending \in Modes
  /\ IOcount \in Int /\ dead \in BOOLEAN
  /\ canceled \in BOOLEAN /\ sending \in BOOLEAN
  /\ sendIO \in IOStates /\ recvIO \in IOStates
  /\ signs \in Nat
  /\ pc \in [Threads -> PCs]
  /\ how \in [Threads -> Ops]
  /\ sendRefs \in 0..2 /\ miscounted \in Int
Sequences4 ==
  /\ sendQ \in Seq(Packets) /\ sentQ \in Seq(Packets)
  /\ accepted \in Seq(Packets) /\ wire \in Seq(Packets)
PacketSets ==
  /\ posts \subseteq Packets \X Posts
  /\ pkt \in [Threads -> Packets \cup {0}]
  /\ freed \subseteq Packets /\ created \in 0..MaxPackets

\* TypeOK by its parts.
LEMMA TypeParts == TypeOK <=> Scalars /\ Sequences4 /\ PacketSets
  BY DEF TypeOK, Scalars, Sequences4, PacketSets

USE BoundsAssumption, ModeAssumption
    DEF Goto, countVars, queueVars, refVars, kernelVars, portVars, threadVars, packetVars

\* Counts, flags and places in the code.
LEMMA ScalarsStep == TypeOK /\ [Next]_vars => Scalars'
<1> SUFFICES ASSUME Scalars, PacketSets, [Next]_vars
             PROVE  Scalars'
  BY TypeParts
<1> USE DEF Scalars, PCs, Draining, Completing, IOStates, Results, Ops
<1>1. ASSUME NEW t \in Threads, ThreadStep(t)
      PROVE  Scalars'
  <2>1. CASE AcquireSession(t)  BY <2>1 DEF AcquireSession, FreeInHand
  <2>2. CASE CheckCanceled(t)  BY <2>2 DEF CheckCanceled, FreeInHand
  <2>3. CASE CheckFull(t)  BY <2>3 DEF CheckFull, FreeInHand
  <2>4. CASE Enqueue(t)  BY <2>4 DEF Enqueue
  <2>5. CASE PeekSending(t)  BY <2>5 DEF PeekSending
  <2>6. CASE TakeSendFlag(t)  BY <2>6 DEF TakeSendFlag
  <2>7. CASE FreeSentPacket(t)  BY <2>7 DEF FreeSentPacket
  <2>8. CASE DequeueSendQ(t)  BY <2>8 DEF DequeueSendQ
  <2>9. CASE SendQEmpty(t)  BY <2>9 DEF SendQEmpty
  <2>10. CASE SetSendFlagFalse(t)  BY <2>10, ZenonT(30) DEF SetSendFlagFalse
  <2>11. CASE WSASend(t)  BY <2>11 DEF WSASend
  <2>12. CASE AfterPending(t)  BY <2>12 DEF AfterPending
  <2>13. CASE SpinForFlag(t)  BY <2>13 DEF SpinForFlag
  <2>14. CASE SpinLook(t)  BY <2>14 DEF SpinLook
  <2>15. CASE DisconnectLooks(t)  BY <2>15 DEF DisconnectLooks
  <2>16. CASE SetCanceled(t)  BY <2>16 DEF SetCanceled
  <2>17. CASE CancelIO(t)  BY <2>17 DEF CancelIO, Cancelled
  <2>18. CASE DecrementIOCount(t)  BY <2>18 DEF DecrementIOCount, GiveBack
  <2>19. CASE SubIOCount(t)  BY <2>19 DEF SubIOCount, GiveBack
  <2>20. CASE ReleaseSession(t)  BY <2>20 DEF ReleaseSession
  <2>21. CASE Destroy(t)  BY <2>21 DEF Destroy, Cancelled
  <2>22. CASE OnAborted(t)  BY <2>22 DEF OnAborted
  <2>23. CASE OnSendCount(t)  BY <2>23 DEF OnSendCount
  <2>24. CASE OnSendCanceled(t)  BY <2>24 DEF OnSendCanceled
  <2>25. QED
    BY <1>1, <2>1, <2>2, <2>3, <2>4, <2>5, <2>6, <2>7, <2>8, <2>9, <2>10, <2>11, <2>12, <2>13,
       <2>14, <2>15, <2>16, <2>17, <2>18, <2>19, <2>20, <2>21, <2>22, <2>23, <2>24 DEF
       ThreadStep
<1>2. ASSUME NEW t \in Senders, NEW op \in Ops, SendPacket(t, op)
      PROVE  Scalars'
  BY <1>2 DEF SendPacket, FindForSend, Threads
<1>3. ASSUME NEW t \in Senders, NEW op \in Posts, Post(t, op)
      PROVE  Scalars'
  BY <1>3 DEF Post
<1>4. ASSUME NEW t \in Senders, Disconnect(t)
      PROVE  Scalars'
  BY <1>4 DEF Disconnect, Threads
<1>5. ASSUME NEW w \in Workers, NEW m \in posts, TakePost(w, m)
      PROVE  Scalars'
  <2>1. m[2] \in Ops  BY DEF PacketSets
  <2>2. QED           BY <1>5, <2>1 DEF TakePost, FindForSend, Threads
<1>6. ASSUME NEW w \in Workers, TakeSign(w)
      PROVE  Scalars'
  BY <1>6 DEF TakeSign, Threads
<1>7. ASSUME NEW w \in Workers, TakeSendCompletion(w) \/ TakeRecvCompletion(w)
      PROVE  Scalars'
  BY <1>7 DEF TakeSendCompletion, TakeRecvCompletion, Threads
<1>8. CASE KernelSends \/ KernelEndsReceive
  BY <1>8 DEF KernelSends, KernelEndsReceive, Finished
<1>9. CASE UNCHANGED vars
  BY <1>9 DEF vars
<1>10. QED
  BY <1>1, <1>2, <1>3, <1>4, <1>5, <1>6, <1>7, <1>8, <1>9 DEF Next
\* Few steps touch a packet or a queue.
DataKept == UNCHANGED <<queueVars, wire, posts, pkt, freed, created>>
Refuses(t) == /\ \/ AcquireSession(t) /\ dead
                 \/ CheckCanceled(t) /\ canceled
                 \/ CheckFull(t) /\ Len(sendQ) >= SendQMax
              /\ pc[t] \in Carrying
              /\ FreeInHand(t)
              /\ UNCHANGED <<queueVars, wire, posts, created>>

\* Every other step leaves them.
LEMMA StepsOnData ==
  ASSUME TypeOK, [Next]_vars
  PROVE  \/ DataKept
         \/ \E t \in Threads : \/ Refuses(t) \/ Enqueue(t) \/ FreeSentPacket(t)
                               \/ DequeueSendQ(t) \/ WSASend(t) \/ Destroy(t)
         \/ \E t \in Threads, op \in Ops : SendPacket(t, op)
         \/ \E t \in Threads, op \in Posts : Post(t, op)
         \/ \E t \in Threads, m \in posts : TakePost(t, m)
<1> USE DEF DataKept, Carrying, Refuses
<1>1. ASSUME NEW t \in Threads, ThreadStep(t)
      PROVE  DataKept \/ Refuses(t) \/ Enqueue(t) \/ FreeSentPacket(t)
                \/ DequeueSendQ(t) \/ WSASend(t) \/ Destroy(t)
  <2>1. CASE AcquireSession(t)  BY <2>1 DEF AcquireSession, FreeInHand
  <2>2. CASE CheckCanceled(t)  BY <2>2 DEF CheckCanceled, FreeInHand
  <2>3. CASE CheckFull(t)  BY <2>3 DEF CheckFull, FreeInHand
  <2>4. CASE Enqueue(t)  BY <2>4 DEF Enqueue
  <2>5. CASE PeekSending(t)  BY <2>5 DEF PeekSending
  <2>6. CASE TakeSendFlag(t)  BY <2>6 DEF TakeSendFlag
  <2>7. CASE FreeSentPacket(t)  BY <2>7 DEF FreeSentPacket
  <2>8. CASE DequeueSendQ(t)  BY <2>8 DEF DequeueSendQ
  <2>9. CASE SendQEmpty(t)  BY <2>9 DEF SendQEmpty
  <2>10. CASE SetSendFlagFalse(t)  BY <2>10 DEF SetSendFlagFalse
  <2>11. CASE WSASend(t)  BY <2>11 DEF WSASend
  <2>12. CASE AfterPending(t)  BY <2>12 DEF AfterPending
  <2>13. CASE SpinForFlag(t)  BY <2>13 DEF SpinForFlag
  <2>14. CASE SpinLook(t)  BY <2>14 DEF SpinLook
  <2>15. CASE DisconnectLooks(t)  BY <2>15 DEF DisconnectLooks
  <2>16. CASE SetCanceled(t)  BY <2>16 DEF SetCanceled
  <2>17. CASE CancelIO(t)  BY <2>17 DEF CancelIO, Cancelled
  <2>18. CASE DecrementIOCount(t)  BY <2>18 DEF DecrementIOCount, GiveBack
  <2>19. CASE SubIOCount(t)  BY <2>19 DEF SubIOCount, GiveBack
  <2>20. CASE ReleaseSession(t)  BY <2>20 DEF ReleaseSession
  <2>21. CASE Destroy(t)  BY <2>21 DEF Destroy, Cancelled
  <2>22. CASE OnAborted(t)  BY <2>22 DEF OnAborted
  <2>23. CASE OnSendCount(t)  BY <2>23 DEF OnSendCount
  <2>24. CASE OnSendCanceled(t)  BY <2>24 DEF OnSendCanceled
  <2>25. QED
    BY <1>1, <2>1, <2>2, <2>3, <2>4, <2>5, <2>6, <2>7, <2>8, <2>9, <2>10, <2>11, <2>12, <2>13,
       <2>14, <2>15, <2>16, <2>17, <2>18, <2>19, <2>20, <2>21, <2>22, <2>23, <2>24 DEF
       ThreadStep
<1>2. ASSUME NEW w \in Workers, TakeSign(w) \/ TakeSendCompletion(w) \/ TakeRecvCompletion(w)
      PROVE  DataKept
  BY <1>2 DEF TakeSign, TakeSendCompletion, TakeRecvCompletion
<1>3. CASE KernelSends \/ KernelEndsReceive
  BY <1>3 DEF KernelSends, KernelEndsReceive
<1>4. CASE \E t \in Senders : Disconnect(t)
  BY <1>4 DEF Disconnect
<1>5. CASE UNCHANGED vars
  BY <1>5 DEF vars
<1>6. QED
  BY <1>1, <1>2, <1>3, <1>4, <1>5 DEF Next, Threads

\* Queues hold packets.
LEMMA SequencesStep == TypeOK /\ Hands /\ [Next]_vars => Sequences4'
<1> SUFFICES ASSUME TypeOK, Hands, [Next]_vars
             PROVE  Sequences4'
  OBVIOUS
<1>0. Sequences4  BY TypeParts
<1> USE DEF Sequences4
<1>1. CASE DataKept  BY <1>0, <1>1 DEF DataKept
<1>2. ASSUME NEW t \in Threads, Enqueue(t) PROVE Sequences4'
  <2>1. pkt[t] \in Packets  BY <1>2, TypeParts DEF Enqueue, Hands, Carrying, PacketSets
  <2>2. QED  BY <1>0, <1>2, <2>1 DEF Enqueue
<1>3. ASSUME NEW t \in Threads,
             Refuses(t) \/ FreeSentPacket(t) \/ DequeueSendQ(t) \/ WSASend(t) \/ Destroy(t)
      PROVE  Sequences4'
  <2>1. CASE Refuses(t)         BY <1>0, <2>1 DEF Refuses
  <2>2. CASE FreeSentPacket(t)  BY <1>0, <2>2 DEF FreeSentPacket
  <2>3. CASE DequeueSendQ(t)    BY <1>0, <2>3, HeadTailProperties DEF DequeueSendQ
  <2>4. CASE WSASend(t)
    <3>1. wire \o sentQ \in Seq(Packets)  BY <1>0, ConcatProperties
    <3>2. QED                             BY <1>0, <2>4, <3>1 DEF WSASend
  <2>5. CASE Destroy(t)         BY <1>0, <2>5 DEF Destroy
  <2>6. QED                     BY <1>3, <2>1, <2>2, <2>3, <2>4, <2>5
<1>4. ASSUME NEW t \in Threads, NEW op, SendPacket(t, op) \/ Post(t, op)
      PROVE  Sequences4'
  BY <1>0, <1>4 DEF SendPacket, Post, FindForSend
<1>5. ASSUME NEW t \in Threads, NEW m, TakePost(t, m)
      PROVE  Sequences4'
  BY <1>0, <1>5 DEF TakePost, FindForSend
<1>6. QED  BY <1>1, <1>2, <1>3, <1>4, <1>5, StepsOnData

\* A thread drops its packet exactly when it leaves these places.
LEMMA HandsStep == TypeOK /\ Hands /\ [Next]_vars => Hands'
<1> SUFFICES ASSUME TypeOK, Hands, [Next]_vars
             PROVE  Hands'
  OBVIOUS
<1>0. Scalars /\ PacketSets  BY TypeParts
<1> USE DEF Hands, Carrying
<1>1. ASSUME NEW t \in Threads, ThreadStep(t)
      PROVE  Hands'
  <2>0. /\ pkt \in [Threads -> Packets \cup {0}] /\ pc \in [Threads -> PCs]
        /\ how[t] \in Ops
    BY <1>0 DEF PacketSets, Scalars
  <2> USE DEF Ops
  <2>1. CASE AcquireSession(t)  BY <2>0, <2>1 DEF AcquireSession, FreeInHand
  <2>2. CASE CheckCanceled(t)  BY <2>0, <2>2 DEF CheckCanceled, FreeInHand
  <2>3. CASE CheckFull(t)  BY <2>0, <2>3 DEF CheckFull, FreeInHand
  <2>4. CASE Enqueue(t)  BY <2>0, <2>4 DEF Enqueue
  <2>5. CASE PeekSending(t)  BY <2>0, <2>5 DEF PeekSending
  <2>6. CASE TakeSendFlag(t)  BY <2>0, <2>6 DEF TakeSendFlag
  <2>7. CASE FreeSentPacket(t)  BY <2>0, <2>7 DEF FreeSentPacket
  <2>8. CASE DequeueSendQ(t)  BY <2>0, <2>8 DEF DequeueSendQ
  <2>9. CASE SendQEmpty(t)  BY <2>0, <2>9 DEF SendQEmpty
  <2>10. CASE SetSendFlagFalse(t)  BY <2>0, <2>10 DEF SetSendFlagFalse
  <2>11. CASE WSASend(t)  BY <2>0, <2>11 DEF WSASend
  <2>12. CASE AfterPending(t)  BY <2>0, <2>12 DEF AfterPending
  <2>13. CASE SpinForFlag(t)  BY <2>0, <2>13 DEF SpinForFlag
  <2>14. CASE SpinLook(t)  BY <2>0, <2>14 DEF SpinLook
  <2>15. CASE DisconnectLooks(t)  BY <2>0, <2>15 DEF DisconnectLooks
  <2>16. CASE SetCanceled(t)  BY <2>0, <2>16 DEF SetCanceled
  <2>17. CASE CancelIO(t)  BY <2>0, <2>17 DEF CancelIO, Cancelled
  <2>18. CASE DecrementIOCount(t)  BY <2>0, <2>18 DEF DecrementIOCount, GiveBack
  <2>19. CASE SubIOCount(t)  BY <2>0, <2>19 DEF SubIOCount, GiveBack
  <2>20. CASE ReleaseSession(t)  BY <2>0, <2>20 DEF ReleaseSession
  <2>21. CASE Destroy(t)  BY <2>0, <2>21 DEF Destroy, Cancelled
  <2>22. CASE OnAborted(t)  BY <2>0, <2>22 DEF OnAborted
  <2>23. CASE OnSendCount(t)  BY <2>0, <2>23 DEF OnSendCount
  <2>24. CASE OnSendCanceled(t)  BY <2>0, <2>24 DEF OnSendCanceled
  <2>25. QED
    BY <1>1, <2>1, <2>2, <2>3, <2>4, <2>5, <2>6, <2>7, <2>8, <2>9, <2>10, <2>11, <2>12, <2>13,
       <2>14, <2>15, <2>16, <2>17, <2>18, <2>19, <2>20, <2>21, <2>22, <2>23, <2>24 DEF
       ThreadStep
<1>2. ASSUME NEW t \in Threads, NEW p \in Packets, NEW op, FindForSend(t, p, op)
      PROVE  Hands'
  BY <1>0, <1>2 DEF FindForSend, PacketSets, Scalars, Packets
<1>3. ASSUME NEW w \in Workers, NEW m \in posts, TakePost(w, m)
      PROVE  Hands'
  <2>1. m[1] \in Packets  BY <1>0 DEF PacketSets
  <2>2. QED  BY <1>2, <1>3, <2>1 DEF TakePost, Threads
<1>4. ASSUME NEW t \in Senders, NEW op \in Ops, SendPacket(t, op)
      PROVE  Hands'
  <2>1. created + 1 \in Packets  BY <1>0, <1>4 DEF SendPacket, PacketSets, Packets
  <2>2. QED  BY <1>2, <1>4, <2>1 DEF SendPacket, Threads
<1>5. ASSUME NEW t \in Threads,
             TakeSign(t) \/ TakeSendCompletion(t) \/ TakeRecvCompletion(t)
               \/ Disconnect(t) \/ \E op \in Posts : Post(t, op)
      PROVE  Hands'
  BY <1>0, <1>5 DEF TakeSign, TakeSendCompletion, TakeRecvCompletion, Disconnect, Post,
                    PacketSets, Scalars
<1>6. CASE KernelSends \/ KernelEndsReceive \/ UNCHANGED vars
  BY <1>6 DEF KernelSends, KernelEndsReceive, vars
<1>7. QED
  BY <1>1, <1>3, <1>4, <1>5, <1>6 DEF Next, Threads

\* What is freed, posted or in hand is a packet.
LEMMA PacketSetsStep == TypeOK /\ Hands /\ [Next]_vars => PacketSets'
<1> SUFFICES ASSUME TypeOK, Hands, [Next]_vars
             PROVE  PacketSets'
  OBVIOUS
<1>0. Sequences4 /\ PacketSets  BY TypeParts
<1> USE DEF PacketSets
<1>1. CASE DataKept  BY <1>0, <1>1 DEF DataKept
<1>2. ASSUME NEW t \in Threads, Refuses(t)
      PROVE  PacketSets'
  <2>1. pkt[t] \in Packets  BY <1>0, <1>2 DEF Refuses, Hands
  <2>2. QED  BY <1>0, <1>2, <2>1 DEF Refuses, FreeInHand
<1>3. ASSUME NEW t \in Threads,
             Enqueue(t) \/ FreeSentPacket(t) \/ DequeueSendQ(t) \/ WSASend(t) \/ Destroy(t)
      PROVE  PacketSets'
  <2>1. /\ {sentQ[i] : i \in DOMAIN sentQ} \subseteq Packets
        /\ {sendQ[i] : i \in DOMAIN sendQ} \subseteq Packets
    BY <1>0, ElementOfSeq, LenProperties DEF Sequences4
  <2>2. QED
    BY <1>0, <1>3, <2>1 DEF Enqueue, FreeSentPacket, DequeueSendQ, WSASend, Destroy
<1>4. ASSUME NEW t \in Threads, NEW op, SendPacket(t, op) \/ (Post(t, op) /\ op \in Posts)
      PROVE  PacketSets'
  <2>1. created < MaxPackets  BY <1>4 DEF SendPacket, Post
  <2>2. created + 1 \in Packets /\ created + 1 \in 0..MaxPackets
    BY <1>0, <2>1 DEF Packets
  <2>3. QED  BY <1>0, <1>4, <2>2 DEF SendPacket, Post, FindForSend
<1>5. ASSUME NEW t \in Threads, NEW m \in posts, TakePost(t, m)
      PROVE  PacketSets'
  <2>1. m[1] \in Packets  BY <1>0
  <2>2. QED                BY <1>0, <1>5, <2>1 DEF TakePost, FindForSend
<1>6. QED  BY <1>1, <1>2, <1>3, <1>4, <1>5, StepsOnData

\* Initially.
LEMMA TypeInit == Init => TypeOK /\ Hands
<1> SUFFICES ASSUME Init PROVE TypeOK /\ Hands
  OBVIOUS
<1>1. Scalars
  <2>1. /\ pc \in [Threads -> PCs] /\ how \in [Threads -> Ops]
    BY DEF Init, PCs, Ops
  <2>2. /\ isSendIOPending \in Modes /\ IOcount \in Int /\ signs \in Nat
        /\ sendIO \in IOStates /\ recvIO \in IOStates
        /\ sendRefs \in 0..2 /\ miscounted \in Int
    BY DEF Init, IOStates, Results
  <2>3. dead \in BOOLEAN /\ canceled \in BOOLEAN /\ sending \in BOOLEAN
    BY DEF Init
  <2>4. QED  BY <2>1, <2>2, <2>3 DEF Scalars
<1>2. Sequences4  BY EmptySeq DEF Init, Sequences4
<1>3. PacketSets  BY DEF Init, PacketSets
<1>4. Hands       BY DEF Init, Hands, Carrying
<1>5. QED         BY <1>1, <1>2, <1>3, <1>4, TypeParts

\* And for every step.
LEMMA TypeStep == TypeOK /\ Hands /\ [Next]_vars => TypeOK' /\ Hands'
  BY ScalarsStep, SequencesStep, PacketSetsStep, HandsStep, TypeParts
     DEF TypeOK, Scalars, Sequences4, PacketSets

\* TypeOK is an invariant: every step keeps each variable in its range.  It needs
\* that a packet that is freed in hand is a packet.
THEOREM TypeCorrect == Spec => []TypeOK
  BY TypeInit, TypeStep, PTL DEF Spec
-----------------------------------------------------------------------------
(***************************************************************************)
(* The references, and how far they may be off.                            *)
(***************************************************************************)
\* A pending send left one reference, one that was done at once left two, and whoever
\* takes its completion has what is left.
Refs ==
  /\ sendIO \in {"pending", "cancelling", "error", "aborted"} => sendRefs = 1
  /\ sendIO # "none" => sendRefs > 0
  /\ \A t \in Threads : pc[t] = "onSend" => sendRefs > 0
  /\ sendRefs > 0 => sendIO # "none" \/ \E t \in Threads : pc[t] = "onSend"

\* Where sends are pending references can only be left over, where they are not only be
\* missing, and neither where WSASend returns what the mode expects.
Miscount ==
  /\ IF isSendIOPending THEN miscounted >= 0 ELSE miscounted <= 0
  /\ Surprises = {} => /\ miscounted = 0
                       /\ sendRefs > 0 => sendRefs = IF isSendIOPending THEN 1 ELSE 2

\* Input and output are canceled after the session is.
Canceling == {"cancel1", "recancel", "cancelFail", "cancelLast", "spin", "spinLook",
              "onAbort"}
CanceledFirst ==
  /\ sendIO \in {"cancelling", "aborted"} => canceled
  /\ recvIO \in {"cancelling", "aborted"} => canceled
  /\ \A t \in Threads : /\ pc[t] \in Canceling => canceled
                        /\ pc[t] # "crashed"

\* On a dead session threads look and go, and nothing is outstanding.
Quiet == {"idle", "acquire", "acquire1", "back1", "back2", "release", "destroy"}
DeadQuiet ==
  /\ dead => /\ \A t \in Threads : pc[t] \in Quiet
             /\ sendIO = "none" /\ recvIO = "none" /\ signs = 0
  /\ \A t \in Threads : pc[t] = "destroy" => dead

One(t) == IF pc[t] \in HoldsOne THEN 1 ELSE 0
Two(t) == IF pc[t] \in HoldsTwo THEN 1 ELSE 0

\* There are finitely many threads, so references can be counted.
LEMMA HoldersFinite ==
  /\ IsFiniteSet(Threads)
  /\ IsFiniteSet(First) /\ Cardinality(First) \in Nat
  /\ IsFiniteSet(Second) /\ Cardinality(Second) \in Nat
<1>1. IsFiniteSet(Threads)
  BY ThreadsFinite, FS_Union DEF Threads
<1>2. First \in SUBSET Threads /\ Second \in SUBSET Threads
  BY DEF First, Second
<1>3. QED
  BY <1>1, <1>2, FS_Subset, FS_CardinalityType

\* Changing whether one thread is in a finite set moves its size by that thread.
LEMMA MoveOne ==
  ASSUME NEW S, NEW T, NEW t, IsFiniteSet(S), S \ {t} = T \ {t}
  PROVE  Cardinality(T) = Cardinality(S) - (IF t \in S THEN 1 ELSE 0)
                                         + (IF t \in T THEN 1 ELSE 0)
<1>1. /\ IsFiniteSet(S \ {t})
      /\ Cardinality(S \ {t}) = Cardinality(S) - (IF t \in S THEN 1 ELSE 0)
      /\ Cardinality(S) \in Nat
  BY FS_RemoveElement, FS_CardinalityType
<1>2. Cardinality((T \ {t}) \cup {t}) = Cardinality(S \ {t}) + 1
  BY <1>1, FS_AddElement
<1>3. CASE t \in T
  <2>1. T = (T \ {t}) \cup {t}  BY <1>3
  <2>2. QED                     BY <1>1, <1>2, <1>3, <2>1
<1>4. CASE t \notin T
  <2>1. T = S \ {t}             BY <1>4
  <2>2. QED                     BY <1>1, <1>4, <2>1
<1>5. QED  BY <1>3, <1>4

\* A step of one thread changes the references by its own.
LEMMA RefsMove ==
  ASSUME Scalars, NEW t \in Threads, NEW p, pc' = [pc EXCEPT ![t] = p],
         UNCHANGED isSendIOPending
  PROVE  /\ Cardinality(First)' = Cardinality(First) - One(t) + One(t)'
         /\ Cardinality(Second)' = Cardinality(Second) - Two(t) + Two(t)'
<1>1. First \ {t} = First' \ {t} /\ Second \ {t} = Second' \ {t}
  BY DEF First, Second, Scalars, HoldsTwo, HoldsOne
<1>2. Cardinality(First') = Cardinality(First) - (IF t \in First THEN 1 ELSE 0)
                                     + (IF t \in First' THEN 1 ELSE 0)
  BY <1>1, HoldersFinite, MoveOne
<1>3. Cardinality(Second') = Cardinality(Second) - (IF t \in Second THEN 1 ELSE 0)
                                     + (IF t \in Second' THEN 1 ELSE 0)
  BY <1>1, HoldersFinite, MoveOne
<1>4. /\ One(t) = (IF t \in First THEN 1 ELSE 0)
      /\ One(t)' = (IF t \in First' THEN 1 ELSE 0)
      /\ Two(t) = (IF t \in Second THEN 1 ELSE 0)
      /\ Two(t)' = (IF t \in Second' THEN 1 ELSE 0)
  BY DEF One, Two, First, Second
<1>5. QED  BY <1>2, <1>3, <1>4

RecvRefs == IF recvIO = "none" THEN 0 ELSE 1
Counted ==
  IOcount = Cardinality(First) + Cardinality(Second) + 2 * signs + sendRefs + RecvRefs
              + miscounted

\* A word of 0 means that nobody uses the session and nothing is outstanding.
LEMMA ZeroMeansUnused ==
  ASSUME Scalars, NoneMissing, Refs, Counted, IOcount = 0
  PROVE  /\ sendIO = "none" /\ recvIO = "none" /\ signs = 0
         /\ \A t \in Threads : pc[t] \notin HoldsOne /\ pc[t] # "onSend"
<1>1. Cardinality(First) = 0 /\ sendRefs = 0 /\ recvIO = "none" /\ signs = 0
  BY HoldersFinite DEF Counted, RecvRefs, NoneMissing, Scalars
<1>2. First = {}
  BY <1>1, HoldersFinite, FS_EmptySet
<1>3. sendIO = "none" /\ \A t \in Threads : pc[t] # "onSend"
  BY <1>1 DEF Refs
<1>4. QED  BY <1>1, <1>2, <1>3 DEF First

\* Every step leaves the mode, and moves one thread at most.
LEMMA OneMoves ==
  ASSUME NEW t, ThreadStep(t)
  PROVE  UNCHANGED isSendIOPending /\ \E p : pc' = [pc EXCEPT ![t] = p]
  BY DEF ThreadStep, AcquireSession, CheckCanceled, CheckFull, Enqueue, PeekSending,
         TakeSendFlag, FreeSentPacket, DequeueSendQ, SendQEmpty, SetSendFlagFalse, WSASend,
         AfterPending, SpinForFlag, SpinLook, DisconnectLooks, SetCanceled, CancelIO,
         DecrementIOCount, SubIOCount, GiveBack, ReleaseSession, Destroy, OnAborted,
         OnSendCount, OnSendCanceled

\* Where a thread goes that has enqueued.
LEMMA AfterEnqueue ==
  ASSUME Scalars, NEW t \in Threads, Enqueue(t)
  PROVE  /\ pc[t] = "enqueue" /\ pc'[t] \in {"swap", "peek", "setLast"}
         /\ pc' = [pc EXCEPT ![t] = pc'[t]]
<1> DEFINE Map == [send |-> "swap", async |-> "peek", last |-> "setLast"]
<1>1. Map[how[t]] \in {"swap", "peek", "setLast"}
  BY DEF Scalars, Ops
<1>2. pc[t] = "enqueue" /\ pc' = [pc EXCEPT ![t] = Map[how[t]]]
  BY DEF Enqueue
<1> HIDE DEF Map
<1>3. QED
  BY <1>1, <1>2 DEF Scalars

\* IOcount_ stays as far from the references held as was counted wrongly.
LEMMA CountStep ==
  ASSUME TypeOK, NoneMissing, Refs, OneDrain, Counted, [Next]_vars
  PROVE  Counted'
<1>0. /\ Scalars /\ Refs
      /\ Cardinality(First) \in Nat /\ Cardinality(Second) \in Nat
      /\ IOcount = Cardinality(First) + Cardinality(Second) + 2 * signs + sendRefs + RecvRefs
                     + miscounted
      /\ IOcount \in Int /\ signs \in Nat /\ isSendIOPending \in BOOLEAN
      /\ pc \in [Threads -> PCs] /\ how \in [Threads -> Ops]
      /\ sendRefs \in Nat /\ RecvRefs \in Nat /\ miscounted \in Int
      /\ sendIO \in IOStates /\ recvIO \in IOStates
  BY HoldersFinite, TypeParts DEF Counted, Scalars, RecvRefs
<1> DEFINE Sum == Cardinality(First) + Cardinality(Second) + 2 * signs + sendRefs + RecvRefs
                    + miscounted
<1> SUFFICES IOcount' = Sum'
  BY DEF Counted
<1> HIDE DEF Sum
<1>s. Sum' = Cardinality(First)' + Cardinality(Second)' + 2 * signs' + sendRefs' + RecvRefs'
               + miscounted'
  BY DEF Sum
<1> DEFINE Moved(t) ==
      /\ Cardinality(First)' = Cardinality(First) - One(t) + One(t)'
      /\ Cardinality(Second)' = Cardinality(Second) - Two(t) + Two(t)'
<1> USE DEF RecvRefs, One, Two, HoldsOne, HoldsTwo, PCs, Draining, Completing
<1>1. ASSUME NEW t \in Threads, ThreadStep(t)
      PROVE  IOcount' = Sum'
  <2>0. Moved(t) /\ UNCHANGED isSendIOPending
    BY <1>0, <1>1, OneMoves, RefsMove
  <2>1. CASE AcquireSession(t)  BY <1>0, <1>s, <2>0, <2>1 DEF AcquireSession, FreeInHand
  <2>2. CASE CheckCanceled(t)  BY <1>0, <1>s, <2>0, <2>2 DEF CheckCanceled, FreeInHand
  <2>3. CASE CheckFull(t)
    <3>1. /\ pc[t] = "chkFull" /\ pc'[t] \in {"enqueue", "setFail"}
          /\ UNCHANGED <<IOcount, signs, sendRefs, recvIO, miscounted>>
      BY <1>0, <2>3 DEF CheckFull
    <3>2. QED  BY <1>0, <1>s, <2>0, <3>1
  <2>4. CASE Enqueue(t)
    <3>1. pc[t] = "enqueue" /\ pc'[t] \in {"swap", "peek", "setLast"}
      BY <1>0, <2>4, AfterEnqueue
    <3>2. UNCHANGED <<IOcount, signs, sendRefs, recvIO, miscounted>>
      BY <2>4 DEF Enqueue
    <3>3. QED  BY <1>0, <1>s, <2>0, <3>1, <3>2
  <2>5. CASE PeekSending(t)  BY <1>0, <1>s, <2>0, <2>5 DEF PeekSending
  <2>6. CASE TakeSendFlag(t)  BY <1>0, <1>s, <2>0, <2>6 DEF TakeSendFlag
  <2>7. CASE FreeSentPacket(t)  BY <1>0, <1>s, <2>0, <2>7 DEF FreeSentPacket
  <2>8. CASE DequeueSendQ(t)  BY <1>0, <1>s, <2>0, <2>8 DEF DequeueSendQ
  <2>9. CASE SendQEmpty(t)  BY <1>0, <1>s, <2>0, <2>9 DEF SendQEmpty
  <2>10. CASE SetSendFlagFalse(t)  BY <1>0, <1>s, <2>0, <2>10 DEF SetSendFlagFalse
  <2>11. CASE WSASend(t)
    <3>1. pc[t] = "wsaSend" /\ sendIO = "none"
          /\ \A x \in Threads : pc[x] = "onSend" => x = t
      BY <2>11 DEF WSASend, OneDrain, FlagOwners
    <3>2. sendRefs = 0
      BY <1>0, <3>1 DEF Refs
    <3>3. UNCHANGED <<IOcount, signs, miscounted>> /\ RecvRefs' = RecvRefs
      BY <2>11 DEF WSASend
    <3>4. \/ pc'[t] = "idle" /\ sendRefs' = 2
          \/ pc'[t] = "pended" /\ sendRefs' = 1
          \/ pc'[t] = "setFail" /\ sendRefs' = sendRefs
      BY <1>0, <2>11 DEF WSASend
    <3>5. QED  BY <1>0, <1>s, <2>0, <3>1, <3>2, <3>3, <3>4
  <2>12. CASE AfterPending(t)  BY <1>0, <1>s, <2>0, <2>12 DEF AfterPending
  <2>13. CASE SpinForFlag(t)  BY <1>0, <1>s, <2>0, <2>13 DEF SpinForFlag
  <2>14. CASE SpinLook(t)  BY <1>0, <1>s, <2>0, <2>14 DEF SpinLook
  <2>15. CASE DisconnectLooks(t)  BY <1>0, <1>s, <2>0, <2>15 DEF DisconnectLooks
  <2>16. CASE SetCanceled(t)  BY <1>0, <1>s, <2>0, <2>16 DEF SetCanceled
  <2>17. CASE CancelIO(t)  BY <1>0, <1>s, <2>0, <2>17 DEF CancelIO, Cancelled
  <2>18. CASE DecrementIOCount(t)  BY <1>0, <1>s, <2>0, <2>18 DEF DecrementIOCount, GiveBack
  <2>19. CASE SubIOCount(t)  BY <1>0, <1>s, <2>0, <2>19 DEF SubIOCount, GiveBack
  <2>20. CASE ReleaseSession(t)  BY <1>0, <1>s, <2>0, <2>20 DEF ReleaseSession
  <2>21. CASE Destroy(t)  BY <1>0, <1>s, <2>0, <2>21 DEF Destroy, Cancelled
  <2>22. CASE OnAborted(t)  BY <1>0, <1>s, <2>0, <2>22 DEF OnAborted
  <2>23. CASE OnSendCount(t)  BY <1>0, <1>s, <2>0, <2>23 DEF OnSendCount
  <2>24. CASE OnSendCanceled(t)  BY <1>0, <1>s, <2>0, <2>24 DEF OnSendCanceled
  <2>25. QED
    BY <1>1, <2>1, <2>2, <2>3, <2>4, <2>5, <2>6, <2>7, <2>8, <2>9, <2>10, <2>11, <2>12, <2>13,
       <2>14, <2>15, <2>16, <2>17, <2>18, <2>19, <2>20, <2>21, <2>22, <2>23, <2>24 DEF
       ThreadStep
<1>2. ASSUME NEW t \in Threads, NEW p, NEW op, FindForSend(t, p, op),
             UNCHANGED <<signs, isSendIOPending>>
      PROVE  IOcount' = Sum'
  <2>0. Moved(t)  BY <1>0, <1>2, RefsMove DEF FindForSend
  <2>1. QED       BY <1>0, <1>s, <1>2, <2>0 DEF FindForSend
<1>3. ASSUME NEW t \in Threads,
             Disconnect(t) \/ TakeSign(t) \/ TakeSendCompletion(t) \/ TakeRecvCompletion(t)
      PROVE  IOcount' = Sum'
  <2>0. Moved(t)
    BY <1>0, <1>3, RefsMove DEF Disconnect, TakeSign, TakeSendCompletion, TakeRecvCompletion
  <2>1. CASE Disconnect(t)          BY <1>0, <1>s, <2>0, <2>1 DEF Disconnect
  <2>2. CASE TakeSign(t)            BY <1>0, <1>s, <2>0, <2>2 DEF TakeSign
  <2>3. CASE TakeSendCompletion(t)
    BY <1>0, <1>s, <2>0, <2>3 DEF TakeSendCompletion, Refs
  <2>4. CASE TakeRecvCompletion(t)  BY <1>0, <1>s, <2>0, <2>4 DEF TakeRecvCompletion
  <2>5. QED                         BY <1>3, <2>1, <2>2, <2>3, <2>4
<1>4. CASE /\ UNCHANGED <<pc, isSendIOPending, signs, IOcount>>
           /\ UNCHANGED <<sendRefs, miscounted>> /\ RecvRefs' = RecvRefs
  BY <1>0, <1>s, <1>4 DEF First, Second
<1>5. CASE KernelSends \/ KernelEndsReceive
  BY <1>4, <1>5 DEF KernelSends, KernelEndsReceive, Finished, Results
<1>6. CASE UNCHANGED vars
  BY <1>4, <1>6 DEF vars
<1>7. ASSUME NEW t \in Senders, NEW op \in Posts, Post(t, op)
      PROVE  IOcount' = Sum'
  BY <1>4, <1>7 DEF Post
<1>8. QED
  BY <1>1, <1>2, <1>3, <1>5, <1>6, <1>7 DEF Next, Threads, SendPacket, TakePost

\* The references of a send stay with it until a worker has its completion.
LEMMA RefsStep ==
  ASSUME Scalars, NoneMissing, OneDrain, Refs, [Next]_vars
  PROVE  Refs'
<1>0. /\ pc \in [Threads -> PCs] /\ how \in [Threads -> Ops]
      /\ sendIO \in IOStates /\ recvIO \in IOStates /\ sendRefs \in 0..2
  BY TypeParts DEF Scalars
<1> USE DEF Refs, IOStates
<1>1. ASSUME NEW t \in Threads, ThreadStep(t)
      PROVE  Refs'
  <2>1. CASE AcquireSession(t)  BY <1>0, <2>1 DEF AcquireSession, FreeInHand
  <2>2. CASE CheckCanceled(t)  BY <1>0, <2>2 DEF CheckCanceled, FreeInHand
  <2>3. CASE CheckFull(t)  BY <1>0, <2>3 DEF CheckFull, FreeInHand
  <2>4. CASE Enqueue(t)  BY <1>0, <2>4, AfterEnqueue DEF Enqueue
  <2>5. CASE PeekSending(t)  BY <1>0, <2>5 DEF PeekSending
  <2>6. CASE TakeSendFlag(t)  BY <1>0, <2>6 DEF TakeSendFlag
  <2>7. CASE FreeSentPacket(t)  BY <1>0, <2>7 DEF FreeSentPacket
  <2>8. CASE DequeueSendQ(t)  BY <1>0, <2>8 DEF DequeueSendQ
  <2>9. CASE SendQEmpty(t)  BY <1>0, <2>9 DEF SendQEmpty
  <2>10. CASE SetSendFlagFalse(t)  BY <1>0, <2>10 DEF SetSendFlagFalse
  <2>11. CASE WSASend(t)  BY <1>0, <2>11 DEF WSASend, OneDrain, FlagOwners, Draining, Completing
  <2>12. CASE AfterPending(t)  BY <1>0, <2>12 DEF AfterPending
  <2>13. CASE SpinForFlag(t)  BY <1>0, <2>13 DEF SpinForFlag
  <2>14. CASE SpinLook(t)  BY <1>0, <2>14 DEF SpinLook
  <2>15. CASE DisconnectLooks(t)  BY <1>0, <2>15 DEF DisconnectLooks
  <2>16. CASE SetCanceled(t)  BY <1>0, <2>16 DEF SetCanceled
  <2>17. CASE CancelIO(t)  BY <1>0, <2>17 DEF CancelIO, Cancelled
  <2>18. CASE DecrementIOCount(t)  BY <1>0, <2>18 DEF DecrementIOCount, GiveBack
  <2>19. CASE SubIOCount(t)  BY <1>0, <2>19 DEF SubIOCount, GiveBack
  <2>20. CASE ReleaseSession(t)  BY <1>0, <2>20 DEF ReleaseSession
  <2>21. CASE Destroy(t)  BY <1>0, <2>21 DEF Destroy, Cancelled
  <2>22. CASE OnAborted(t)  BY <1>0, <2>22 DEF OnAborted
  <2>23. CASE OnSendCount(t)  BY <1>0, <2>23 DEF OnSendCount, OneDrain, FlagOwners, Completing
  <2>24. CASE OnSendCanceled(t)  BY <1>0, <2>24 DEF OnSendCanceled
  <2>25. QED
    BY <1>1, <2>1, <2>2, <2>3, <2>4, <2>5, <2>6, <2>7, <2>8, <2>9, <2>10, <2>11, <2>12, <2>13,
       <2>14, <2>15, <2>16, <2>17, <2>18, <2>19, <2>20, <2>21, <2>22, <2>23, <2>24 DEF
       ThreadStep
<1>2. ASSUME NEW t \in Threads, NEW p, NEW op, FindForSend(t, p, op),
             UNCHANGED <<signs, isSendIOPending>>
      PROVE  Refs'
  BY <1>0, <1>2 DEF FindForSend
<1>3. ASSUME NEW t \in Threads, Disconnect(t)
      PROVE  Refs'
  BY <1>0, <1>3 DEF Disconnect
<1>4. ASSUME NEW t \in Threads, TakeSign(t)
      PROVE  Refs'
  BY <1>0, <1>4 DEF TakeSign
<1>5. ASSUME NEW t \in Threads, TakeSendCompletion(t)
      PROVE  Refs'
  BY <1>0, <1>5 DEF TakeSendCompletion, OneDrain, FlagOwners, Completing
<1>6. ASSUME NEW t \in Threads, TakeRecvCompletion(t)
      PROVE  Refs'
  BY <1>0, <1>6 DEF TakeRecvCompletion
<1>7. CASE KernelSends
  BY <1>0, <1>7 DEF KernelSends, Finished, Results
<1>8. CASE KernelEndsReceive
  BY <1>0, <1>8 DEF KernelEndsReceive, Finished, Results
<1>9. ASSUME NEW t \in Threads, NEW op, Post(t, op)
      PROVE  Refs'
  BY <1>0, <1>9 DEF Post
<1>10. CASE UNCHANGED vars
  BY <1>0, <1>10 DEF vars
<1>11. QED
  BY <1>1, <1>2, <1>3, <1>4, <1>5, <1>6, <1>7, <1>8, <1>9, <1>10
     DEF Next, Threads, SendPacket, TakePost

\* Only these steps change what is left, or how far the count is off.
LEMMA StepsOnRefs ==
  ASSUME [Next]_vars
  PROVE  /\ UNCHANGED isSendIOPending
         /\ \/ UNCHANGED refVars
            \/ \E t \in Threads : WSASend(t) \/ OnSendCount(t) \/ TakeSendCompletion(t)
<1>1. ASSUME NEW t \in Threads, ThreadStep(t)
      PROVE  UNCHANGED refVars \/ WSASend(t) \/ OnSendCount(t)
  BY <1>1
     DEF ThreadStep, AcquireSession, CheckCanceled, CheckFull, Enqueue, PeekSending,
         TakeSendFlag, FreeSentPacket, DequeueSendQ, SendQEmpty, SetSendFlagFalse,
         AfterPending, SpinForFlag, SpinLook, DisconnectLooks, SetCanceled, CancelIO,
         DecrementIOCount, SubIOCount, GiveBack, ReleaseSession, Destroy, OnAborted,
         OnSendCanceled
<1>2. CASE ~ \E t \in Threads : ThreadStep(t)
  BY <1>2
     DEF Next, Threads, SendPacket, FindForSend, Post, Disconnect, TakePost, TakeSign,
         TakeSendCompletion, TakeRecvCompletion, KernelSends, KernelEndsReceive, vars
<1>3. QED  BY <1>1, <1>2, OneMoves

\* The mode decides on which side a count is off, and what is missing stays missing.
LEMMA MiscountStep ==
  ASSUME Scalars, NoneMissing => Refs, Miscount, [Next]_vars
  PROVE  Miscount' /\ (NoneMissing' => NoneMissing)
<1>0. /\ isSendIOPending \in BOOLEAN /\ UNCHANGED isSendIOPending
      /\ sendRefs \in 0..2 /\ miscounted \in Int
  BY StepsOnRefs DEF Scalars
<1> USE DEF Miscount, NoneMissing
<1>1. CASE UNCHANGED refVars
  BY <1>0, <1>1
<1>2. ASSUME NEW t \in Threads, WSASend(t)
      PROVE  Miscount' /\ (NoneMissing' => NoneMissing)
  BY <1>0, <1>2 DEF WSASend, SendResults
<1>3. ASSUME NEW t \in Threads, TakeSendCompletion(t)
      PROVE  Miscount' /\ (NoneMissing' => NoneMissing)
  BY <1>0, <1>3 DEF TakeSendCompletion
<1>4. ASSUME NEW t \in Threads, OnSendCount(t)
      PROVE  Miscount' /\ (NoneMissing' => NoneMissing)
  <2>1. pc[t] = "onSend" /\ sendRefs' = 0
        /\ miscounted' = miscounted + (sendRefs + (IF isSendIOPending THEN 1 ELSE 0) - 2)
    BY <1>4 DEF OnSendCount
  <2>2. NoneMissing => sendRefs > 0
    BY <2>1 DEF Refs
  <2>3. QED  BY <1>0, <2>1, <2>2
<1>5. QED  BY <1>1, <1>2, <1>3, <1>4, StepsOnRefs

\* Whoever cancels input and output has canceled the session before.
LEMMA CanceledFirstStep ==
  ASSUME Scalars, DeadQuiet, CanceledFirst, [Next]_vars
  PROVE  CanceledFirst'
<1>0. /\ pc \in [Threads -> PCs] /\ how \in [Threads -> Ops]
      /\ sendIO \in IOStates /\ recvIO \in IOStates
  BY TypeParts DEF Scalars
<1> USE DEF CanceledFirst, Canceling
<1>1. ASSUME NEW t \in Threads, ThreadStep(t)
      PROVE  CanceledFirst'
  <2>1. CASE AcquireSession(t)  BY <1>0, <2>1 DEF AcquireSession, FreeInHand
  <2>2. CASE CheckCanceled(t)  BY <1>0, <2>2 DEF CheckCanceled, FreeInHand
  <2>3. CASE CheckFull(t)  BY <1>0, <2>3 DEF CheckFull, FreeInHand
  <2>4. CASE Enqueue(t)  BY <1>0, <2>4, AfterEnqueue DEF Enqueue
  <2>5. CASE PeekSending(t)  BY <1>0, <2>5 DEF PeekSending
  <2>6. CASE TakeSendFlag(t)  BY <1>0, <2>6 DEF TakeSendFlag
  <2>7. CASE FreeSentPacket(t)  BY <1>0, <2>7 DEF FreeSentPacket
  <2>8. CASE DequeueSendQ(t)  BY <1>0, <2>8 DEF DequeueSendQ
  <2>9. CASE SendQEmpty(t)  BY <1>0, <2>9 DEF SendQEmpty
  <2>10. CASE SetSendFlagFalse(t)  BY <1>0, <2>10 DEF SetSendFlagFalse
  <2>11. CASE WSASend(t)  BY <1>0, <2>11 DEF WSASend
  <2>12. CASE AfterPending(t)  BY <1>0, <2>12 DEF AfterPending
  <2>13. CASE SpinForFlag(t)  BY <1>0, <2>13 DEF SpinForFlag
  <2>14. CASE SpinLook(t)  BY <1>0, <2>14 DEF SpinLook
  <2>15. CASE DisconnectLooks(t)  BY <1>0, <2>15 DEF DisconnectLooks
  <2>16. CASE SetCanceled(t)  BY <1>0, <2>16 DEF SetCanceled
  <2>17. CASE CancelIO(t)  BY <1>0, <2>17 DEF CancelIO, Cancelled
  <2>18. CASE DecrementIOCount(t)  BY <1>0, <2>18 DEF DecrementIOCount, GiveBack
  <2>19. CASE SubIOCount(t)  BY <1>0, <2>19 DEF SubIOCount, GiveBack
  <2>20. CASE ReleaseSession(t)  BY <1>0, <2>20 DEF ReleaseSession
  <2>21. CASE Destroy(t)  BY <1>0, <2>21 DEF Destroy, Cancelled, DeadQuiet
  <2>22. CASE OnAborted(t)  BY <1>0, <2>22 DEF OnAborted
  <2>23. CASE OnSendCount(t)  BY <1>0, <2>23 DEF OnSendCount
  <2>24. CASE OnSendCanceled(t)  BY <1>0, <2>24 DEF OnSendCanceled
  <2>25. QED
    BY <1>1, <2>1, <2>2, <2>3, <2>4, <2>5, <2>6, <2>7, <2>8, <2>9, <2>10, <2>11, <2>12, <2>13,
       <2>14, <2>15, <2>16, <2>17, <2>18, <2>19, <2>20, <2>21, <2>22, <2>23, <2>24 DEF
       ThreadStep
<1>2. ASSUME NEW t \in Threads, NEW p, NEW op, FindForSend(t, p, op),
             UNCHANGED <<signs, isSendIOPending>>
      PROVE  CanceledFirst'
  BY <1>0, <1>2 DEF FindForSend
<1>3. ASSUME NEW t \in Threads, Disconnect(t)
      PROVE  CanceledFirst'
  BY <1>0, <1>3 DEF Disconnect
<1>4. ASSUME NEW t \in Threads, TakeSign(t)
      PROVE  CanceledFirst'
  BY <1>0, <1>4 DEF TakeSign
<1>5. ASSUME NEW t \in Threads, TakeSendCompletion(t)
      PROVE  CanceledFirst'
  BY <1>0, <1>5 DEF TakeSendCompletion
<1>6. ASSUME NEW t \in Threads, TakeRecvCompletion(t)
      PROVE  CanceledFirst'
  BY <1>0, <1>6 DEF TakeRecvCompletion
<1>7. CASE KernelSends
  BY <1>0, <1>7 DEF KernelSends, Finished, Results
<1>8. CASE KernelEndsReceive
  BY <1>0, <1>8 DEF KernelEndsReceive, Finished, Results
<1>9. ASSUME NEW t \in Threads, NEW op, Post(t, op)
      PROVE  CanceledFirst'
  BY <1>0, <1>9 DEF Post
<1>10. CASE UNCHANGED vars
  BY <1>0, <1>10 DEF vars
<1>11. QED
  BY <1>1, <1>2, <1>3, <1>4, <1>5, <1>6, <1>7, <1>8, <1>9, <1>10
     DEF Next, Threads, SendPacket, TakePost

\* A session that dies has nobody left on it, and nobody who comes stays.
LEMMA DeadQuietStep ==
  ASSUME Scalars, NoneMissing, Refs, Counted, CanceledFirst, DeadQuiet, [Next]_vars
  PROVE  DeadQuiet'
<1>0. /\ pc \in [Threads -> PCs] /\ how \in [Threads -> Ops]
      /\ sendIO \in IOStates /\ recvIO \in IOStates /\ signs \in Nat /\ IOcount \in Int
  BY TypeParts DEF Scalars
<1> USE DEF DeadQuiet, Quiet
<1>1. ASSUME NEW t \in Threads, ThreadStep(t)
      PROVE  DeadQuiet'
  <2>1. CASE AcquireSession(t)  BY <1>0, <2>1 DEF AcquireSession, FreeInHand
  <2>2. CASE CheckCanceled(t)  BY <1>0, <2>2 DEF CheckCanceled, FreeInHand
  <2>3. CASE CheckFull(t)  BY <1>0, <2>3 DEF CheckFull, FreeInHand
  <2>4. CASE Enqueue(t)  BY <1>0, <2>4, AfterEnqueue DEF Enqueue
  <2>5. CASE PeekSending(t)  BY <1>0, <2>5 DEF PeekSending
  <2>6. CASE TakeSendFlag(t)  BY <1>0, <2>6 DEF TakeSendFlag
  <2>7. CASE FreeSentPacket(t)  BY <1>0, <2>7 DEF FreeSentPacket
  <2>8. CASE DequeueSendQ(t)  BY <1>0, <2>8 DEF DequeueSendQ
  <2>9. CASE SendQEmpty(t)  BY <1>0, <2>9 DEF SendQEmpty
  <2>10. CASE SetSendFlagFalse(t)  BY <1>0, <2>10 DEF SetSendFlagFalse
  <2>11. CASE WSASend(t)  BY <1>0, <2>11 DEF WSASend
  <2>12. CASE AfterPending(t)  BY <1>0, <2>12 DEF AfterPending
  <2>13. CASE SpinForFlag(t)  BY <1>0, <2>13 DEF SpinForFlag
  <2>14. CASE SpinLook(t)  BY <1>0, <2>14 DEF SpinLook
  <2>15. CASE DisconnectLooks(t)  BY <1>0, <2>15 DEF DisconnectLooks
  <2>16. CASE SetCanceled(t)  BY <1>0, <2>16 DEF SetCanceled
  <2>17. CASE CancelIO(t)  BY <1>0, <2>17 DEF CancelIO, Cancelled
  <2>18. CASE DecrementIOCount(t)  BY <1>0, <2>18 DEF DecrementIOCount, GiveBack
  <2>19. CASE SubIOCount(t)  BY <1>0, <2>19 DEF SubIOCount, GiveBack
  <2>20. CASE ReleaseSession(t)
    BY <1>0, <2>20, ZeroMeansUnused DEF ReleaseSession, HoldsOne, PCs
  <2>21. CASE Destroy(t)  BY <1>0, <2>21 DEF Destroy, Cancelled
  <2>22. CASE OnAborted(t)  BY <1>0, <2>22 DEF OnAborted
  <2>23. CASE OnSendCount(t)  BY <1>0, <2>23 DEF OnSendCount
  <2>24. CASE OnSendCanceled(t)  BY <1>0, <2>24 DEF OnSendCanceled
  <2>25. QED
    BY <1>1, <2>1, <2>2, <2>3, <2>4, <2>5, <2>6, <2>7, <2>8, <2>9, <2>10, <2>11, <2>12, <2>13,
       <2>14, <2>15, <2>16, <2>17, <2>18, <2>19, <2>20, <2>21, <2>22, <2>23, <2>24 DEF
       ThreadStep
<1>2. ASSUME NEW t \in Threads, NEW p, NEW op, FindForSend(t, p, op),
             UNCHANGED <<signs, isSendIOPending>>
      PROVE  DeadQuiet'
  BY <1>0, <1>2 DEF FindForSend
<1>3. ASSUME NEW t \in Threads, Disconnect(t)
      PROVE  DeadQuiet'
  BY <1>0, <1>3 DEF Disconnect
<1>4. ASSUME NEW t \in Threads, TakeSign(t)
      PROVE  DeadQuiet'
  BY <1>0, <1>4 DEF TakeSign
<1>5. ASSUME NEW t \in Threads, TakeSendCompletion(t)
      PROVE  DeadQuiet'
  BY <1>0, <1>5 DEF TakeSendCompletion
<1>6. ASSUME NEW t \in Threads, TakeRecvCompletion(t)
      PROVE  DeadQuiet'
  BY <1>0, <1>6 DEF TakeRecvCompletion
<1>7. CASE KernelSends
  BY <1>0, <1>7 DEF KernelSends, Finished, Results
<1>8. CASE KernelEndsReceive
  BY <1>0, <1>8 DEF KernelEndsReceive, Finished, Results
<1>9. ASSUME NEW t \in Threads, NEW op, Post(t, op)
      PROVE  DeadQuiet'
  BY <1>0, <1>9 DEF Post
<1>10. CASE UNCHANGED vars
  BY <1>0, <1>10 DEF vars
<1>11. QED
  BY <1>1, <1>2, <1>3, <1>4, <1>5, <1>6, <1>7, <1>8, <1>9, <1>10
     DEF Next, Threads, SendPacket, TakePost

\* The flag has one owner: a thread, or the kernel with the send.
LEMMA OneDrainStep ==
  ASSUME Scalars, NoneMissing, DeadQuiet, OneDrain, [Next]_vars
  PROVE  OneDrain'
<1>0. /\ pc \in [Threads -> PCs] /\ how \in [Threads -> Ops]
      /\ sendIO \in IOStates /\ recvIO \in IOStates
  BY TypeParts DEF Scalars
<1> USE DEF OneDrain, FlagOwners, Draining, Completing
<1>1. ASSUME NEW t \in Threads, ThreadStep(t)
      PROVE  OneDrain'
  <2>1. CASE AcquireSession(t)  BY <1>0, <2>1 DEF AcquireSession, FreeInHand
  <2>2. CASE CheckCanceled(t)  BY <1>0, <2>2 DEF CheckCanceled, FreeInHand
  <2>3. CASE CheckFull(t)  BY <1>0, <2>3 DEF CheckFull, FreeInHand
  <2>4. CASE Enqueue(t)
    <3>1. UNCHANGED <<sending, sendIO>>  BY <2>4 DEF Enqueue
    <3>2. QED  BY <1>0, <2>4, <3>1, AfterEnqueue
  <2>5. CASE PeekSending(t)  BY <1>0, <2>5 DEF PeekSending
  <2>6. CASE TakeSendFlag(t)  BY <1>0, <2>6 DEF TakeSendFlag
  <2>7. CASE FreeSentPacket(t)  BY <1>0, <2>7 DEF FreeSentPacket
  <2>8. CASE DequeueSendQ(t)  BY <1>0, <2>8 DEF DequeueSendQ
  <2>9. CASE SendQEmpty(t)  BY <1>0, <2>9 DEF SendQEmpty
  <2>10. CASE SetSendFlagFalse(t)  BY <1>0, <2>10 DEF SetSendFlagFalse
  <2>11. CASE WSASend(t)  BY <1>0, <2>11 DEF WSASend
  <2>12. CASE AfterPending(t)  BY <1>0, <2>12 DEF AfterPending
  <2>13. CASE SpinForFlag(t)  BY <1>0, <2>13 DEF SpinForFlag
  <2>14. CASE SpinLook(t)  BY <1>0, <2>14 DEF SpinLook
  <2>15. CASE DisconnectLooks(t)  BY <1>0, <2>15 DEF DisconnectLooks
  <2>16. CASE SetCanceled(t)  BY <1>0, <2>16 DEF SetCanceled
  <2>17. CASE CancelIO(t)  BY <1>0, <2>17 DEF CancelIO, Cancelled
  <2>18. CASE DecrementIOCount(t)  BY <1>0, <2>18 DEF DecrementIOCount, GiveBack
  <2>19. CASE SubIOCount(t)  BY <1>0, <2>19 DEF SubIOCount, GiveBack
  <2>20. CASE ReleaseSession(t)  BY <1>0, <2>20 DEF ReleaseSession
  <2>21. CASE Destroy(t)  BY <1>0, <2>21 DEF Destroy, Cancelled, DeadQuiet, Quiet
  <2>22. CASE OnAborted(t)  BY <1>0, <2>22 DEF OnAborted
  <2>23. CASE OnSendCount(t)  BY <1>0, <2>23 DEF OnSendCount
  <2>24. CASE OnSendCanceled(t)  BY <1>0, <2>24 DEF OnSendCanceled
  <2>25. QED
    BY <1>1, <2>1, <2>2, <2>3, <2>4, <2>5, <2>6, <2>7, <2>8, <2>9, <2>10, <2>11, <2>12, <2>13,
       <2>14, <2>15, <2>16, <2>17, <2>18, <2>19, <2>20, <2>21, <2>22, <2>23, <2>24 DEF
       ThreadStep
<1>2. ASSUME NEW t \in Threads, NEW p, NEW op, FindForSend(t, p, op),
             UNCHANGED <<signs, isSendIOPending>>
      PROVE  OneDrain'
  BY <1>0, <1>2 DEF FindForSend
<1>3. ASSUME NEW t \in Threads, Disconnect(t)
      PROVE  OneDrain'
  BY <1>0, <1>3 DEF Disconnect
<1>4. ASSUME NEW t \in Threads, TakeSign(t)
      PROVE  OneDrain'
  BY <1>0, <1>4 DEF TakeSign
<1>5. ASSUME NEW t \in Threads, TakeSendCompletion(t)
      PROVE  OneDrain'
  BY <1>0, <1>5 DEF TakeSendCompletion
<1>6. ASSUME NEW t \in Threads, TakeRecvCompletion(t)
      PROVE  OneDrain'
  BY <1>0, <1>6 DEF TakeRecvCompletion
<1>7. CASE KernelSends
  BY <1>0, <1>7 DEF KernelSends, Finished, Results
<1>8. CASE KernelEndsReceive
  BY <1>0, <1>8 DEF KernelEndsReceive, Finished, Results
<1>9. ASSUME NEW t \in Threads, NEW op, Post(t, op)
      PROVE  OneDrain'
  BY <1>0, <1>9 DEF Post
<1>10. CASE UNCHANGED vars
  BY <1>0, <1>10 DEF vars
<1>11. QED
  BY <1>1, <1>2, <1>3, <1>4, <1>5, <1>6, <1>7, <1>8, <1>9, <1>10
     DEF Next, Threads, SendPacket, TakePost

\* The owner of the flag passes it on, resets it, or sees the session canceled.
LEMMA FlagNotLostStep ==
  ASSUME Scalars, NoneMissing, DeadQuiet, CanceledFirst, OneDrain, FlagNotLost,
         [Next]_vars
  PROVE  FlagNotLost'
<1>0. /\ pc \in [Threads -> PCs] /\ how \in [Threads -> Ops]
      /\ sendIO \in IOStates /\ recvIO \in IOStates
  BY TypeParts DEF Scalars
<1> USE DEF FlagNotLost, FlagOwners, Draining, Completing
<1>1. ASSUME NEW t \in Threads, ThreadStep(t)
      PROVE  FlagNotLost'
  <2>1. CASE AcquireSession(t)  BY <1>0, <2>1 DEF AcquireSession, FreeInHand
  <2>2. CASE CheckCanceled(t)  BY <1>0, <2>2 DEF CheckCanceled, FreeInHand
  <2>3. CASE CheckFull(t)  BY <1>0, <2>3 DEF CheckFull, FreeInHand
  <2>4. CASE Enqueue(t)  BY <1>0, <2>4, AfterEnqueue DEF Enqueue
  <2>5. CASE PeekSending(t)  BY <1>0, <2>5 DEF PeekSending
  <2>6. CASE TakeSendFlag(t)  BY <1>0, <2>6 DEF TakeSendFlag
  <2>7. CASE FreeSentPacket(t)  BY <1>0, <2>7 DEF FreeSentPacket
  <2>8. CASE DequeueSendQ(t)  BY <1>0, <2>8 DEF DequeueSendQ
  <2>9. CASE SendQEmpty(t)  BY <1>0, <2>9 DEF SendQEmpty
  <2>10. CASE SetSendFlagFalse(t)  BY <1>0, <2>10 DEF SetSendFlagFalse
  <2>11. CASE WSASend(t)  BY <1>0, <2>11 DEF WSASend
  <2>12. CASE AfterPending(t)  BY <1>0, <2>12 DEF AfterPending
  <2>13. CASE SpinForFlag(t)  BY <1>0, <2>13 DEF SpinForFlag
  <2>14. CASE SpinLook(t)  BY <1>0, <2>14 DEF SpinLook
  <2>15. CASE DisconnectLooks(t)  BY <1>0, <2>15 DEF DisconnectLooks
  <2>16. CASE SetCanceled(t)  BY <1>0, <2>16 DEF SetCanceled
  <2>17. CASE CancelIO(t)  BY <1>0, <2>17 DEF CancelIO, Cancelled
  <2>18. CASE DecrementIOCount(t)  BY <1>0, <2>18 DEF DecrementIOCount, GiveBack
  <2>19. CASE SubIOCount(t)  BY <1>0, <2>19 DEF SubIOCount, GiveBack
  <2>20. CASE ReleaseSession(t)  BY <1>0, <2>20 DEF ReleaseSession
  <2>21. CASE Destroy(t)  BY <1>0, <2>21 DEF Destroy, Cancelled
  <2>22. CASE OnAborted(t)  BY <1>0, <2>22 DEF OnAborted
  <2>23. CASE OnSendCount(t)  BY <1>0, <2>23 DEF OnSendCount
  <2>24. CASE OnSendCanceled(t)  BY <1>0, <2>24 DEF OnSendCanceled
  <2>25. QED
    BY <1>1, <2>1, <2>2, <2>3, <2>4, <2>5, <2>6, <2>7, <2>8, <2>9, <2>10, <2>11, <2>12, <2>13,
       <2>14, <2>15, <2>16, <2>17, <2>18, <2>19, <2>20, <2>21, <2>22, <2>23, <2>24 DEF
       ThreadStep
<1>2. ASSUME NEW t \in Threads, NEW p, NEW op, FindForSend(t, p, op),
             UNCHANGED <<signs, isSendIOPending>>
      PROVE  FlagNotLost'
  BY <1>0, <1>2 DEF FindForSend
<1>3. ASSUME NEW t \in Threads, Disconnect(t)
      PROVE  FlagNotLost'
  BY <1>0, <1>3 DEF Disconnect
<1>4. ASSUME NEW t \in Threads, TakeSign(t)
      PROVE  FlagNotLost'
  BY <1>0, <1>4 DEF TakeSign
<1>5. ASSUME NEW t \in Threads, TakeSendCompletion(t)
      PROVE  FlagNotLost'
  BY <1>0, <1>5 DEF TakeSendCompletion, CanceledFirst
<1>6. ASSUME NEW t \in Threads, TakeRecvCompletion(t)
      PROVE  FlagNotLost'
  BY <1>0, <1>6 DEF TakeRecvCompletion
<1>7. CASE KernelSends
  BY <1>0, <1>7 DEF KernelSends, Finished, Results
<1>8. CASE KernelEndsReceive
  BY <1>0, <1>8 DEF KernelEndsReceive, Finished, Results
<1>9. ASSUME NEW t \in Threads, NEW op, Post(t, op)
      PROVE  FlagNotLost'
  BY <1>0, <1>9 DEF Post
<1>10. CASE UNCHANGED vars
  BY <1>0, <1>10 DEF vars
<1>11. QED
  BY <1>1, <1>2, <1>3, <1>4, <1>5, <1>6, <1>7, <1>8, <1>9, <1>10
     DEF Next, Threads, SendPacket, TakePost
-----------------------------------------------------------------------------
(***************************************************************************)
(* The order of packets: what was accepted is what was sent, what the      *)
(* owner of the flag took, and what waits.                                 *)
(***************************************************************************)
Whole  == accepted = wire \o (sentQ \o sendQ)
NoneTaken == accepted = wire \o sendQ
SomeLost == \E lost \in Seq(Packets) : accepted = wire \o (lost \o sendQ)

Ordered ==
  /\ SomeLost
  /\ \A t \in Threads : /\ pc[t] \in {"drain", "wsaSend", "flagOff"} => Whole
                        /\ pc[t] = "flagOff" => sentQ = <<>>
                        /\ pc[t] = "wsaSend" => sentQ # <<>>
                        /\ pc[t] \in {"freeSent"} \cup Completing => NoneTaken
  /\ ~dead /\ ~sending => NoneTaken
  /\ sendIO # "none" => NoneTaken

\* Moving the head of a queue behind another does not change the whole.
LEMMA HeadMoves ==
  ASSUME NEW S, NEW r \in Seq(S), NEW s \in Seq(S), s # <<>>
  PROVE  Append(r, Head(s)) \o Tail(s) = r \o s
<1>1. Head(s) \in S /\ Tail(s) \in Seq(S) /\ <<Head(s)>> \in Seq(S)
  BY HeadTailProperties
<1>2. Append(r, Head(s)) = r \o <<Head(s)>>
  BY <1>1, AppendIsConcat
<1>3. <<Head(s)>> \o Tail(s) = s
  <2>1. Len(s) \in Nat \ {0}  BY EmptySeq
  <2>2. SubSeq(s, 1, Len(s)) = <<s[1]>> \o SubSeq(s, 2, Len(s))
    BY <2>1, SubSeqRecursiveFirst
  <2>3. Head(s) = s[1]  BY <2>1, HeadTailOfSubSeq, SubSeqFull
  <2>4. QED  BY <2>2, <2>3, SubSeqFull, TailIsSubSeq
<1>4. QED
  BY <1>1, <1>2, <1>3, ConcatAssociative

\* Concatenation of sequences of packets.
LEMMA PacketsAssociative ==
  ASSUME NEW r \in Seq(Packets), NEW s \in Seq(Packets), NEW q \in Seq(Packets)
  PROVE  r \o (s \o q) = (r \o s) \o q
  BY ConcatAssociative, SMTT(60)

\* The facts about sequences that are needed, for sequences of packets.
LEMMA PacketSequences ==
  ASSUME NEW r \in Seq(Packets), NEW s \in Seq(Packets)
  PROVE  /\ r \o s \in Seq(Packets)
         /\ r \o <<>> = r /\ <<>> \o r = r
         /\ \A q \in Seq(Packets) : r \o (s \o q) = (r \o s) \o q
         /\ s # <<>> => Append(r, Head(s)) \o Tail(s) = r \o s
<1>1. r \o s \in Seq(Packets)                         BY ConcatProperties
<1>2. r \o <<>> = r /\ <<>> \o r = r                 BY ConcatEmptySeq
<1>3. ASSUME NEW q \in Seq(Packets)
      PROVE  r \o (s \o q) = (r \o s) \o q            BY PacketsAssociative
<1>4. ASSUME s # <<>>
      PROVE  Append(r, Head(s)) \o Tail(s) = r \o s     BY <1>4, HeadMoves
<1>5. QED  BY <1>1, <1>2, <1>3, <1>4

\* What the steps on the queues do to that equation.
LEMMA QueueMoves ==
  ASSUME TypeOK, Hands, NEW t \in Threads, SomeLost
  PROVE  /\ Enqueue(t) => /\ Whole => Whole'
                          /\ NoneTaken => NoneTaken'
                          /\ SomeLost'
         /\ FreeSentPacket(t) => SomeLost' /\ (NoneTaken => Whole')
         /\ DequeueSendQ(t) => SomeLost' /\ (Whole => Whole')
         /\ WSASend(t) /\ wire' # wire /\ Whole => SomeLost' /\ NoneTaken'
         /\ Destroy(t) => SomeLost'
<1>0. /\ sendQ \in Seq(Packets) /\ sentQ \in Seq(Packets)
      /\ accepted \in Seq(Packets) /\ wire \in Seq(Packets)
      /\ <<>> \in Seq(Packets)
  BY TypeParts, EmptySeq DEF Sequences4
<1>1. PICK lost \in Seq(Packets) : accepted = wire \o (lost \o sendQ)
  BY DEF SomeLost
<1>2. ASSUME Enqueue(t)
      PROVE  (Whole => Whole') /\ (NoneTaken => NoneTaken') /\ SomeLost'
  <2>1. /\ sendQ' = Append(sendQ, pkt[t]) /\ accepted' = Append(accepted, pkt[t])
        /\ UNCHANGED <<wire, sentQ>> /\ pkt[t] \in Packets
    BY <1>2, TypeParts DEF Enqueue, Hands, Carrying, PacketSets
  <2> DEFINE last == <<pkt[t]>>
  <2>2. last \in Seq(Packets) /\ sendQ' = sendQ \o last /\ accepted' = accepted \o last
    BY <1>0, <2>1, AppendIsConcat
  <2> HIDE DEF last
  <2>3. ASSUME NEW r \in Seq(Packets), accepted = r \o sendQ
        PROVE  accepted' = r \o sendQ'
    <3>1. sendQ \in Seq(Packets) /\ last \in Seq(Packets)
      BY <1>0, <2>2
    <3>2. r \o (sendQ \o last) = (r \o sendQ) \o last
      BY <3>1, PacketsAssociative, SMTT(60)
    <3>3. QED  BY <2>2, <2>3, <3>2
  <2>4. ASSUME NEW r \in Seq(Packets), accepted = wire \o (r \o sendQ)
        PROVE  accepted' = wire' \o (r \o sendQ')
    <3>0. wire \in Seq(Packets) /\ sendQ \in Seq(Packets) /\ wire \o r \in Seq(Packets)
      BY <1>0, ConcatProperties
    <3>1. accepted = (wire \o r) \o sendQ
      BY <2>4, <3>0, PacketsAssociative, SMTT(60)
    <3>2. accepted' = (wire \o r) \o sendQ'
      BY <2>3, <3>0, <3>1
    <3>3. sendQ' \in Seq(Packets)
      BY <1>0, <2>2, ConcatProperties
    <3>4. (wire \o r) \o sendQ' = wire \o (r \o sendQ')
      BY <3>0, <3>3, PacketsAssociative, SMTT(60)
    <3>5. QED  BY <2>1, <3>2, <3>4
  <2>5. QED
    BY <1>0, <1>1, <2>1, <2>3, <2>4 DEF Whole, NoneTaken, SomeLost
<1>3. ASSUME FreeSentPacket(t)
      PROVE  SomeLost' /\ (NoneTaken => Whole')
  BY <1>0, <1>1, <1>3, ConcatEmptySeq DEF FreeSentPacket, SomeLost, NoneTaken, Whole
<1>4. ASSUME DequeueSendQ(t)
      PROVE  SomeLost' /\ (Whole => Whole')
  <2>1. /\ sendQ # <<>> /\ sentQ' = Append(sentQ, Head(sendQ)) /\ sendQ' = Tail(sendQ)
        /\ UNCHANGED <<accepted, wire>>
    BY <1>4 DEF DequeueSendQ
  <2>2. Head(sendQ) \in Packets  BY <1>0, <2>1, HeadTailProperties
  <2>3. Append(lost, Head(sendQ)) \in Seq(Packets)
    BY <2>2, AppendProperties
  <2>4. accepted' = wire' \o (Append(lost, Head(sendQ)) \o sendQ')
    BY <1>0, <1>1, <2>1, HeadMoves
  <2>5. Whole => Whole'
    BY <1>0, <2>1, HeadMoves, ZenonT(30) DEF Whole
  <2>6. QED  BY <2>3, <2>4, <2>5 DEF SomeLost
<1>5. ASSUME WSASend(t), wire' # wire, Whole
      PROVE  SomeLost' /\ NoneTaken'
  <2>1. wire' = wire \o sentQ /\ UNCHANGED <<accepted, sendQ, sentQ>>
    BY <1>5 DEF WSASend
  <2>2. NoneTaken'
    <3>1. wire \o (sentQ \o sendQ) = (wire \o sentQ) \o sendQ
      BY <1>0, PacketSequences, SMTT(30)
    <3>2. QED  BY <1>5, <2>1, <3>1 DEF Whole, NoneTaken
  <2>3. <<>> \o sendQ' = sendQ'
    BY <1>0, <2>1, ConcatEmptySeq
  <2>4. QED  BY <1>0, <2>2, <2>3 DEF NoneTaken, SomeLost
<1>6. ASSUME Destroy(t)
      PROVE  SomeLost'
  <2>1. sendQ' = <<>> /\ UNCHANGED <<accepted, wire>>  BY <1>6 DEF Destroy
  <2>2. lost \o sendQ \in Seq(Packets)  BY <1>0, ConcatProperties
  <2>3. (lost \o sendQ) \o <<>> = lost \o sendQ   BY <2>2, ConcatEmptySeq
  <2>4. QED  BY <1>1, <2>1, <2>2, <2>3 DEF SomeLost
<1>7. QED  BY <1>2, <1>3, <1>4, <1>5, <1>6

\* What the owner of the flag takes out of the queue is sent next, or nothing is
\* sent any more.
LEMMA OrderedStep ==
  ASSUME TypeOK, Hands, NoneMissing, DeadQuiet, OneDrain, Ordered, [Next]_vars
  PROVE  Ordered'
<1>0. /\ pc \in [Threads -> PCs] /\ how \in [Threads -> Ops] /\ sendIO \in IOStates
      /\ SomeLost /\ Scalars
  BY TypeParts DEF Scalars, Ordered
<1> USE DEF Ordered, OneDrain, FlagOwners, Draining, Completing
<1> DEFINE Kept == /\ Whole' <=> Whole
                   /\ NoneTaken' <=> NoneTaken
                   /\ SomeLost' <=> SomeLost
<1>k. UNCHANGED <<accepted, wire, sentQ, sendQ>> => Kept
  BY DEF Whole, NoneTaken, SomeLost
<1>f. sentQ = <<>> /\ Whole => NoneTaken
  BY TypeParts, ConcatEmptySeq DEF Sequences4, Whole, NoneTaken
<1>1. ASSUME NEW t \in Threads, ThreadStep(t)
      PROVE  Ordered'
  <2>1. CASE AcquireSession(t)  BY <1>0, <1>k, <2>1 DEF AcquireSession, FreeInHand
  <2>2. CASE CheckCanceled(t)  BY <1>0, <1>k, <2>2 DEF CheckCanceled, FreeInHand
  <2>3. CASE CheckFull(t)  BY <1>0, <1>k, <2>3 DEF CheckFull, FreeInHand
  <2>4. CASE Enqueue(t)
    <3>1. UNCHANGED <<sending, sendIO, sentQ, dead>>  BY <2>4 DEF Enqueue
    <3>2. (Whole => Whole') /\ (NoneTaken => NoneTaken') /\ SomeLost'
      BY <1>0, <2>4, QueueMoves
    <3>3. QED  BY <1>0, <2>4, <3>1, <3>2, AfterEnqueue
  <2>5. CASE PeekSending(t)  BY <1>0, <1>k, <2>5 DEF PeekSending
  <2>6. CASE TakeSendFlag(t)  BY <1>0, <1>k, <2>6 DEF TakeSendFlag, DeadQuiet, Quiet
  <2>7. CASE FreeSentPacket(t)
    <3>1. /\ UNCHANGED <<sending, sendIO, dead>>
          /\ pc[t] = "freeSent" /\ pc' = [pc EXCEPT ![t] = "drain"]
      BY <2>7 DEF FreeSentPacket
    <3>2. Whole' /\ SomeLost'
      BY <1>0, <2>7, <3>1, QueueMoves
    <3>3. QED  BY <1>0, <3>1, <3>2
  <2>8. CASE DequeueSendQ(t)
    <3>1. /\ UNCHANGED <<sending, sendIO, dead>>
          /\ pc[t] = "drain" /\ pc' = [pc EXCEPT ![t] = "drain"]
      BY <2>8 DEF DequeueSendQ
    <3>2. Whole' /\ SomeLost'
      BY <1>0, <2>8, <3>1, QueueMoves
    <3>3. QED  BY <1>0, <3>1, <3>2
  <2>9. CASE SendQEmpty(t)  BY <1>0, <1>k, <2>9 DEF SendQEmpty
  <2>10. CASE SetSendFlagFalse(t)  BY <1>0, <1>k, <2>10, <1>f DEF SetSendFlagFalse
  <2>11. CASE WSASend(t)  BY <1>0, <1>k, <2>11, QueueMoves DEF WSASend
  <2>12. CASE AfterPending(t)  BY <1>0, <1>k, <2>12 DEF AfterPending
  <2>13. CASE SpinForFlag(t)  BY <1>0, <1>k, <2>13 DEF SpinForFlag, DeadQuiet, Quiet
  <2>14. CASE SpinLook(t)  BY <1>0, <1>k, <2>14 DEF SpinLook
  <2>15. CASE DisconnectLooks(t)  BY <1>0, <1>k, <2>15 DEF DisconnectLooks
  <2>16. CASE SetCanceled(t)  BY <1>0, <1>k, <2>16 DEF SetCanceled
  <2>17. CASE CancelIO(t)  BY <1>0, <1>k, <2>17 DEF CancelIO, Cancelled
  <2>18. CASE DecrementIOCount(t)  BY <1>0, <1>k, <2>18 DEF DecrementIOCount, GiveBack
  <2>19. CASE SubIOCount(t)  BY <1>0, <1>k, <2>19 DEF SubIOCount, GiveBack
  <2>20. CASE ReleaseSession(t)  BY <1>0, <1>k, <2>20 DEF ReleaseSession
  <2>21. CASE Destroy(t)
    BY <1>0, <1>k, <2>21, QueueMoves DEF Destroy, Cancelled, DeadQuiet, Quiet
  <2>22. CASE OnAborted(t)  BY <1>0, <1>k, <2>22 DEF OnAborted
  <2>23. CASE OnSendCount(t)  BY <1>0, <1>k, <2>23 DEF OnSendCount
  <2>24. CASE OnSendCanceled(t)  BY <1>0, <1>k, <2>24 DEF OnSendCanceled
  <2>25. QED
    BY <1>1, <2>1, <2>2, <2>3, <2>4, <2>5, <2>6, <2>7, <2>8, <2>9, <2>10, <2>11, <2>12, <2>13,
       <2>14, <2>15, <2>16, <2>17, <2>18, <2>19, <2>20, <2>21, <2>22, <2>23, <2>24 DEF
       ThreadStep
<1>2. ASSUME NEW t \in Threads, NEW p, NEW op, FindForSend(t, p, op),
             UNCHANGED <<signs, isSendIOPending>>
      PROVE  Ordered'
  BY <1>0, <1>k, <1>2 DEF FindForSend
<1>3. ASSUME NEW t \in Threads, Disconnect(t)
      PROVE  Ordered'
  BY <1>0, <1>k, <1>3 DEF Disconnect
<1>4. ASSUME NEW t \in Threads, TakeSign(t)
      PROVE  Ordered'
  BY <1>0, <1>k, <1>4 DEF TakeSign
<1>5. ASSUME NEW t \in Threads, TakeSendCompletion(t)
      PROVE  Ordered'
  BY <1>0, <1>k, <1>5 DEF TakeSendCompletion
<1>6. ASSUME NEW t \in Threads, TakeRecvCompletion(t)
      PROVE  Ordered'
  BY <1>0, <1>k, <1>6 DEF TakeRecvCompletion
<1>7. CASE KernelSends
  BY <1>0, <1>k, <1>7 DEF KernelSends, Finished, Results
<1>8. CASE KernelEndsReceive
  BY <1>0, <1>k, <1>8 DEF KernelEndsReceive, Finished, Results
<1>9. ASSUME NEW t \in Threads, NEW op, Post(t, op)
      PROVE  Ordered'
  BY <1>0, <1>k, <1>9 DEF Post
<1>10. CASE UNCHANGED vars
  BY <1>0, <1>k, <1>10 DEF vars
<1>11. QED
  BY <1>1, <1>2, <1>3, <1>4, <1>5, <1>6, <1>7, <1>8, <1>9, <1>10
     DEF Next, Threads, SendPacket, TakePost

\* The kernel sends from sentQ_, which is what was sent last.
InFlight ==
  sendIO # "none" => /\ sentQ # <<>>
                     /\ \E before \in Seq(Packets) : wire = before \o sentQ

\* Nobody touches sentQ_ while the kernel has it.
LEMMA InFlightStep ==
  ASSUME TypeOK, Hands, NoneMissing, DeadQuiet, OneDrain, Ordered, InFlight, [Next]_vars
  PROVE  InFlight'
<1>0. wire \in Seq(Packets)
  BY TypeParts DEF Sequences4
<1>1. ASSUME NEW t \in Threads, WSASend(t), sendIO' # sendIO
      PROVE  InFlight'
  <2>1. sentQ # <<>> /\ sentQ' = sentQ /\ wire' = wire \o sentQ
    BY <1>1 DEF WSASend, Ordered
  <2>2. QED  BY <1>0, <2>1 DEF InFlight
<1>2. ASSUME NEW t \in Threads, FreeSentPacket(t) \/ DequeueSendQ(t) \/ Destroy(t)
      PROVE  InFlight'
  BY <1>2 DEF FreeSentPacket, DequeueSendQ, Destroy, Cancelled, InFlight, OneDrain,
              FlagOwners, Draining, DeadQuiet
<1>3. ASSUME sendIO' # "none" => sendIO # "none", UNCHANGED <<sentQ, wire>>
      PROVE  InFlight'
  BY <1>3 DEF InFlight
<1>4. ASSUME NEW t \in Threads, ThreadStep(t)
      PROVE  InFlight'
  <2>1. CASE WSASend(t)
    BY <1>1, <1>3, <2>1 DEF WSASend, OneDrain, FlagOwners, Draining, SendResults
  <2>2. CASE FreeSentPacket(t) \/ DequeueSendQ(t) \/ Destroy(t)
    BY <1>2, <2>2
  <2>3. CASE CancelIO(t)
    BY <1>3, <2>3 DEF CancelIO, Cancelled
  <2>4. CASE ~(WSASend(t) \/ FreeSentPacket(t) \/ DequeueSendQ(t) \/ Destroy(t)
                 \/ CancelIO(t))
    BY <1>3, <1>4, <2>4
       DEF ThreadStep, AcquireSession, CheckCanceled, CheckFull, Enqueue, PeekSending,
           TakeSendFlag, SendQEmpty, SetSendFlagFalse, AfterPending, SpinForFlag, SpinLook,
           DisconnectLooks, SetCanceled, DecrementIOCount, SubIOCount, GiveBack,
           ReleaseSession, OnAborted, OnSendCount, OnSendCanceled
  <2>5. QED  BY <2>1, <2>2, <2>3, <2>4
<1>5. ASSUME NEW t \in Threads, NEW p, NEW op,
             FindForSend(t, p, op) \/ Disconnect(t) \/ TakeSign(t) \/ Post(t, op)
               \/ TakeSendCompletion(t) \/ TakeRecvCompletion(t)
      PROVE  InFlight'
  BY <1>3, <1>5 DEF FindForSend, Disconnect, TakeSign, Post, TakeSendCompletion,
                    TakeRecvCompletion
<1>6. CASE KernelSends \/ KernelEndsReceive \/ UNCHANGED vars
  BY <1>3, <1>6 DEF KernelSends, KernelEndsReceive, Finished, vars
<1>7. QED
  BY <1>4, <1>5, <1>6 DEF Next, Threads, SendPacket, TakePost
-----------------------------------------------------------------------------
(***************************************************************************)
(* The places of a packet.                                                 *)
(***************************************************************************)
Occurs(s, p) == {i \in DOMAIN s : s[i] = p}
Posted(p)    == {m \in posts : m[1] = p}

\* A packet that was created is in one place, one that was not is in none.
Places(p) ==
  Cardinality(InHand(p)) + Cardinality(Posted(p)) + Cardinality(Occurs(sendQ, p))
    + Cardinality(Occurs(sentQ, p)) + Cardinality({p} \cap freed)
OnePlace == \A p \in Packets : Places(p) = IF p <= created THEN 1 ELSE 0

\* How often a packet occurs in a queue, and when it does not.
LEMMA OccursFinite ==
  ASSUME NEW s \in Seq(Packets), NEW p
  PROVE  /\ IsFiniteSet(Occurs(s, p)) /\ Cardinality(Occurs(s, p)) \in Nat
         /\ Cardinality(Occurs(s, p)) = 0 <=> \A i \in DOMAIN s : s[i] # p
<1>1. Len(s) \in Nat /\ DOMAIN s = 1..Len(s)     BY LenProperties
<1>2. IsFiniteSet(1..Len(s))                     BY <1>1, FS_Interval
<1>3. Occurs(s, p) \in SUBSET (1..Len(s))        BY <1>1 DEF Occurs
<1>4. IsFiniteSet(Occurs(s, p))                  BY <1>2, <1>3, FS_Subset
<1>5. Occurs(s, p) = {} <=> \A i \in DOMAIN s : s[i] # p
  BY DEF Occurs
<1>6. QED  BY <1>4, <1>5, FS_CardinalityType, FS_EmptySet

\* Nothing is in an empty queue.
LEMMA OccursEmpty ==
  ASSUME NEW p
  PROVE  Cardinality(Occurs(<<>>, p)) = 0
<1>1. Occurs(<<>>, p) = {}  BY DEF Occurs
<1>2. QED                   BY <1>1, FS_EmptySet

\* A queue gains what is appended.
LEMMA OccursAppend ==
  ASSUME NEW s \in Seq(Packets), NEW e \in Packets, NEW p
  PROVE  Cardinality(Occurs(Append(s, e), p))
           = Cardinality(Occurs(s, p)) + IF e = p THEN 1 ELSE 0
<1> DEFINE n == Len(s) + 1
           a == Append(s, e)
<1>1. /\ n \in Nat \ {0} /\ DOMAIN s = 1..(n - 1) /\ DOMAIN a = 1..n
      /\ a[n] = e /\ \A i \in 1..(n - 1) : a[i] = s[i]
  <2>1. /\ a \in Seq(Packets) /\ Len(a) = n /\ a[n] = e
        /\ \A i \in 1..Len(s) : a[i] = s[i]
    BY AppendProperties
  <2>2. Len(s) \in Nat /\ DOMAIN s = 1..Len(s) /\ DOMAIN a = 1..Len(a)
    BY <2>1, LenProperties
  <2>3. QED  BY <2>1, <2>2
<1> HIDE DEF a, n
<1>2. Occurs(s, p) \ {n} = Occurs(a, p) \ {n}
  <2>1. \A i : i \in 1..(n - 1) <=> i \in 1..n /\ i # n
    BY <1>1
  <2>2. \A i : i \in Occurs(s, p) \ {n} <=> i \in Occurs(a, p) \ {n}
    BY <1>1, <2>1 DEF Occurs
  <2>3. QED  BY <2>2
<1>3. n \notin Occurs(s, p) /\ (n \in Occurs(a, p) <=> e = p)
  BY <1>1 DEF Occurs
<1>4. QED
  BY <1>2, <1>3, OccursFinite, MoveOne DEF a

\* A queue loses its head.
LEMMA OccursTail ==
  ASSUME NEW s \in Seq(Packets), s # <<>>, NEW p
  PROVE  Cardinality(Occurs(Tail(s), p))
           = Cardinality(Occurs(s, p)) - IF Head(s) = p THEN 1 ELSE 0
<1> DEFINE n == Len(s)
           Rest == Occurs(s, p) \ {1}
           shift == [i \in Occurs(Tail(s), p) |-> i + 1]
<1>1. /\ n \in Nat \ {0} /\ DOMAIN s = 1..n /\ Head(s) = s[1]
      /\ Tail(s) \in Seq(Packets) /\ DOMAIN Tail(s) = 1..(n - 1)
      /\ \A i \in 1..(n - 1) : Tail(s)[i] = s[i + 1]
  <2>1. n \in Nat \ {0} /\ DOMAIN s = 1..n
    BY EmptySeq, LenProperties
  <2>2. /\ Tail(s) \in Seq(Packets) /\ Len(Tail(s)) = n - 1
        /\ \A i \in 1..(n - 1) : Tail(s)[i] = s[i + 1]
    BY HeadTailProperties
  <2>3. DOMAIN Tail(s) = 1..(n - 1)  BY <2>2, LenProperties
  <2>4. Head(s) = s[1]               BY <2>1, HeadTailOfSubSeq, SubSeqFull
  <2>5. QED  BY <2>1, <2>2, <2>3, <2>4
<1> DEFINE T == Tail(s)
<1> HIDE DEF n, T
<1>2. shift \in Bijection(Occurs(Tail(s), p), Rest)
  <2>1. ASSUME NEW i \in Occurs(Tail(s), p)
        PROVE  shift[i] = i + 1 /\ i + 1 \in Rest
    BY <1>1, <2>1 DEF Occurs
  <2>2. ASSUME NEW j \in Rest
        PROVE  j - 1 \in Occurs(Tail(s), p) /\ shift[j - 1] = j
    BY <1>1, <2>2 DEF Occurs
  <2>3. Occurs(Tail(s), p) \subseteq Int
    BY <1>1 DEF Occurs
  <2> HIDE DEF shift, Rest
  <2>4. shift \in [Occurs(Tail(s), p) -> Rest]
    BY <2>1 DEF shift
  <2>5. \A i, j \in Occurs(Tail(s), p) : shift[i] = shift[j] => i = j
    BY <2>1, <2>3
  <2>6. QED
    BY <2>2, <2>4, <2>5 DEF Bijection, Injection, Surjection, IsInjective
<1>3. Cardinality(Rest) = Cardinality(Occurs(Tail(s), p))
  BY <1>1, <1>2, OccursFinite, FS_Bijection, ZenonT(30) DEF ExistsBijection
<1>4. Cardinality(Rest) = Cardinality(Occurs(s, p)) - IF 1 \in Occurs(s, p) THEN 1 ELSE 0
  <2>1. IsFiniteSet(Occurs(s, p)) /\ Cardinality(Occurs(s, p)) \in Nat
    BY OccursFinite
  <2>2. Cardinality(Rest) = IF 1 \in Occurs(s, p) THEN Cardinality(Occurs(s, p)) - 1
                                                 ELSE Cardinality(Occurs(s, p))
    BY <2>1, FS_RemoveElement
  <2> HIDE DEF Rest
  <2>3. QED  BY <2>1, <2>2
<1>5. 1 \in Occurs(s, p) <=> Head(s) = p
  BY <1>1 DEF Occurs
<1>6. QED  BY <1>3, <1>4, <1>5

\* A packet is freed once or not at all.
LEMMA FreedCount ==
  ASSUME NEW p, NEW F
  PROVE  Cardinality({p} \cap F) = IF p \in F THEN 1 ELSE 0
<1>1. CASE p \in F
  <2>1. {p} \cap F = {p}  BY <1>1
  <2>2. QED               BY <1>1, <2>1, FS_Singleton
<1>2. CASE p \notin F
  <2>1. {p} \cap F = {}   BY <1>2
  <2>2. QED               BY <1>2, <2>1, FS_EmptySet
<1>3. QED  BY <1>1, <1>2
\* There are finitely many messages in the port.
LEMMA PostedFinite ==
  ASSUME PacketSets, NEW p
  PROVE  IsFiniteSet(Posted(p))
<1>1. IsFiniteSet(Packets) /\ IsFiniteSet({"send", "last"})
  <2>1. IsFiniteSet({"send"})  BY FS_Singleton
  <2>2. IsFiniteSet({"send"} \cup {"last"})  BY <2>1, FS_AddElement
  <2>3. {"send"} \cup {"last"} = {"send", "last"}  OBVIOUS
  <2>4. QED  BY <2>2, <2>3, FS_Interval DEF Packets
<1>2. IsFiniteSet(Packets \X {"send", "last"})
  BY <1>1, FS_Product
<1>3. Posted(p) \in SUBSET (Packets \X {"send", "last"})
  BY DEF Posted, PacketSets
<1>4. QED  BY <1>2, <1>3, FS_Subset

\* What is in hand, and what is posted, moves with one thread and one message.
LEMMA HandMoves ==
  ASSUME PacketSets, NEW t \in Threads, \A x \in Threads : x # t => pkt'[x] = pkt[x], NEW p
  PROVE  Cardinality(InHand(p))' = Cardinality(InHand(p)) - (IF pkt[t] = p THEN 1 ELSE 0)
                                     + (IF pkt'[t] = p THEN 1 ELSE 0)
<1>1. InHand(p) \in SUBSET Threads  BY DEF InHand
<1>2. IsFiniteSet(InHand(p))        BY <1>1, HoldersFinite, FS_Subset
<1>3. /\ InHand(p) \ {t} = InHand(p)' \ {t}
      /\ t \in InHand(p) <=> pkt[t] = p
      /\ t \in InHand(p)' <=> pkt'[t] = p
  BY DEF InHand, PacketSets
<1>4. QED  BY <1>2, <1>3, MoveOne

\* The messages on a packet move with the one that comes or goes.
LEMMA PostedMoves ==
  ASSUME PacketSets, NEW m, posts' \ {m} = posts \ {m}, NEW p
  PROVE  Cardinality(Posted(p))' = Cardinality(Posted(p)) - (IF m \in Posted(p) THEN 1 ELSE 0)
                                     + (IF m \in Posted(p)' THEN 1 ELSE 0)
<1>1. IsFiniteSet(Posted(p))  BY PostedFinite
<1>2. Posted(p) \ {m} = Posted(p)' \ {m}  BY DEF Posted
<1>3. QED  BY <1>1, <1>2, MoveOne

\* The parts of the sum are numbers.
LEMMA PlacesNumbers ==
  ASSUME Sequences4, PacketSets, NEW p
  PROVE  /\ Cardinality(InHand(p)) \in Nat /\ Cardinality(Posted(p)) \in Nat
         /\ Cardinality(Occurs(sendQ, p)) \in Nat /\ Cardinality(Occurs(sentQ, p)) \in Nat
         /\ Cardinality({p} \cap freed) = IF p \in freed THEN 1 ELSE 0
         /\ \A t \in Threads : pkt[t] = p => Cardinality(InHand(p)) # 0
<1>1. InHand(p) \in SUBSET Threads  BY DEF InHand
<1>2. IsFiniteSet(InHand(p))        BY <1>1, HoldersFinite, FS_Subset
<1>3. \A t \in Threads : pkt[t] = p => Cardinality(InHand(p)) # 0
  BY <1>2, FS_EmptySet DEF InHand
<1>4. QED
  BY <1>2, <1>3, PostedFinite, OccursFinite, FreedCount, FS_CardinalityType DEF Sequences4

\* Every step that takes a packet from a place puts it in one other.
LEMMA OnePlaceStep ==
  ASSUME TypeOK, Hands, OnePlace, [Next]_vars
  PROVE  OnePlace'
<1> SUFFICES ASSUME NEW p \in Packets
             PROVE  Places(p)' = IF p <= created' THEN 1 ELSE 0
  BY DEF OnePlace
<1> DEFINE hand   == Cardinality(InHand(p))
           posted == Cardinality(Posted(p))
           queued == Cardinality(Occurs(sendQ, p))
           taken  == Cardinality(Occurs(sentQ, p))
           gone   == Cardinality({p} \cap freed)
<1>0. /\ Sequences4 /\ PacketSets /\ p \in Nat /\ p # 0 /\ created \in Nat
      /\ hand \in Nat /\ posted \in Nat /\ queued \in Nat /\ taken \in Nat
      /\ gone = IF p \in freed THEN 1 ELSE 0
      /\ hand + posted + queued + taken + gone = IF p <= created THEN 1 ELSE 0
  BY TypeParts, PlacesNumbers DEF OnePlace, Places, PacketSets, Packets
<1>f. gone' = IF p \in freed' THEN 1 ELSE 0
  BY FreedCount
<1>s. Places(p)' = hand' + posted' + queued' + taken' + gone'
  BY DEF Places
<1>h. pkt' = pkt => hand' = hand            BY DEF InHand
<1>p. posts' = posts => posted' = posted    BY DEF Posted
<1>q. sendQ' = sendQ => queued' = queued    OBVIOUS
<1>t. sentQ' = sentQ => taken' = taken      OBVIOUS
<1>e. /\ sendQ' = <<>> => queued' = 0
      /\ sentQ' = <<>> => taken' = 0
  BY OccursEmpty
<1>o. /\ queued # 0 <=> p \in {sendQ[i] : i \in DOMAIN sendQ}
      /\ taken # 0 <=> p \in {sentQ[i] : i \in DOMAIN sentQ}
  BY <1>0, OccursFinite DEF Sequences4
<1> HIDE DEF hand, posted, queued, taken, gone
<1>1. CASE DataKept
  <2>1. freed' = freed /\ created' = created  BY <1>1 DEF DataKept
  <2>2. QED  BY <1>0, <1>1, <1>f, <1>s, <1>h, <1>p, <1>q, <1>t, <2>1 DEF DataKept
<1>2. ASSUME NEW t \in Threads, Refuses(t)
      PROVE  Places(p)' = IF p <= created' THEN 1 ELSE 0
  <2>1. /\ UNCHANGED <<sendQ, sentQ, posts, created>>
        /\ freed' = freed \cup {pkt[t]} /\ pkt' = [pkt EXCEPT ![t] = 0]
    BY <1>2 DEF Refuses, FreeInHand
  <2>h. pkt'[t] = 0 /\ \A x \in Threads : x # t => pkt'[x] = pkt[x]
    BY <1>0, <2>1 DEF PacketSets
  <2>2. hand' = hand - IF pkt[t] = p THEN 1 ELSE 0
    BY <1>0, <2>1, <2>h, HandMoves DEF hand
  <2>3. pkt[t] = p => hand # 0
    BY <1>0, PlacesNumbers DEF hand
  <2>4. QED  BY <1>0, <1>f, <1>s, <1>p, <1>q, <1>t, <2>1, <2>2, <2>3
<1>3. ASSUME NEW t \in Threads, Enqueue(t)
      PROVE  Places(p)' = IF p <= created' THEN 1 ELSE 0
  <2>1. /\ UNCHANGED <<sentQ, posts, freed, created>> /\ pkt[t] \in Packets
        /\ sendQ' = Append(sendQ, pkt[t]) /\ pkt' = [pkt EXCEPT ![t] = 0]
    BY <1>0, <1>3 DEF Enqueue, Hands, Carrying, PacketSets
  <2>h. pkt'[t] = 0 /\ \A x \in Threads : x # t => pkt'[x] = pkt[x]
    BY <1>0, <2>1 DEF PacketSets
  <2>2. hand' = hand - IF pkt[t] = p THEN 1 ELSE 0
    BY <1>0, <2>h, HandMoves DEF hand
  <2>3. queued' = queued + IF pkt[t] = p THEN 1 ELSE 0
    BY <1>0, <2>1, OccursAppend DEF queued, Sequences4
  <2>4. QED  BY <1>0, <1>f, <1>s, <1>p, <1>t, <2>1, <2>2, <2>3, SMTT(30)
<1>4. ASSUME NEW t \in Threads, FreeSentPacket(t)
      PROVE  Places(p)' = IF p <= created' THEN 1 ELSE 0
  <2>1. /\ UNCHANGED <<sendQ, posts, pkt, created>> /\ sentQ' = <<>>
        /\ freed' = freed \cup {sentQ[i] : i \in DOMAIN sentQ}
    BY <1>4 DEF FreeSentPacket
  <2>2. QED  BY <1>0, <1>f, <1>s, <1>h, <1>p, <1>q, <1>e, <1>o, <2>1, SMTT(30)
<1>5. ASSUME NEW t \in Threads, DequeueSendQ(t)
      PROVE  Places(p)' = IF p <= created' THEN 1 ELSE 0
  <2>1. /\ UNCHANGED <<posts, pkt, freed, created>> /\ sendQ # <<>>
        /\ sentQ' = Append(sentQ, Head(sendQ)) /\ sendQ' = Tail(sendQ)
    BY <1>5 DEF DequeueSendQ
  <2>2. Head(sendQ) \in Packets
    BY <1>0, <2>1, HeadTailProperties DEF Sequences4
  <2>3. queued' = queued - IF Head(sendQ) = p THEN 1 ELSE 0
    BY <1>0, <2>1, OccursTail DEF queued, Sequences4
  <2>4. taken' = taken + IF Head(sendQ) = p THEN 1 ELSE 0
    BY <1>0, <2>1, <2>2, OccursAppend DEF taken, Sequences4
  <2>5. QED  BY <1>0, <1>f, <1>s, <1>h, <1>p, <2>1, <2>3, <2>4
<1>6. ASSUME NEW t \in Threads, WSASend(t)
      PROVE  Places(p)' = IF p <= created' THEN 1 ELSE 0
  <2>1. UNCHANGED <<sendQ, sentQ, posts, pkt, freed, created>>  BY <1>6 DEF WSASend
  <2>2. QED  BY <1>0, <1>f, <1>s, <1>h, <1>p, <1>q, <1>t, <2>1
<1>7. ASSUME NEW t \in Threads, Destroy(t)
      PROVE  Places(p)' = IF p <= created' THEN 1 ELSE 0
  <2>1. /\ UNCHANGED <<posts, pkt, created>> /\ sentQ' = <<>> /\ sendQ' = <<>>
        /\ freed' = freed \cup {sentQ[i] : i \in DOMAIN sentQ}
                          \cup {sendQ[i] : i \in DOMAIN sendQ}
    BY <1>7 DEF Destroy
  <2>2. QED  BY <1>0, <1>f, <1>s, <1>h, <1>p, <1>e, <1>o, <2>1
<1>8. ASSUME NEW t \in Threads, NEW op, SendPacket(t, op)
      PROVE  Places(p)' = IF p <= created' THEN 1 ELSE 0
  <2>1. /\ UNCHANGED <<sendQ, sentQ, posts, freed>> /\ pkt[t] = 0
        /\ created' = created + 1 /\ pkt' = [pkt EXCEPT ![t] = created + 1]
    BY <1>8 DEF SendPacket, FindForSend, Hands, Carrying
  <2>h. pkt'[t] = created + 1 /\ \A x \in Threads : x # t => pkt'[x] = pkt[x]
    BY <1>0, <2>1 DEF PacketSets
  <2>2. hand' = hand + IF p = created + 1 THEN 1 ELSE 0
    BY <1>0, <2>1, <2>h, HandMoves DEF hand
  <2>3. QED  BY <1>0, <1>f, <1>s, <1>p, <1>q, <1>t, <2>1, <2>2
<1>9. ASSUME NEW t \in Threads, NEW op \in Posts, Post(t, op)
      PROVE  Places(p)' = IF p <= created' THEN 1 ELSE 0
  <2> DEFINE m == <<created + 1, op>>
  <2>1. /\ UNCHANGED <<sendQ, sentQ, pkt, freed>> /\ created < MaxPackets
        /\ created' = created + 1 /\ posts' = posts \cup {m}
    BY <1>9 DEF Post
  <2>2. m \notin posts
    <3>1. created + 1 \in Packets /\ ~(created + 1 <= created)
      BY <1>0, <2>1 DEF Packets
    <3>2. Places(created + 1) = 0
      BY <3>1 DEF OnePlace
    <3>3. Cardinality(Posted(created + 1)) = 0
      BY <1>0, <3>2, PlacesNumbers DEF Places
    <3>4. Posted(created + 1) = {}
      BY <1>0, <3>3, PostedFinite, FS_EmptySet
    <3>5. QED  BY <3>4 DEF Posted
  <2>3. m[1] = created + 1  OBVIOUS
  <2> HIDE DEF m
  <2>4. posted' = posted + IF p = created + 1 THEN 1 ELSE 0
    <3>1. posts' \ {m} = posts \ {m}  BY <2>1
    <3>2. m \notin Posted(p) /\ (m \in Posted(p)' <=> p = created + 1)
      BY <2>1, <2>2, <2>3 DEF Posted
    <3>3. QED  BY <1>0, <3>1, <3>2, PostedMoves DEF posted
  <2>5. QED  BY <1>0, <1>f, <1>s, <1>h, <1>q, <1>t, <2>1, <2>4
<1>10. ASSUME NEW t \in Threads, NEW m \in posts, TakePost(t, m)
       PROVE  Places(p)' = IF p <= created' THEN 1 ELSE 0
  <2>1. /\ UNCHANGED <<sendQ, sentQ, created, freed>> /\ pkt[t] = 0
        /\ posts' = posts \ {m} /\ pkt' = [pkt EXCEPT ![t] = m[1]]
    BY <1>10 DEF TakePost, FindForSend, Hands, Carrying
  <2>h. pkt'[t] = m[1] /\ \A x \in Threads : x # t => pkt'[x] = pkt[x]
    BY <1>0, <2>1 DEF PacketSets
  <2>2. hand' = hand + IF m[1] = p THEN 1 ELSE 0
    BY <1>0, <2>1, <2>h, HandMoves DEF hand
  <2>3. posted' = posted - IF m[1] = p THEN 1 ELSE 0
    <3>1. posts' \ {m} = posts \ {m}  BY <2>1
    <3>2. m \notin Posted(p)' /\ (m \in Posted(p) <=> m[1] = p)
      BY <2>1 DEF Posted
    <3>3. QED  BY <1>0, <3>1, <3>2, PostedMoves DEF posted
  <2>4. QED  BY <1>0, <1>f, <1>s, <1>q, <1>t, <2>1, <2>2, <2>3
<1>11. QED
  BY <1>1, <1>2, <1>3, <1>4, <1>5, <1>6, <1>7, <1>8, <1>9, <1>10, StepsOnData

-----------------------------------------------------------------------------
(***************************************************************************)
(* The invariant, and what follows.                                        *)
(***************************************************************************)
\* What holds while no reference is missing.
Accounted ==
  /\ Refs /\ CanceledFirst /\ DeadQuiet /\ Counted
  /\ OneDrain /\ FlagNotLost /\ Ordered /\ InFlight

IInv ==
  /\ TypeOK /\ Hands /\ Miscount /\ OnePlace
  /\ NoneMissing => Accounted

\* The invariant holds when the session has been accepted.
LEMMA InvInit == Init => IInv
<1> SUFFICES ASSUME Init PROVE IInv
  OBVIOUS
<1>0. \A t \in Threads : pc[t] = "idle"
  BY DEF Init
<1>1. TypeOK /\ Hands
  BY TypeInit
<1>2. CanceledFirst /\ DeadQuiet
  BY <1>0 DEF Init, CanceledFirst, DeadQuiet, Canceling
<1>3. Refs /\ Miscount
  BY <1>0 DEF Init, Refs, Miscount
<1>4. Counted
  <2>1. First = {} /\ Second = {}
    BY <1>0 DEF First, Second, HoldsOne, HoldsTwo, Draining
  <2>2. /\ IOcount = 1 /\ signs = 0 /\ sendRefs = 0 /\ recvIO = "pending"
        /\ miscounted = 0
    BY DEF Init
  <2>3. QED
    BY <2>1, <2>2, FS_EmptySet DEF Counted, RecvRefs
<1>5. OneDrain /\ FlagNotLost
  BY <1>0 DEF Init, OneDrain, FlagNotLost, FlagOwners, Draining, Completing
<1>6. Ordered
  <2>1. accepted = <<>> /\ wire = <<>> /\ sendQ = <<>>
    BY DEF Init
  <2>2. <<>> \in Seq(Packets)  BY EmptySeq
  <2>3. NoneTaken /\ SomeLost
    BY <2>1, <2>2, ConcatEmptySeq DEF NoneTaken, SomeLost
  <2>4. QED  BY <1>0, <2>3 DEF Ordered, Completing
<1>7. InFlight
  BY DEF Init, InFlight
<1>8. OnePlace
  <2>1. ASSUME NEW p \in Packets
        PROVE  Places(p) = IF p <= created THEN 1 ELSE 0
    <3>1. p # 0 /\ ~(p <= created)     BY DEF Init, Packets
    <3>2. InHand(p) = {} /\ Posted(p) = {} /\ {p} \cap freed = {}
      BY <3>1 DEF Init, InHand, Posted
    <3>3. sendQ = <<>> /\ sentQ = <<>>  BY DEF Init
    <3>4. Cardinality(Occurs(sendQ, p)) = 0 /\ Cardinality(Occurs(sentQ, p)) = 0
      BY <3>3, OccursEmpty
    <3>5. /\ Cardinality(InHand(p)) = 0 /\ Cardinality(Posted(p)) = 0
          /\ Cardinality({p} \cap freed) = 0
      BY <3>2, FS_EmptySet
    <3>6. QED  BY <3>1, <3>4, <3>5 DEF Places
  <2>2. QED  BY <2>1 DEF OnePlace
<1>9. QED
  BY <1>1, <1>2, <1>3, <1>4, <1>5, <1>6, <1>7, <1>8 DEF IInv, Accounted

\* And every step keeps it: a step after which none is missing began where none was.
LEMMA InvNext == IInv /\ [Next]_vars => IInv'
<1> SUFFICES ASSUME IInv, [Next]_vars PROVE IInv'
  OBVIOUS
<1>1. /\ TypeOK /\ Hands /\ Miscount /\ OnePlace /\ Scalars
      /\ NoneMissing => Accounted
  BY TypeParts DEF IInv
<1>2. TypeOK' /\ Hands' /\ OnePlace'
  BY <1>1, TypeStep, OnePlaceStep
<1>3. Miscount' /\ (NoneMissing' => NoneMissing)
  BY <1>1, MiscountStep DEF Accounted
<1>4. ASSUME NoneMissing
      PROVE  Accounted'
  <2>1. /\ Refs /\ CanceledFirst /\ DeadQuiet /\ Counted
        /\ OneDrain /\ FlagNotLost /\ Ordered /\ InFlight
    BY <1>1, <1>4 DEF Accounted
  <2>2. Refs' /\ Counted'
    BY <1>1, <1>4, <2>1, RefsStep, CountStep
  <2>3. CanceledFirst' /\ DeadQuiet'
    BY <1>1, <1>4, <2>1, CanceledFirstStep, DeadQuietStep
  <2>4. OneDrain' /\ FlagNotLost'
    BY <1>1, <1>4, <2>1, OneDrainStep, FlagNotLostStep
  <2>5. Ordered' /\ InFlight'
    BY <1>1, <1>4, <2>1, OrderedStep, InFlightStep
  <2>6. QED  BY <2>2, <2>3, <2>4, <2>5 DEF Accounted
<1>5. QED
  BY <1>2, <1>3, <1>4 DEF IInv

\* The invariant holds whatever WSASend returns.
THEOREM InvHolds == Spec => []IInv
  BY InvInit, InvNext, PTL DEF Spec

\* IOcount_ is the number of references held and, where WSASend returns what the mode
\* does not expect, how many are left over or missing; so while none is missing no slot
\* is released while a thread, a message or the kernel still counts on the session, and
\* where sends are pending none ever is missing.
THEOREM CountTheorem == Spec => []CountIsReferences
<1>1. ASSUME IInv PROVE CountIsReferences
  <2>1. Miscount /\ (NoneMissing => Refs /\ Counted)
    BY <1>1 DEF IInv, Accounted
  <2>2. QED
    BY <2>1 DEF CountIsReferences, Counted, RecvRefs, Refs, Miscount
<1>2. QED  BY <1>1, InvHolds, PTL

\* One thread at a time drains the queue, sends or completes, and none while the
\* kernel has the send.
THEOREM OneDrainTheorem == Spec => []OneDrain
<1>1. IInv => OneDrain  BY DEF IInv, Accounted, OneDrain
<1>2. QED  BY <1>1, InvHolds, PTL

\* Whoever sets the flag is there to reset it, or the session is canceled.
THEOREM FlagNotLostTheorem == Spec => []FlagNotLost
<1>1. IInv => FlagNotLost  BY DEF IInv, Accounted, FlagNotLost
<1>2. QED  BY <1>1, InvHolds, PTL

\* No completion finds its operation aborted while the session is not canceled.
NeverCrashed == NoneMissing => \A t \in Threads : pc[t] # "crashed"

\* The kernel's abort of an operation nobody canceled would end the process; no
\* thread reaches that, because whoever cancels the operations cancels the session
\* first (NetServer.cpp:1291-1310).
THEOREM NeverCrashedTheorem == Spec => []NeverCrashed
<1>1. IInv => NeverCrashed  BY DEF IInv, Accounted, CanceledFirst, NeverCrashed
<1>2. QED  BY <1>1, InvHolds, PTL

\* The two halves of a sequence, by their indices.
LEMMA BeginAndEnd ==
  ASSUME NEW r \in Seq(Packets), NEW s \in Seq(Packets)
  PROVE  /\ r = SubSeq(r \o s, 1, Len(r))
         /\ s = SubSeq(r \o s, Len(r \o s) - Len(s) + 1, Len(r \o s))
<1>0. Len(r) \in Nat /\ Len(s) \in Nat /\ Len(r \o s) = Len(r) + Len(s)
  BY LenProperties, ConcatProperties
<1>1. r = SubSeq(r \o s, 1, Len(r))
  <2>1. CASE r = <<>>
    BY <2>1, EmptySeq, SubSeqEmpty
  <2>2. CASE r # <<>>
    <3>1. 1 \in 1..Len(r) /\ Len(r) \in 1..Len(r)  BY <1>0, <2>2, EmptySeq
    <3>2. QED  BY <3>1, SubSeqOfConcat1, SubSeqFull
  <2>3. QED  BY <2>1, <2>2
<1>2. s = SubSeq(r \o s, Len(r) + 1, Len(r) + Len(s))
  <2>1. CASE s = <<>>
    BY <1>0, <2>1, SubSeqEmpty
  <2>2. CASE s # <<>>
    <3>1. Len(s) # 0  BY <2>2, EmptySeq
    <3>2. /\ Len(r) + 1 \in Len(r) + 1..Len(r) + Len(s)
          /\ Len(r) + Len(s) \in Len(r) + 1..Len(r) + Len(s)
      BY <1>0, <3>1
    <3>3. SubSeq(r \o s, Len(r) + 1, Len(r) + Len(s))
            = SubSeq(s, Len(r) + 1 - Len(r), Len(r) + Len(s) - Len(r))
      BY <3>2, SubSeqOfConcat2
    <3>4. Len(r) + 1 - Len(r) = 1 /\ Len(r) + Len(s) - Len(r) = Len(s)
      BY <1>0
    <3>5. QED  BY <3>3, <3>4, SubSeqFull
  <2>3. QED  BY <2>1, <2>2
<1>3. Len(r \o s) - Len(s) + 1 = Len(r) + 1
  BY <1>0
<1>4. QED  BY <1>0, <1>1, <1>2, <1>3

\* Packets leave in the order of Enqueue, none twice and none skipped, whichever
\* threads drain.
THEOREM SentInOrderTheorem == Spec => []SentInOrder
<1>1. IInv => SentInOrder
  <2> SUFFICES ASSUME IInv, NoneMissing PROVE SentInOrder
    BY DEF SentInOrder
  <2>0. /\ sendQ \in Seq(Packets) /\ sentQ \in Seq(Packets) /\ wire \in Seq(Packets)
        /\ Ordered
    BY TypeParts DEF IInv, Accounted, Sequences4
  <2>1. PICK lost \in Seq(Packets) : accepted = wire \o (lost \o sendQ)
    BY <2>0 DEF Ordered, SomeLost
  <2>2. /\ lost \o sendQ \in Seq(Packets) /\ wire \o lost \in Seq(Packets)
        /\ accepted = (wire \o lost) \o sendQ
    BY <2>0, <2>1, PacketSequences
  <2>3. wire = SubSeq(accepted, 1, Len(wire))
    BY <2>0, <2>1, <2>2, BeginAndEnd
  <2>4. sendQ = SubSeq(accepted, Len(accepted) - Len(sendQ) + 1, Len(accepted))
    BY <2>0, <2>2, BeginAndEnd
  <2>5. (\E t \in Threads : pc[t] \in {"drain", "wsaSend"}) =>
          accepted = wire \o sentQ \o sendQ
    <3>1. wire \o (sentQ \o sendQ) = wire \o sentQ \o sendQ
      BY <2>0, PacketSequences
    <3>2. QED  BY <2>0, <3>1 DEF Ordered, Whole
  <2>6. QED  BY <2>3, <2>4, <2>5 DEF SentInOrder
<1>2. QED  BY <1>1, InvHolds, PTL

\* The reference a send takes on a packet is in one place until it is freed once,
\* and nothing the kernel sends from is freed.
THEOREM BuffersLiveTheorem == Spec => []BuffersLive
<1>1. IInv => BuffersLive
  <2> SUFFICES ASSUME IInv PROVE BuffersLive
    OBVIOUS
  <2>0. /\ Sequences4 /\ PacketSets /\ OnePlace /\ (NoneMissing => InFlight)
        /\ sentQ \in Seq(Packets) /\ wire \in Seq(Packets)
    BY TypeParts DEF IInv, Accounted, Sequences4
  <2>1. FreedOnce
    <3>1. \A p \in 1..created : p \in Packets /\ p <= created
      BY <2>0 DEF PacketSets, Packets
    <3>2. QED  BY <2>0, <3>1 DEF OnePlace, Places, Posted, Occurs, FreedOnce
  <2>2. ASSUME NoneMissing, sendIO # "none"
        PROVE  sentQ = SubSeq(wire, Len(wire) - Len(sentQ) + 1, Len(wire))
    <3>1. PICK before \in Seq(Packets) : wire = before \o sentQ
      BY <2>0, <2>2 DEF InFlight
    <3>2. QED  BY <2>0, <3>1, BeginAndEnd
  <2>3. ASSUME NEW i \in DOMAIN sentQ
        PROVE  sentQ[i] \notin freed
    <3>1. sentQ[i] \in Packets
      BY <2>0, LenProperties, ElementOfSeq
    <3>2. Cardinality(Occurs(sentQ, sentQ[i])) # 0
      BY <2>0, OccursFinite
    <3>3. Places(sentQ[i]) <= 1
      BY <2>0, <3>1 DEF OnePlace
    <3>4. QED  BY <2>0, <3>2, <3>3, PlacesNumbers DEF Places
  <2>4. QED  BY <2>0, <2>1, <2>2, <2>3 DEF BuffersLive, InFlight
<1>2. QED  BY <1>1, InvHolds, PTL
=============================================================================
