------------------------------- MODULE NetSend -------------------------------
(***************************************************************************)
(* Sending to one session, from SendPacket to the release of the slot, at  *)
(* the grain of the interlocked operations of NetSession.h.                *)
(*                                                                         *)
(* Any thread may enqueue to sendQ_; whoever turns isSending_ from false   *)
(* to true drains the queue into sentQ_ and owns both until the completion *)
(* of its WSASend turns the flag back.  A send is worth two references to  *)
(* the session while a thread works on it.                                 *)
(*                                                                         *)
(* Modelled: the life of one accepted session with its receive outstanding *)
(* (NetSession models lookup by ID, reuse and receiving).  Packets are     *)
(* numbers; their contents are left out.  sendQ_ is a FIFO queue.  The     *)
(* kernel and the completion port are external.                            *)
(***************************************************************************)
EXTENDS Integers, Sequences, FiniteSets

CONSTANTS
  Workers,        \* threads in MyWorkerProc
  Senders,        \* content and pipe threads
  MaxPackets,     \* bound: packets sent in a behaviour
  SendQMax,       \* eNET_PACKET_SEND_Q_MAX_SIZE
  Modes,          \* how the server may be started: values of isSendIOPending_
  Surprises,      \* what WSASend may return although that mode does not expect it
  Posts           \* operations posted to the port: "send", "last"

Threads == Workers \cup Senders
Packets == 1..MaxPackets

ASSUME ThreadsFinite == IsFiniteSet(Workers) /\ IsFiniteSet(Senders)
ASSUME BoundsAssumption == MaxPackets \in Nat /\ SendQMax \in Nat
ASSUME ModeAssumption == /\ Modes \subseteq BOOLEAN
                         /\ Surprises \subseteq {"ok", "pending"}
                         /\ Posts \subseteq {"send", "last"}

VARIABLES
  isSendIOPending, \* isSendIOPending_, set before the threads start
  IOcount,   \* low 15 bits of IOcount_
  dead,      \* bit 15 of IOcount_
  canceled,  \* isIOCanceled_
  sending,   \* isSending_
  sendQ,     \* sendQ_
  sentQ,     \* the packets in sentQ_[0 .. sentCount_ - 1]
  sendIO,    \* the WSASend of sendOverlapped_, as the kernel sees it
  recvIO,    \* the WSARecv of recvOverlapped_
  posts,     \* packets posted to the port, with their operation
  signs,     \* SENDSIGN messages in the port
  pc,        \* what each thread is about to do
  pkt,       \* with which packet, 0 for none
  how,       \* on behalf of which operation
  accepted,  \* history: the packets in the order of Enqueue
  wire,      \* history: the packets in the order given to WSASend
  sendRefs,  \* history: references left for the completion of the WSASend
  miscounted, \* history: references never given back, less those given back twice
  freed,     \* history: packets whose send reference was freed
  created    \* history: packets that content asked to send

countVars   == <<IOcount, dead>>
queueVars   == <<sendQ, sentQ, accepted>>
refVars     == <<sendRefs, miscounted>>
kernelVars  == <<sendIO, recvIO, wire, refVars>>
portVars    == <<posts, signs, isSendIOPending>>
threadVars  == <<pkt, how>>
packetVars  == <<freed, created>>
vars == <<countVars, canceled, sending, queueVars, kernelVars, portVars,
          pc, threadVars, packetVars>>

-----------------------------------------------------------------------------
Ops == {"send", "async", "last"}

\* The flag owner fills, sends or gives up sentQ_.
Draining == {"freeSent", "drain", "wsaSend", "flagOff"}
\* A completed send whose worker still owns the flag.
Completing == {"onSend", "onSend2", "unflag"}

PCs == {"idle", "acquire", "chkCancel", "chkFull", "enqueue", "peek", "swap",
        "pended", "recancel", "set1", "cancel1", "setFail", "cancelFail",
        "setLast", "cancelLast", "spin", "spinLook", "onAbort",
        "acquire1", "chkCancel1", "back1", "back2", "release", "destroy", "crashed"}
         \cup Draining \cup Completing

\* Threads that hold one reference, and threads that hold a second one; at "onSend" a
\* worker has those that were left for it (sendRefs).
HoldsOne == PCs \ {"idle", "release", "destroy", "onSend"}
HoldsTwo == Draining \cup {"acquire", "chkCancel", "chkFull", "enqueue", "peek", "swap",
                           "setFail", "cancelFail", "setLast", "cancelLast", "spin",
                           "spinLook", "onSend2", "unflag", "back2"}

First  == {t \in Threads : pc[t] \in HoldsOne}
Second == {t \in Threads : pc[t] \in HoldsTwo}

\* What an accepted WSASend may return.
SendResults == {IF isSendIOPending THEN "pending" ELSE "ok"} \cup Surprises

Results  == {"ok", "error", "aborted"}
IOStates == {"none", "pending", "cancelling"} \cup Results

TypeOK ==
  /\ isSendIOPending \in Modes
  /\ IOcount \in Int /\ dead \in BOOLEAN
  /\ canceled \in BOOLEAN /\ sending \in BOOLEAN
  /\ sendQ \in Seq(Packets) /\ sentQ \in Seq(Packets)
  /\ sendIO \in IOStates /\ recvIO \in IOStates
  /\ posts \subseteq Packets \X Posts /\ signs \in Nat
  /\ pc \in [Threads -> PCs]
  /\ pkt \in [Threads -> Packets \cup {0}]
  /\ how \in [Threads -> Ops]
  /\ accepted \in Seq(Packets) /\ wire \in Seq(Packets)
  /\ sendRefs \in 0..2 /\ miscounted \in Int
  /\ freed \subseteq Packets /\ created \in 0..MaxPackets

\* MyAcceptProc has posted the first receive and given its reference back.
Init ==
  /\ isSendIOPending \in Modes
  /\ IOcount = 1 /\ dead = FALSE
  /\ canceled = FALSE /\ sending = FALSE
  /\ sendQ = <<>> /\ sentQ = <<>>
  /\ sendIO = "none" /\ recvIO = "pending"
  /\ posts = {} /\ signs = 0
  /\ pc  = [t \in Threads |-> "idle"]
  /\ pkt = [t \in Threads |-> 0]
  /\ how = [t \in Threads |-> "send"]
  /\ accepted = <<>> /\ wire = <<>> /\ sendRefs = 0 /\ miscounted = 0
  /\ freed = {} /\ created = 0

Goto(t, from, to) ==
  /\ pc[t] = from
  /\ pc' = [pc EXCEPT ![t] = to]

\* The send reference of the packet in hand is freed.
FreeInHand(t) ==
  /\ freed' = freed \cup {pkt[t]}
  /\ pkt' = [pkt EXCEPT ![t] = 0]

-----------------------------------------------------------------------------
(***************************************************************************)
(* SendPacket, AsyncSendPacket and the operations posted to the workers.   *)
(***************************************************************************)
\* FindSessionForSendPacket adds both references before it reads anything.
FindForSend(t, p, op) ==
  /\ Goto(t, "idle", "acquire")
  /\ pkt' = [pkt EXCEPT ![t] = p]
  /\ how' = [how EXCEPT ![t] = op]
  /\ IOcount' = IOcount + 2
  /\ UNCHANGED <<dead, canceled, sending, queueVars, kernelVars>>

SendPacket(t, op) ==
  /\ created < MaxPackets
  /\ op \in {"send", "async"}
  /\ FindForSend(t, created + 1, op)
  /\ created' = created + 1
  /\ UNCHANGED <<portVars, freed>>

\* AsyncSendPacket of a set and DisconnectAfterLastMessage only post.
Post(t, op) ==
  /\ created < MaxPackets
  /\ pc[t] = "idle"
  /\ posts' = posts \cup {<<created + 1, op>>}
  /\ created' = created + 1
  /\ UNCHANGED <<countVars, canceled, sending, queueVars, kernelVars, signs,
                 isSendIOPending, pc, threadVars, freed>>

TakePost(w, m) ==
  /\ FindForSend(w, m[1], m[2])
  /\ posts' = posts \ {m}
  /\ UNCHANGED <<signs, isSendIOPending, packetVars>>

\* AcquireSession; the ID is NetSession's business.
AcquireSession(t) ==
  /\ \/ ~dead /\ Goto(t, "acquire", "chkCancel") /\ UNCHANGED <<freed, pkt>>
     \/ dead /\ Goto(t, "acquire", "back2") /\ FreeInHand(t)
  /\ UNCHANGED <<countVars, canceled, sending, queueVars, kernelVars, portVars, how, created>>

\* EnqueueSendQ, first half: a canceled session takes no packet.
CheckCanceled(t) ==
  /\ \/ ~canceled /\ Goto(t, "chkCancel", "chkFull") /\ UNCHANGED <<freed, pkt>>
     \/ canceled /\ Goto(t, "chkCancel", "setFail") /\ FreeInHand(t)
  /\ UNCHANGED <<countVars, canceled, sending, queueVars, kernelVars, portVars, how, created>>

\* Enqueue of the lock-free queue looks at its size before it links the node.
CheckFull(t) ==
  /\ \/ Len(sendQ) < SendQMax /\ Goto(t, "chkFull", "enqueue") /\ UNCHANGED <<freed, pkt>>
     \/ Len(sendQ) >= SendQMax /\ Goto(t, "chkFull", "setFail") /\ FreeInHand(t)
  /\ UNCHANGED <<countVars, canceled, sending, queueVars, kernelVars, portVars, how, created>>

Enqueue(t) ==
  /\ Goto(t, "enqueue", [send |-> "swap", async |-> "peek", last |-> "setLast"][how[t]])
  /\ sendQ' = Append(sendQ, pkt[t])
  /\ accepted' = Append(accepted, pkt[t])
  /\ pkt' = [pkt EXCEPT ![t] = 0]
  /\ UNCHANGED <<countVars, canceled, sending, sentQ, kernelVars, portVars, how, packetVars>>

\* Mutant: the references are given back although SENDSIGN was posted.
PeekSendingGivesBack(t) ==
  /\ Goto(t, "peek", "back2")
  /\ signs' = IF sending THEN signs ELSE signs + 1
  /\ UNCHANGED <<countVars, canceled, sending, queueVars, kernelVars, posts, isSendIOPending,
                 threadVars, packetVars>>

\* AsyncSendPacket: SENDSIGN carries the two references to a worker.
PeekSending(t) ==
  /\ \/ sending /\ Goto(t, "peek", "back2") /\ UNCHANGED signs
     \/ ~sending /\ Goto(t, "peek", "idle") /\ signs' = signs + 1
  /\ UNCHANGED <<countVars, canceled, sending, queueVars, kernelVars, posts, isSendIOPending,
                 threadVars, packetVars>>

TakeSign(w) ==
  /\ signs > 0
  /\ Goto(w, "idle", "swap")
  /\ signs' = signs - 1
  /\ how' = [how EXCEPT ![w] = "send"]
  /\ UNCHANGED <<countVars, canceled, sending, queueVars, kernelVars, posts,
                 isSendIOPending, pkt, packetVars>>

-----------------------------------------------------------------------------
(***************************************************************************)
(* SendPost, and SendAndDisconnectPost which differs in how it begins.     *)
(***************************************************************************)
\* Mutant: the old value of the flag is not looked at.
TakeSendFlagAnyway(t) ==
  /\ Goto(t, "swap", "freeSent")
  /\ sending' = TRUE
  /\ UNCHANGED <<countVars, canceled, queueVars, kernelVars, portVars, threadVars, packetVars>>

\* isSendFlagFalse exchanges the flag with true.
TakeSendFlag(t) ==
  /\ Goto(t, "swap", IF sending THEN "back2" ELSE "freeSent")
  /\ sending' = TRUE
  /\ UNCHANGED <<countVars, canceled, queueVars, kernelVars, portVars, threadVars, packetVars>>

\* Mutant: sentCount_ is not reset.
FreeSentKeepsCount(t) ==
  /\ Goto(t, "freeSent", "drain")
  /\ freed' = freed \cup {sentQ[i] : i \in DOMAIN sentQ}
  /\ UNCHANGED <<countVars, canceled, sending, queueVars, kernelVars, portVars,
                 threadVars, created>>

FreeSentPacket(t) ==
  /\ Goto(t, "freeSent", "drain")
  /\ freed' = freed \cup {sentQ[i] : i \in DOMAIN sentQ}
  /\ sentQ' = <<>>
  /\ UNCHANGED <<countVars, canceled, sending, sendQ, accepted, kernelVars, portVars,
                 threadVars, created>>

\* Mutant: sentQ_ is filled from the back.
DequeueReversed(t) ==
  /\ sendQ # <<>>
  /\ Goto(t, "drain", "drain")
  /\ sentQ' = <<Head(sendQ)>> \o sentQ
  /\ sendQ' = Tail(sendQ)
  /\ UNCHANGED <<countVars, canceled, sending, accepted, kernelVars, portVars, threadVars,
                 packetVars>>

\* The loop runs until the queue is seen empty, however much it took already.
DequeueSendQ(t) ==
  /\ sendQ # <<>>
  /\ Goto(t, "drain", "drain")
  /\ sentQ' = Append(sentQ, Head(sendQ))
  /\ sendQ' = Tail(sendQ)
  /\ UNCHANGED <<countVars, canceled, sending, accepted, kernelVars, portVars, threadVars,
                 packetVars>>

SendQEmpty(t) ==
  /\ sendQ = <<>>
  /\ Goto(t, "drain", IF sentQ = <<>> THEN "flagOff" ELSE "wsaSend")
  /\ UNCHANGED <<countVars, canceled, sending, queueVars, kernelVars, portVars, threadVars,
                 packetVars>>

\* Mutant: an empty queue leaves the flag set.
SetSendFlagFalseOnce(t) ==
  /\ Goto(t, "flagOff", "back2") \/ Goto(t, "unflag", "swap")
  /\ sending' = (pc[t] = "flagOff")
  /\ UNCHANGED <<countVars, canceled, queueVars, kernelVars, portVars, threadVars, packetVars>>

\* SEND_FAILURE_SENDQ_EMPTY, and OnSendComplete before its own SendPost.
SetSendFlagFalse(t) ==
  /\ Goto(t, "flagOff", "back2") \/ Goto(t, "unflag", "swap")
  /\ sending' = FALSE
  /\ UNCHANGED <<countVars, canceled, queueVars, kernelVars, portVars, threadVars, packetVars>>

\* An accepted send keeps references for its completion: both of them when it
\* succeeded at once, one when it is pending.
WSASend(t) ==
  /\ \/ /\ "ok" \in SendResults
        /\ Goto(t, "wsaSend", "idle")
        /\ sendIO' = "ok" /\ wire' = wire \o sentQ /\ sendRefs' = 2
     \/ /\ "pending" \in SendResults
        /\ Goto(t, "wsaSend", "pended")
        /\ sendIO' = "pending" /\ wire' = wire \o sentQ /\ sendRefs' = 1
     \/ /\ Goto(t, "wsaSend", "setFail")
        /\ UNCHANGED <<sendIO, wire, sendRefs>>
  /\ UNCHANGED <<countVars, canceled, sending, queueVars, recvIO, miscounted, portVars,
                 threadVars, packetVars>>

\* Mutant: no second look at the flag.
AfterPendingNoRecheck(t) ==
  /\ Goto(t, "pended", IF isSendIOPending THEN "back1" ELSE "set1")
  /\ UNCHANGED <<countVars, canceled, sending, queueVars, kernelVars, portVars, threadVars,
                 packetVars>>

\* A pending send is looked at again, unless it carries the last message; when
\* sends are not expected to be pending it costs the client its connection.
AfterPending(t) ==
  /\ Goto(t, "pended",
          IF canceled /\ how[t] # "last" THEN "recancel"
          ELSE IF isSendIOPending THEN "back1" ELSE "set1")
  /\ UNCHANGED <<countVars, canceled, sending, queueVars, kernelVars, portVars, threadVars,
                 packetVars>>

\* SendAndDisconnectPost waits for the flag, and gives up on an empty queue.
SpinForFlag(t) ==
  /\ Goto(t, "spin", IF sending THEN "spinLook" ELSE "freeSent")
  /\ sending' = TRUE
  /\ UNCHANGED <<countVars, canceled, queueVars, kernelVars, portVars, threadVars, packetVars>>

SpinLook(t) ==
  /\ Goto(t, "spinLook", IF sendQ = <<>> THEN "back2" ELSE "spin")
  /\ UNCHANGED <<countVars, canceled, sending, queueVars, kernelVars, portVars, threadVars,
                 packetVars>>

-----------------------------------------------------------------------------
(***************************************************************************)
(* Disconnecting, giving references back, and release.                     *)
(***************************************************************************)
Disconnect(t) ==
  /\ Goto(t, "idle", "acquire1")
  /\ IOcount' = IOcount + 1
  /\ UNCHANGED <<dead, canceled, sending, queueVars, kernelVars, portVars, threadVars,
                 packetVars>>

DisconnectLooks(t) ==
  /\ \/ Goto(t, "acquire1", IF dead THEN "back1" ELSE "chkCancel1")
     \/ Goto(t, "chkCancel1", IF canceled THEN "back1" ELSE "set1")
  /\ UNCHANGED <<countVars, canceled, sending, queueVars, kernelVars, portVars, threadVars,
                 packetVars>>

SetCanceled(t) ==
  /\ \/ Goto(t, "set1", "cancel1")
     \/ Goto(t, "setFail", "cancelFail")
     \/ Goto(t, "setLast", "cancelLast")
  /\ canceled' = TRUE
  /\ UNCHANGED <<countVars, sending, queueVars, kernelVars, portVars, threadVars, packetVars>>

Cancelled(io) == IF io = "pending" THEN "cancelling" ELSE io

\* CancelIoEx with no overlapped: what is outstanding now, in both directions.
CancelIO(t) ==
  /\ \/ Goto(t, "cancel1", "back1")
     \/ Goto(t, "recancel", "back1")
     \/ Goto(t, "cancelFail", "back2")
     \/ Goto(t, "cancelLast", "spin")
  /\ sendIO' = Cancelled(sendIO)
  /\ recvIO' = Cancelled(recvIO)
  /\ UNCHANGED <<countVars, canceled, sending, queueVars, wire, refVars, portVars, threadVars,
                 packetVars>>

GiveBack(t, from, n) ==
  /\ Goto(t, from, IF IOcount = n /\ ~dead THEN "release" ELSE "idle")
  /\ IOcount' = IOcount - n
  /\ UNCHANGED <<dead, canceled, sending, queueVars, kernelVars, portVars, threadVars,
                 packetVars>>

DecrementIOCount(t) == GiveBack(t, "back1", 1)
SubIOCount(t)       == GiveBack(t, "back2", 2)

ReleaseSession(t) ==
  LET wins == IOcount = 0 /\ ~dead
  IN  /\ Goto(t, "release", IF wins THEN "destroy" ELSE "idle")
      /\ dead' = (dead \/ wins)
      /\ UNCHANGED <<IOcount, canceled, sending, queueVars, kernelVars, portVars, threadVars,
                     packetVars>>

\* Destroy frees what sentQ_ and sendQ_ still hold and closes the socket.
Destroy(t) ==
  /\ Goto(t, "destroy", "idle")
  /\ freed' = freed \cup {sentQ[i] : i \in DOMAIN sentQ} \cup {sendQ[i] : i \in DOMAIN sendQ}
  /\ sentQ' = <<>> /\ sendQ' = <<>>
  /\ sending' = FALSE
  /\ sendIO' = Cancelled(sendIO)
  /\ recvIO' = Cancelled(recvIO)
  /\ UNCHANGED <<countVars, canceled, accepted, wire, refVars, portVars, threadVars, created>>

-----------------------------------------------------------------------------
(***************************************************************************)
(* The kernel and the completions.                                         *)
(***************************************************************************)
Finished(io) ==
  IF io = "pending" THEN {"ok", "error"} ELSE IF io = "cancelling" THEN Results ELSE {}

KernelSends ==
  /\ \E r \in Finished(sendIO) : sendIO' = r
  /\ UNCHANGED <<countVars, canceled, sending, queueVars, recvIO, wire, refVars, portVars, pc,
                 threadVars, packetVars>>

\* Of the receive only its end matters here.
KernelEndsReceive ==
  /\ \E r \in Finished(recvIO) \ {"ok"} : recvIO' = r
  /\ UNCHANGED <<countVars, canceled, sending, queueVars, sendIO, wire, refVars, portVars, pc,
                 threadVars, packetVars>>

\* Errors but an abort go to DisconnectSession.  Either way they are of a send that was
\* pending, and leave the worker its one reference.
TakeSendCompletion(w) ==
  /\ \/ sendIO = "ok"      /\ Goto(w, "idle", "onSend")  /\ UNCHANGED sendRefs
     \/ sendIO = "error"   /\ Goto(w, "idle", "set1")    /\ sendRefs' = 0
     \/ sendIO = "aborted" /\ Goto(w, "idle", "onAbort") /\ sendRefs' = 0
  /\ sendIO' = "none"
  /\ how' = [how EXCEPT ![w] = "send"]
  /\ UNCHANGED <<countVars, canceled, sending, queueVars, recvIO, wire, miscounted, portVars,
                 pkt, packetVars>>

TakeRecvCompletion(w) ==
  /\ \/ recvIO = "error"   /\ Goto(w, "idle", "set1")
     \/ recvIO = "aborted" /\ Goto(w, "idle", "onAbort")
  /\ recvIO' = "none"
  /\ UNCHANGED <<countVars, canceled, sending, queueVars, sendIO, wire, refVars, portVars,
                 threadVars, packetVars>>

OnAborted(w) ==
  /\ Goto(w, "onAbort", IF canceled THEN "back1" ELSE "crashed")
  /\ UNCHANGED <<countVars, canceled, sending, queueVars, kernelVars, portVars, threadVars,
                 packetVars>>

\* OnSendComplete: a pending send left one reference, a send needs two.  Whether it was
\* pending is not asked, only whether sends are.
OnSendCount(w) ==
  LET added == IF isSendIOPending THEN 1 ELSE 0
  IN  /\ Goto(w, "onSend", "onSend2")
      /\ IOcount' = IOcount + added
      /\ sendRefs' = 0
      /\ miscounted' = miscounted + (sendRefs + added - 2)
      /\ UNCHANGED <<dead, canceled, sending, queueVars, sendIO, recvIO, wire, portVars,
                     threadVars, packetVars>>

OnSendCanceled(w) ==
  /\ Goto(w, "onSend2", IF canceled THEN "back2" ELSE "unflag")
  /\ UNCHANGED <<countVars, canceled, sending, queueVars, kernelVars, portVars, threadVars,
                 packetVars>>

-----------------------------------------------------------------------------
ThreadStep(t) ==
  \/ AcquireSession(t) \/ CheckCanceled(t) \/ CheckFull(t) \/ Enqueue(t) \/ PeekSending(t)
  \/ TakeSendFlag(t) \/ FreeSentPacket(t) \/ DequeueSendQ(t) \/ SendQEmpty(t)
  \/ SetSendFlagFalse(t) \/ WSASend(t) \/ AfterPending(t) \/ SpinForFlag(t) \/ SpinLook(t)
  \/ DisconnectLooks(t) \/ SetCanceled(t) \/ CancelIO(t)
  \/ DecrementIOCount(t) \/ SubIOCount(t) \/ ReleaseSession(t) \/ Destroy(t)
  \/ OnAborted(t) \/ OnSendCount(t) \/ OnSendCanceled(t)

Next ==
  \/ \E t \in Threads : ThreadStep(t)
  \/ \E t \in Senders, op \in Ops : SendPacket(t, op)
  \/ \E t \in Senders, op \in Posts : Post(t, op)
  \/ \E t \in Senders : Disconnect(t)
  \/ \E w \in Workers, m \in posts : TakePost(w, m)
  \/ \E w \in Workers : TakeSign(w) \/ TakeSendCompletion(w) \/ TakeRecvCompletion(w)
  \/ KernelSends \/ KernelEndsReceive

Spec == Init /\ [][Next]_vars

\* Threads run on; the kernel completes what was canceled; a message in the port
\* is taken by some worker.  Content and clients owe nothing.
Fairness ==
  /\ \A t \in Threads : WF_vars(ThreadStep(t))
  /\ WF_vars(sendIO = "cancelling" /\ KernelSends)
  /\ WF_vars(recvIO = "cancelling" /\ KernelEndsReceive)
  /\ WF_vars(\E w \in Workers : TakeSendCompletion(w))
  /\ WF_vars(\E w \in Workers : TakeRecvCompletion(w))
  /\ WF_vars(\E w \in Workers : TakeSign(w))

FairSpec == Spec /\ Fairness

-----------------------------------------------------------------------------
(***************************************************************************)
(* What the send path has to achieve.                                      *)
(***************************************************************************)
\* What is claimed holds while no reference is missing.  After that the session may be
\* released under a thread that works on it, and IOcount_ runs into its flag bit, which
\* this module does not follow.
NoneMissing == miscounted >= 0

\* IOcount_ is the number of references that are held: by threads, by SENDSIGN messages,
\* by the outstanding receive, and by the outstanding send, which keeps one if it was
\* pending and two if not (NetServer.cpp:807-854, 900-915).  So a slot goes back to the
\* array only when the kernel has returned both overlapped structures and no message in the
\* port counts on the session.  It is off by one for every send that was done at once where
\* sends are pending, and those stay for good, or that was pending where they are not and
\* then succeeded, and those are missing: the first never releases a session too early.
CountIsReferences ==
  /\ NoneMissing =>
       /\ IOcount = Cardinality(First) + Cardinality(Second) + 2 * signs + sendRefs
                      + (IF recvIO = "none" THEN 0 ELSE 1) + miscounted
       /\ sendIO # "none" => sendRefs > 0
  /\ IF isSendIOPending THEN miscounted >= 0 ELSE miscounted <= 0
  /\ Surprises = {} => miscounted = 0

\* isSending_ excludes: one drain, one WSASend or one send completion at a time
\* (sendQ_ allows one consumer only, LockFreeEnqQueue.h:135-169).
FlagOwners == {t \in Threads : pc[t] \in Draining \cup Completing}
OneDrain ==
  NoneMissing =>
    /\ \A t, x \in FlagOwners : t = x
    /\ FlagOwners # {} => sendIO = "none"
    /\ FlagOwners # {} \/ sendIO # "none" => sending

\* The flag is not lost: unless the session is being canceled, whoever set it is
\* still there to reset it, and the next SendPacket will find it free.
FlagNotLost ==
  NoneMissing /\ sending /\ ~canceled =>
    \/ FlagOwners # {} \/ sendIO # "none"
    \/ \E t \in Threads : pc[t] \in {"setFail", "set1"}

\* Packets leave in the order of Enqueue, none twice, none skipped, though every
\* thread may become the one that drains (NetSession.cpp:137-202).
SentInOrder ==
  NoneMissing =>
    /\ wire = SubSeq(accepted, 1, Len(wire))
    /\ sendQ = SubSeq(accepted, Len(accepted) - Len(sendQ) + 1, Len(accepted))
    /\ (\E t \in Threads : pc[t] \in {"drain", "wsaSend"}) =>
         accepted = wire \o sentQ \o sendQ

\* The reference a send takes on a packet is in one place until it is freed, and
\* freed once, on every path: refused, lost with the session, or sent.
InHand(p) == {t \in Threads : pkt[t] = p}
FreedOnce ==
  \A p \in 1..created :
    Cardinality(InHand(p)) + Cardinality({m \in posts : m[1] = p})
      + Cardinality({i \in DOMAIN sendQ : sendQ[i] = p})
      + Cardinality({i \in DOMAIN sentQ : sentQ[i] = p})
      + Cardinality({p} \cap freed) = 1

\* The kernel sends from the packets themselves: none is freed before the
\* completion of its WSASend (NetSession.cpp:154, 320-328), and each is freed once.
BuffersLive ==
  /\ NoneMissing /\ sendIO # "none" =>
       /\ sentQ # <<>>
       /\ sentQ = SubSeq(wire, Len(wire) - Len(sentQ) + 1, Len(wire))
       /\ \A i \in DOMAIN sentQ : sentQ[i] \notin freed
  /\ FreedOnce

\* A canceled session is released, whatever is queued or in flight.
CanceledIsReleased == canceled ~> dead
=============================================================================
