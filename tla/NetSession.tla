----------------------------- MODULE NetSession -----------------------------
(***************************************************************************)
(* The life of a session slot of NetSessionArray: accept, receive,         *)
(* disconnect, release and reuse, at the grain of the interlocked          *)
(* operations of NetSession.h and NetServer.h.                             *)
(*                                                                         *)
(* A session is one of a fixed array of slots.  IOcount_ counts the        *)
(* references to the slot in its low 15 bits and marks a slot that nobody  *)
(* may use in bit 15 (DELETE_FLAG_BIT).  Nothing else protects the slot:   *)
(* every lookup first adds a reference and only then asks whether the slot *)
(* still holds the session it was looking for.                             *)
(*                                                                         *)
(* Modelled: the whole path of a session that never sends (NetSend models  *)
(* sending) and whose user is in no pipe (NetPipe models pipes).  The      *)
(* kernel (WSARecv, CancelIoEx, the completion port) is external.  Packets *)
(* are abstracted to whether the received bytes parse.                     *)
(***************************************************************************)
EXTENDS Integers, FiniteSets

CONSTANTS
  Slots,      \* indices of sessionArray_
  Workers,    \* threads in MyWorkerProc
  Callers,    \* content, timeout and pipe threads: they call Disconnect
  Acceptor,   \* the thread in MyAcceptProc
  MaxStamp    \* bound: sessions accepted in a behaviour

Threads == Workers \cup Callers \cup {Acceptor}

ASSUME ThreadsAssumption == /\ IsFiniteSet(Workers)
                            /\ IsFiniteSet(Callers)
                            /\ Acceptor \notin Workers \cup Callers
ASSUME MaxStampAssumption == MaxStamp \in Nat

VARIABLES
  IOcount,    \* low 15 bits of IOcount_ of each slot
  dead,       \* bit 15 of IOcount_: DELETE_FLAG_BIT
  ID,         \* the unique_ part of ID_; 0 before the first session
  canceled,   \* isIOCanceled_
  open,       \* sock_ # INVALID_SOCKET
  freeSlots,  \* sessionIndexStack_, its order abstracted
  stamp,      \* stamp_ of the array, the next unique_
  issued,     \* history: the IDs given out, as <<slot, unique>>
  recvIO,     \* the receive of each slot, as the kernel sees it
  ioOwner,    \* history: the ID whose receive recvIO is
  pc,         \* what each thread is about to do
  sess,       \* the slot it does it to
  want        \* the unique_ it does it for

slotVars   == <<IOcount, dead, ID, canceled, open>>
arrayVars  == <<freeSlots, stamp, issued>>
kernelVars == <<recvIO, ioOwner>>
threadVars == <<pc, sess, want>>
vars == <<slotVars, arrayVars, kernelVars, threadVars>>

-----------------------------------------------------------------------------
(***************************************************************************)
(* Where a thread can be, and how many references it holds there.          *)
(***************************************************************************)
Finding   == {"acqDead", "acqID"}          \* counted, not yet acquired
Building  == {"initCount", "initID", "initFields", "initAlive"}
Burying   == {"destroy", "push"}           \* the slot is this thread's alone
Receiving == {"onRecv", "postRecv", "wsaRecv"}
Canceling == {"chkCancel", "setCancel", "cancelIO", "onAbort", "recheck",
              "recancel", "failSet", "failCancel"}
PCs == {"idle", "drop", "drop2", "release", "crashed"}
         \cup Finding \cup Building \cup Burying \cup Receiving \cup Canceling

\* A thread that found its session alive and has not let go of it.
Using == Receiving \cup Canceling

\* Threads that hold one reference, and threads that hold a second one.
HoldsOne == Using \cup Finding \cup {"initID", "initFields", "initAlive",
                                     "drop", "drop2", "crashed"}
HoldsTwo == {"wsaRecv", "failSet", "failCancel", "drop2"}

Results == {"ok", "fin", "error", "aborted"}
IOStates == {"none", "pending", "cancelling"} \cup Results

First(s)  == {t \in Threads : sess[t] = s /\ pc[t] \in HoldsOne}
Second(s) == {t \in Threads : sess[t] = s /\ pc[t] \in HoldsTwo}

TypeOK ==
  /\ IOcount   \in [Slots -> Int]
  /\ dead      \in [Slots -> BOOLEAN]
  /\ ID        \in [Slots -> Nat]
  /\ canceled  \in [Slots -> BOOLEAN]
  /\ open      \in [Slots -> BOOLEAN]
  /\ freeSlots \in SUBSET Slots
  /\ stamp     \in Nat \ {0}
  /\ issued    \in SUBSET (Slots \X Nat)
  /\ recvIO    \in [Slots -> IOStates]
  /\ ioOwner   \in [Slots -> Nat]
  /\ pc        \in [Threads -> PCs]
  /\ sess      \in [Threads -> Slots]
  /\ want      \in [Threads -> Nat]

Init ==
  /\ IOcount   = [s \in Slots |-> 0]
  /\ dead      = [s \in Slots |-> TRUE]
  /\ ID        = [s \in Slots |-> 0]
  /\ canceled  = [s \in Slots |-> FALSE]
  /\ open      = [s \in Slots |-> FALSE]
  /\ freeSlots = Slots
  /\ stamp     = 1
  /\ issued    = {}
  /\ recvIO    = [s \in Slots |-> "none"]
  /\ ioOwner   = [s \in Slots |-> 0]
  /\ pc        = [t \in Threads |-> "idle"]
  /\ sess      \in [Threads -> Slots]
  /\ want      = [t \in Threads |-> 0]

Goto(t, from, to) ==
  /\ pc[t] = from
  /\ pc' = [pc EXCEPT ![t] = to]

-----------------------------------------------------------------------------
(***************************************************************************)
(* Lookup, cancellation and release: what every thread may run.            *)
(***************************************************************************)

\* FindSession: the reference is added before anything is read.
FindSession(t, s, u) ==
  /\ Goto(t, "idle", "acqDead")
  /\ <<s, u>> \in issued
  /\ sess' = [sess EXCEPT ![t] = s]
  /\ want' = [want EXCEPT ![t] = u]
  /\ IOcount' = [IOcount EXCEPT ![s] = @ + 1]
  /\ UNCHANGED <<dead, ID, canceled, open, arrayVars, kernelVars>>

\* AcquireSession reads the delete flag, then the ID.
AcquireDead(t) ==
  /\ Goto(t, "acqDead", IF dead[sess[t]] THEN "drop" ELSE "acqID")
  /\ UNCHANGED <<slotVars, arrayVars, kernelVars, sess, want>>

\* Mutant: the ID is not compared.
AcquireAnyID(t) ==
  /\ Goto(t, "acqID", "chkCancel")
  /\ UNCHANGED <<slotVars, arrayVars, kernelVars, sess, want>>

AcquireID(t) ==
  /\ Goto(t, "acqID", IF ID[sess[t]] = want[t] THEN "chkCancel" ELSE "drop")
  /\ UNCHANGED <<slotVars, arrayVars, kernelVars, sess, want>>

\* Disconnect: a session that is being canceled already is let go.
CheckCanceled(t) ==
  /\ Goto(t, "chkCancel", IF canceled[sess[t]] THEN "drop" ELSE "setCancel")
  /\ UNCHANGED <<slotVars, arrayVars, kernelVars, sess, want>>

\* Mutant: the flag is not set before CancelIoEx.
SetCanceledTooLate(t) ==
  /\ \/ Goto(t, "setCancel", "cancelIO")
     \/ Goto(t, "failSet", "failCancel")
  /\ UNCHANGED <<slotVars, arrayVars, kernelVars, sess, want>>

SetCanceled(t) ==
  /\ \/ Goto(t, "setCancel", "cancelIO")
     \/ Goto(t, "failSet", "failCancel")
  /\ canceled' = [canceled EXCEPT ![sess[t]] = TRUE]
  /\ UNCHANGED <<IOcount, dead, ID, open, arrayVars, kernelVars, sess, want>>

\* CancelIoEx reaches the receive that is outstanding now, no later one.
CancelIO(t) ==
  /\ \/ Goto(t, "cancelIO", "drop")
     \/ Goto(t, "recancel", "drop")
     \/ Goto(t, "failCancel", "drop2")
  /\ recvIO' = [recvIO EXCEPT ![sess[t]] = IF @ = "pending" THEN "cancelling" ELSE @]
  /\ UNCHANGED <<slotVars, arrayVars, ioOwner, sess, want>>

\* Mutant: only a decrement by one looks for zero.
GiveBackNoRelease(t, from, n) ==
  /\ Goto(t, from, IF n = 1 /\ IOcount[sess[t]] = n /\ ~dead[sess[t]]
                     THEN "release" ELSE "idle")
  /\ IOcount' = [IOcount EXCEPT ![sess[t]] = @ - n]
  /\ UNCHANGED <<dead, ID, canceled, open, arrayVars, kernelVars, sess, want>>

\* Giving references back: the word at 0 sends the thread to ReleaseSession.
GiveBack(t, from, n) ==
  /\ Goto(t, from, IF IOcount[sess[t]] = n /\ ~dead[sess[t]] THEN "release" ELSE "idle")
  /\ IOcount' = [IOcount EXCEPT ![sess[t]] = @ - n]
  /\ UNCHANGED <<dead, ID, canceled, open, arrayVars, kernelVars, sess, want>>

DecrementIOCount(t) == GiveBack(t, "drop", 1)
SubIOCount(t)       == GiveBack(t, "drop2", 2)

\* Mutant: the delete flag is masked out of the comparison.
ReleaseTwice(t) ==
  LET s == sess[t]
      wins == IOcount[s] = 0
  IN  /\ Goto(t, "release", IF wins THEN "destroy" ELSE "idle")
      /\ dead' = [dead EXCEPT ![s] = @ \/ wins]
      /\ UNCHANGED <<IOcount, ID, canceled, open, arrayVars, kernelVars, sess, want>>

\* ReleaseSession: SetDeleteFlag compares the whole word with 0.
ReleaseSession(t) ==
  LET s == sess[t]
      wins == IOcount[s] = 0 /\ ~dead[s]
  IN  /\ Goto(t, "release", IF wins THEN "destroy" ELSE "idle")
      /\ dead' = [dead EXCEPT ![s] = @ \/ wins]
      /\ UNCHANGED <<IOcount, ID, canceled, open, arrayVars, kernelVars, sess, want>>

\* Destroy, with its check that the socket was not closed before.
Destroy(t) ==
  /\ Goto(t, "destroy", IF open[sess[t]] THEN "push" ELSE "crashed")
  /\ open' = [open EXCEPT ![sess[t]] = FALSE]
  /\ UNCHANGED <<IOcount, dead, ID, canceled, arrayVars, kernelVars, sess, want>>

PushSessionIndex(t) ==
  /\ Goto(t, "push", "idle")
  /\ freeSlots' = freeSlots \cup {sess[t]}
  /\ UNCHANGED <<slotVars, stamp, issued, kernelVars, sess, want>>

-----------------------------------------------------------------------------
(***************************************************************************)
(* MyAcceptProc: AllocSession, Initialize, then RecvPost.                  *)
(***************************************************************************)
AllocSession(t, s) ==
  /\ t = Acceptor
  /\ stamp <= MaxStamp
  /\ s \in freeSlots
  /\ Goto(t, "idle", "initCount")
  /\ freeSlots' = freeSlots \ {s}
  /\ sess' = [sess EXCEPT ![t] = s]
  /\ want' = [want EXCEPT ![t] = stamp]
  /\ stamp' = stamp + 1
  /\ UNCHANGED <<slotVars, issued, kernelVars>>

InitializeCount(t) ==
  /\ Goto(t, "initCount", "initID")
  /\ IOcount' = [IOcount EXCEPT ![sess[t]] = @ + 1]
  /\ UNCHANGED <<dead, ID, canceled, open, arrayVars, kernelVars, sess, want>>

InitializeID(t) ==
  /\ Goto(t, "initID", "initFields")
  /\ ID' = [ID EXCEPT ![sess[t]] = want[t]]
  /\ UNCHANGED <<IOcount, dead, canceled, open, arrayVars, kernelVars, sess, want>>

InitializeFields(t) ==
  /\ Goto(t, "initFields", "initAlive")
  /\ open' = [open EXCEPT ![sess[t]] = TRUE]
  /\ canceled' = [canceled EXCEPT ![sess[t]] = FALSE]
  /\ UNCHANGED <<IOcount, dead, ID, arrayVars, kernelVars, sess, want>>

\* The InterlockedAnd with DELETE_FLAG_MASK; OnClientJoin then tells the ID.
InitializeAlive(t) ==
  /\ Goto(t, "initAlive", "postRecv")
  /\ dead' = [dead EXCEPT ![sess[t]] = FALSE]
  /\ issued' = issued \cup {<<sess[t], want[t]>>}
  /\ UNCHANGED <<IOcount, ID, canceled, open, freeSlots, stamp, kernelVars, sess, want>>

-----------------------------------------------------------------------------
(***************************************************************************)
(* Receiving.                                                              *)
(***************************************************************************)
\* Mutant: no reference for the receive.
RecvPostUncounted(t) ==
  /\ Goto(t, "postRecv", "wsaRecv")
  /\ UNCHANGED <<slotVars, arrayVars, kernelVars, sess, want>>

RecvPost(t) ==
  /\ Goto(t, "postRecv", "wsaRecv")
  /\ IOcount' = [IOcount EXCEPT ![sess[t]] = @ + 1]
  /\ UNCHANGED <<dead, ID, canceled, open, arrayVars, kernelVars, sess, want>>

\* WSARecv completes at once, is left pending, or fails.
Posted(s, io) ==
  /\ recvIO'  = [recvIO EXCEPT ![s] = io]
  /\ ioOwner' = [ioOwner EXCEPT ![s] = ID[s]]

WSARecv(t) ==
  /\ \/ Goto(t, "wsaRecv", "drop")    /\ \E io \in {"ok", "fin"} : Posted(sess[t], io)
     \/ Goto(t, "wsaRecv", "recheck") /\ Posted(sess[t], "pending")
     \/ Goto(t, "wsaRecv", "failSet") /\ UNCHANGED kernelVars
  /\ UNCHANGED <<slotVars, arrayVars, sess, want>>

\* A receive posted after the cancel was not reached by it: look again.
RecheckCanceled(t) ==
  /\ Goto(t, "recheck", IF canceled[sess[t]] THEN "recancel" ELSE "drop")
  /\ UNCHANGED <<slotVars, arrayVars, kernelVars, sess, want>>

\* The kernel finishes a receive; a cancel may come too late to stop it.
KernelCompletes(s) ==
  /\ \/ /\ recvIO[s] \in {"pending", "cancelling"}
        /\ \E r \in Results \ {"aborted"} : recvIO' = [recvIO EXCEPT ![s] = r]
     \/ /\ recvIO[s] = "cancelling"
        /\ recvIO' = [recvIO EXCEPT ![s] = "aborted"]
  /\ UNCHANGED <<slotVars, arrayVars, ioOwner, threadVars>>

\* GetQueuedCompletionStatus hands the receive's reference to the worker.
\* Transferred 0 and every error but an abort go to DisconnectSession.
TakeCompletion(w, s) ==
  /\ w \in Workers
  /\ \/ recvIO[s] = "ok"              /\ Goto(w, "idle", "onRecv")
     \/ recvIO[s] \in {"fin", "error"} /\ Goto(w, "idle", "setCancel")
     \/ recvIO[s] = "aborted"         /\ Goto(w, "idle", "onAbort")
  /\ sess' = [sess EXCEPT ![w] = s]
  /\ want' = [want EXCEPT ![w] = ioOwner[s]]
  /\ recvIO' = [recvIO EXCEPT ![s] = "none"]
  /\ UNCHANGED <<slotVars, arrayVars, ioOwner>>

\* OnRecvComplete: the bytes parse, or they are a packet error.
OnRecvComplete(w) ==
  /\ IF canceled[sess[w]]
       THEN Goto(w, "onRecv", "drop")
       ELSE Goto(w, "onRecv", "postRecv") \/ Goto(w, "onRecv", "setCancel")
  /\ UNCHANGED <<slotVars, arrayVars, kernelVars, sess, want>>

\* ERROR_OPERATION_ABORTED: ErrorQuit unless the session was canceled.
OnAborted(w) ==
  /\ Goto(w, "onAbort", IF canceled[sess[w]] THEN "drop" ELSE "crashed")
  /\ UNCHANGED <<slotVars, arrayVars, kernelVars, sess, want>>

-----------------------------------------------------------------------------
ThreadStep(t) ==
  \/ AcquireDead(t) \/ AcquireID(t) \/ CheckCanceled(t)
  \/ SetCanceled(t) \/ CancelIO(t)
  \/ DecrementIOCount(t) \/ SubIOCount(t) \/ ReleaseSession(t)
  \/ Destroy(t) \/ PushSessionIndex(t)
  \/ InitializeCount(t) \/ InitializeID(t) \/ InitializeFields(t) \/ InitializeAlive(t)
  \/ RecvPost(t) \/ WSARecv(t) \/ RecheckCanceled(t)
  \/ OnRecvComplete(t) \/ OnAborted(t)

Next ==
  \/ \E t \in Threads : ThreadStep(t)
  \/ \E t \in Callers, s \in Slots, u \in 1..MaxStamp : FindSession(t, s, u)
  \/ \E t \in Threads, s \in Slots : AllocSession(t, s)
  \/ \E w \in Workers, s \in Slots : TakeCompletion(w, s)
  \/ \E s \in Slots : KernelCompletes(s)

Spec == Init /\ [][Next]_vars


\* Threads run on; a canceled receive is completed by the kernel; a completion
\* in the port is taken by some worker.  Clients and callers owe nothing.
Fairness ==
  /\ \A t \in Threads : WF_vars(ThreadStep(t))
  /\ \A s \in Slots :
       /\ WF_vars(recvIO[s] = "cancelling" /\ KernelCompletes(s))
       /\ WF_vars(\E w \in Workers : TakeCompletion(w, s))

FairSpec == Spec /\ Fairness

-----------------------------------------------------------------------------
(***************************************************************************)
(* What the counting protocol has to achieve.                              *)
(***************************************************************************)

\* IOcount_ is exactly the number of references that are held: two for a
\* thread inside RecvPost, one for any other thread at work on the slot, one
\* for an outstanding receive (NetServer.h:444-491, NetServer.cpp:781-804).
CountIsReferences ==
  \A s \in Slots :
    IOcount[s] = Cardinality(First(s)) + Cardinality(Second(s))
                   + (IF recvIO[s] = "none" THEN 0 ELSE 1)

\* Nobody works on a session that was released or replaced: from the moment
\* AcquireSession lets a thread in until its last reference goes, the slot
\* holds the very session the thread asked for, and so it does for the owner
\* of an outstanding receive (NetSession.h:249-260, NetServer.cpp:1454-1478).
NoUseAfterRelease ==
  /\ \A t \in Threads :
       pc[t] \in Using => ~dead[sess[t]] /\ ID[sess[t]] = want[t] /\ open[sess[t]]
  /\ \A s \in Slots :
       recvIO[s] # "none" => ~dead[s] /\ ID[s] = ioOwner[s] /\ open[s]

\* A slot has one owner at a time while it is out of use: the index stack, the
\* acceptor that fills it, or the one thread that won SetDeleteFlag.  Pushing
\* an index twice would give one slot to two clients.
OneOwner ==
  /\ \A t \in Threads : pc[t] \in Building \cup Burying =>
       /\ dead[sess[t]]
       /\ sess[t] \notin freeSlots
       /\ \A x \in Threads \ {t} : pc[x] \in Building \cup Burying => sess[x] # sess[t]
  /\ \A s \in freeSlots : dead[s] /\ ~open[s]

\* recvPacket_ and recvOverlapped_ of a session serve one receive: nobody
\* posts or parses while another receive is outstanding (NetSession.cpp:95-134).
OneReceive ==
  \A t \in Threads : pc[t] \in Receiving =>
    /\ recvIO[sess[t]] = "none"
    /\ \A x \in Threads \ {t} : pc[x] \in Receiving => sess[x] # sess[t]

\* No ErrorQuit of these paths is reached: an aborted receive finds its session
\* canceled (NetServer.cpp:1291-1300), no socket is closed twice
\* (NetSession.cpp:82-83).
NeverErrorQuit == \A t \in Threads : pc[t] # "crashed"

\* The cancel and the next WSARecv may cross.  A canceled session whose receive
\* no cancel has reached still has a thread on its way to cancel it; without
\* one a silent client would keep the slot for ever (NetSession.cpp:121-125).
CancelReachesReceive ==
  \A s \in Slots : canceled[s] /\ recvIO[s] = "pending" =>
    \E t \in Threads : sess[t] = s /\ pc[t] \in {"cancelIO", "failCancel",
                                                 "recheck", "recancel"}

\* The receive of a session is safe: one at a time, canceled when the session is,
\* and no completion of it ends the process.
ReceivesAreSafe == OneReceive /\ NeverErrorQuit /\ CancelReachesReceive

\* An ID names one session for ever: a slot comes to life under an ID that was
\* never given out, neither by this slot nor by another (NetSessionArray.cpp:60-74).
IDsAreFresh ==
  [][\A s \in Slots : dead[s] /\ ~dead'[s] => \A x \in Slots : <<x, ID'[s]>> \notin issued]_vars

\* A canceled session is released and its index can be used again, whatever the
\* client does (NetServer.cpp:442-457, 1239-1380).
CanceledIsRecycled ==
  \A s \in Slots, u \in 1..MaxStamp :
    (canceled[s] /\ ID[s] = u /\ ~dead[s]) ~> (ID[s] # u \/ s \in freeSlots)

\* The array keeps the promise of SessionLease: a thread is a user from the
\* moment AcquireSession admits it until it starts to give its references back.
Lease == INSTANCE SessionLease WITH
  Identities <- 1..MaxStamp,
  Users <- Threads \cup {"recv"},
  life  <- [s \in Slots |-> IF dead[s] THEN 0 ELSE ID[s]],
  users <- [s \in Slots |-> {<<t, want[t]>> : t \in {x \in Threads : sess[x] = s /\ pc[x] \in Using}}
                              \cup (IF recvIO[s] = "none" THEN {} ELSE {<<"recv", ioOwner[s]>>})],
  used  <- {i[2] : i \in issued}

ImplementsLease == Lease!Init /\ [][Lease!Next]_(Lease!vars)

-----------------------------------------------------------------------------
(***************************************************************************)
(* The inductive invariant: the properties of NetSession, strengthened by  *)
(* what holds between them.                                                *)
(***************************************************************************)

\* How a slot is filled and emptied: a slot seen alive by a thread that holds a
\* reference stays alive, a live slot has its socket until its one Destroy, only
\* the acceptor builds, and the ID it builds with was never given out.
Lifecycle ==
  /\ \A s \in Slots : ~dead[s] => open[s] /\ ID[s] \in 1..MaxStamp
  /\ \A t \in Threads :
       /\ pc[t] \in Building => t = Acceptor
       /\ pc[t] = "acqID" => ~dead[sess[t]]
       /\ pc[t] \in {"destroy", "initAlive"} => open[sess[t]]
       /\ pc[t] = "push" => ~open[sess[t]]
       /\ pc[t] \in {"initFields", "initAlive"} => ID[sess[t]] = want[t]
       /\ pc[t] \in Building => /\ want[t] < stamp /\ want[t] \in 1..MaxStamp
                                /\ \A x \in Slots : <<x, want[t]>> \notin issued
  /\ \A i \in issued : i[2] < stamp

\* An abort has a cause: the flag was set before any CancelIoEx.
AbortsAreCanceled ==
  /\ \A s \in Slots : recvIO[s] \in {"cancelling", "aborted"} => canceled[s]
  /\ \A t \in Threads :
       pc[t] \in {"onAbort", "cancelIO", "recancel", "failCancel"} => canceled[sess[t]]

IInv ==
  /\ TypeOK
  /\ CountIsReferences
  /\ NoUseAfterRelease
  /\ OneOwner
  /\ OneReceive
  /\ NeverErrorQuit
  /\ CancelReachesReceive
  /\ Lifecycle
  /\ AbortsAreCanceled
=============================================================================
