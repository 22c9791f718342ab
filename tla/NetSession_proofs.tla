-------------------------- MODULE NetSession_proofs -------------------------
(***************************************************************************)
(* Proofs about NetSession, for every number of slots, threads and         *)
(* sessions.                                                               *)
(***************************************************************************)
EXTENDS NetSession, FiniteSetTheorems, TLAPS

\* TypeOK is an invariant: every step keeps each variable in its range.
THEOREM TypeCorrect == Spec => []TypeOK
<1> USE DEF TypeOK, PCs, Finding, Building, Burying, Receiving, Canceling, IOStates, Results
<1>1. Init => TypeOK
  BY DEF Init
<1>2. TypeOK /\ [Next]_vars => TypeOK'
  <2> SUFFICES ASSUME TypeOK, [Next]_vars
               PROVE  TypeOK'
    OBVIOUS
  <2> USE DEF Goto, slotVars, arrayVars, kernelVars, threadVars
  <2>1. ASSUME NEW t \in Threads, ThreadStep(t)
        PROVE  TypeOK'
    <3>1. CASE AcquireDead(t)      BY <3>1 DEF AcquireDead
    <3>2. CASE AcquireID(t)        BY <3>2 DEF AcquireID
    <3>3. CASE CheckCanceled(t)    BY <3>3 DEF CheckCanceled
    <3>4. CASE SetCanceled(t)      BY <3>4 DEF SetCanceled
    <3>5. CASE CancelIO(t)         BY <3>5 DEF CancelIO
    <3>6. CASE DecrementIOCount(t) \/ SubIOCount(t)
      BY <3>6 DEF DecrementIOCount, SubIOCount, GiveBack
    <3>7. CASE ReleaseSession(t)   BY <3>7 DEF ReleaseSession
    <3>8. CASE Destroy(t)          BY <3>8 DEF Destroy
    <3>9. CASE PushSessionIndex(t) BY <3>9 DEF PushSessionIndex
    <3>10. CASE InitializeCount(t) BY <3>10 DEF InitializeCount
    <3>11. CASE InitializeID(t)    BY <3>11 DEF InitializeID
    <3>12. CASE InitializeFields(t) BY <3>12 DEF InitializeFields
    <3>13. CASE InitializeAlive(t) BY <3>13 DEF InitializeAlive
    <3>14. CASE RecvPost(t)        BY <3>14 DEF RecvPost
    <3>15. CASE WSARecv(t)         BY <3>15 DEF WSARecv, Posted
    <3>16. CASE RecheckCanceled(t) BY <3>16 DEF RecheckCanceled
    <3>17. CASE OnRecvComplete(t)  BY <3>17 DEF OnRecvComplete
    <3>18. CASE OnAborted(t)       BY <3>18 DEF OnAborted
    <3>19. QED
      BY <2>1, <3>1, <3>2, <3>3, <3>4, <3>5, <3>6, <3>7, <3>8, <3>9, <3>10, <3>11,
         <3>12, <3>13, <3>14, <3>15, <3>16, <3>17, <3>18 DEF ThreadStep
  <2>2. ASSUME NEW t \in Callers, NEW s \in Slots, NEW u \in 1..MaxStamp, FindSession(t, s, u)
        PROVE  TypeOK'
    BY <2>2, MaxStampAssumption DEF FindSession, Threads
  <2>3. ASSUME NEW t \in Threads, NEW s \in Slots, AllocSession(t, s)
        PROVE  TypeOK'
    BY <2>3 DEF AllocSession
  <2>4. ASSUME NEW w \in Workers, NEW s \in Slots, TakeCompletion(w, s)
        PROVE  TypeOK'
    BY <2>4 DEF TakeCompletion, Threads
  <2>5. ASSUME NEW s \in Slots, KernelCompletes(s)
        PROVE  TypeOK'
    BY <2>5 DEF KernelCompletes
  <2>6. CASE UNCHANGED vars
    BY <2>6 DEF vars
  <2>7. QED
    BY <2>1, <2>2, <2>3, <2>4, <2>5, <2>6 DEF Next
<1>3. QED
  BY <1>1, <1>2, PTL DEF Spec

-----------------------------------------------------------------------------
(***************************************************************************)
(* Counting: how a step of one thread moves the two cardinalities of       *)
(* CountIsReferences.                                                      *)
(***************************************************************************)

\* The references thread t holds on slot s.
HeldOne(t, s) == IF sess[t] = s /\ pc[t] \in HoldsOne THEN 1 ELSE 0
HeldTwo(t, s) == IF sess[t] = s /\ pc[t] \in HoldsTwo THEN 1 ELSE 0

\* There are finitely many threads, so references can be counted.
LEMMA ThreadsFinite == IsFiniteSet(Threads)
  BY ThreadsAssumption, FS_Union, FS_AddElement DEF Threads

\* The threads that hold a first or a second reference are finitely many.
LEMMA HoldersFinite ==
  ASSUME NEW s \in Slots
  PROVE  /\ IsFiniteSet(First(s)) /\ Cardinality(First(s)) \in Nat
         /\ IsFiniteSet(Second(s)) /\ Cardinality(Second(s)) \in Nat
  <1>1. First(s) \in SUBSET Threads /\ Second(s) \in SUBSET Threads
    BY DEF First, Second
  <1>2. QED
    BY <1>1, ThreadsFinite, FS_Subset, FS_CardinalityType

\* Changing whether one thread is in a finite set moves its size by that thread.
LEMMA MoveOne ==
  ASSUME NEW S, NEW T, NEW t, IsFiniteSet(S), S \ {t} = T \ {t}
  PROVE  Cardinality(T) = Cardinality(S) - (IF t \in S THEN 1 ELSE 0)
                                         + (IF t \in T THEN 1 ELSE 0)
  <1>1. /\ IsFiniteSet(S \ {t})
        /\ Cardinality(S \ {t}) = Cardinality(S) - (IF t \in S THEN 1 ELSE 0)
        /\ Cardinality(S) \in Nat
    BY FS_RemoveElement, FS_CardinalityType
  <1>2. Cardinality((T \ {t}) \cup {t}) = Cardinality(S \ {t}) + 1
    BY <1>1, FS_AddElement
  <1>3. CASE t \in T
    <2>1. T = (T \ {t}) \cup {t}  BY <1>3
    <2>2. QED                     BY <1>1, <1>2, <1>3, <2>1
  <1>4. CASE t \notin T
    <2>1. T = S \ {t}             BY <1>4
    <2>2. QED                     BY <1>1, <1>4, <2>1
  <1>5. QED  BY <1>3, <1>4

\* A step of thread t changes the references on every slot by its own.
LEMMA RefsMove ==
  ASSUME TypeOK, NEW t \in Threads, NEW p, NEW q \in Slots,
         pc' = [pc EXCEPT ![t] = p], sess' = [sess EXCEPT ![t] = q],
         NEW s \in Slots
  PROVE  /\ Cardinality(First(s))' = Cardinality(First(s)) - HeldOne(t, s) + HeldOne(t, s)'
         /\ Cardinality(Second(s))' = Cardinality(Second(s)) - HeldTwo(t, s) + HeldTwo(t, s)'
  <1>1. First(s) \ {t} = First(s)' \ {t} /\ Second(s) \ {t} = Second(s)' \ {t}
    BY DEF First, Second, TypeOK
  <1>2. Cardinality(First(s)') = Cardinality(First(s)) - (IF t \in First(s) THEN 1 ELSE 0)
                                       + (IF t \in First(s)' THEN 1 ELSE 0)
    BY <1>1, HoldersFinite, MoveOne
  <1>3. Cardinality(Second(s)') = Cardinality(Second(s)) - (IF t \in Second(s) THEN 1 ELSE 0)
                                       + (IF t \in Second(s)' THEN 1 ELSE 0)
    BY <1>1, HoldersFinite, MoveOne
  <1>4. /\ HeldOne(t, s) = (IF t \in First(s) THEN 1 ELSE 0)
        /\ HeldOne(t, s)' = (IF t \in First(s)' THEN 1 ELSE 0)
        /\ HeldTwo(t, s) = (IF t \in Second(s) THEN 1 ELSE 0)
        /\ HeldTwo(t, s)' = (IF t \in Second(s)' THEN 1 ELSE 0)
    BY DEF HeldOne, HeldTwo, First, Second
  <1>5. QED  BY <1>2, <1>3, <1>4

\* A word of 0 means that nobody holds the slot and nothing is outstanding.
LEMMA ZeroMeansUnused ==
  ASSUME TypeOK, CountIsReferences, NEW s \in Slots, IOcount[s] = 0
  PROVE  /\ recvIO[s] = "none"
         /\ \A t \in Threads : sess[t] = s => pc[t] \notin HoldsOne
  <1>1. /\ Cardinality(First(s)) \in Nat /\ Cardinality(Second(s)) \in Nat
        /\ IsFiniteSet(First(s))
    BY HoldersFinite
  <1>2. IOcount[s] = Cardinality(First(s)) + Cardinality(Second(s))
                   + (IF recvIO[s] = "none" THEN 0 ELSE 1)
    BY DEF CountIsReferences
  <1>3. recvIO[s] = "none" /\ Cardinality(First(s)) = 0
    BY <1>1, <1>2
  <1>4. First(s) = {}
    BY <1>1, <1>3, FS_EmptySet
  <1>5. QED  BY <1>3, <1>4 DEF First

-----------------------------------------------------------------------------
(***************************************************************************)
(* The invariant is inductive: one lemma for each of its parts.            *)
(***************************************************************************)

\* A thread's own step keeps its slot and moves only its own pc.
LEMMA ThreadStepMoves ==
  ASSUME NEW t \in Threads, ThreadStep(t)
  PROVE  sess' = sess /\ want' = want /\ \E p : pc' = [pc EXCEPT ![t] = p]
  BY DEF ThreadStep, Goto, AcquireDead, AcquireID, CheckCanceled, SetCanceled, CancelIO,
         DecrementIOCount, SubIOCount, GiveBack, ReleaseSession, Destroy,
         PushSessionIndex, InitializeCount, InitializeID, InitializeFields,
         InitializeAlive, RecvPost, WSARecv, RecheckCanceled, OnRecvComplete, OnAborted

\* The three steps that give an idle thread a slot.
LEMMA IdleStepMoves ==
  ASSUME TypeOK, NEW t \in Threads, NEW q \in Slots, NEW u,
         FindSession(t, q, u) \/ AllocSession(t, q) \/ TakeCompletion(t, q)
  PROVE  /\ pc[t] = "idle"
         /\ sess' = [sess EXCEPT ![t] = q]
         /\ \E p \in {"acqDead", "initCount", "onRecv", "setCancel", "onAbort"} :
              pc' = [pc EXCEPT ![t] = p]
  BY DEF FindSession, AllocSession, TakeCompletion, Goto

\* IOcount_ stays equal to the references held.
LEMMA CountStep == IInv /\ [Next]_vars => CountIsReferences'
<1> SUFFICES ASSUME IInv, [Next]_vars, NEW s \in Slots
             PROVE  IOcount'[s] = Cardinality(First(s))' + Cardinality(Second(s))'
                                    + (IF recvIO'[s] = "none" THEN 0 ELSE 1)
  BY DEF CountIsReferences
<1> USE DEF Goto, slotVars, arrayVars, kernelVars, threadVars
<1>0. /\ TypeOK /\ CountIsReferences /\ OneReceive /\ Lifecycle
      /\ Cardinality(First(s)) \in Nat /\ Cardinality(Second(s)) \in Nat
      /\ IOcount[s] = Cardinality(First(s)) + Cardinality(Second(s))
                        + (IF recvIO[s] = "none" THEN 0 ELSE 1)
      /\ IOcount \in [Slots -> Int] /\ recvIO \in [Slots -> IOStates]
      /\ pc \in [Threads -> PCs] /\ sess \in [Threads -> Slots]
  BY HoldersFinite DEF IInv, CountIsReferences, TypeOK
<1> DEFINE Moved(t) ==
      /\ Cardinality(First(s))' = Cardinality(First(s)) - HeldOne(t, s) + HeldOne(t, s)'
      /\ Cardinality(Second(s))' = Cardinality(Second(s)) - HeldTwo(t, s) + HeldTwo(t, s)'
<1>1. ASSUME NEW t \in Threads, ThreadStep(t)
      PROVE  IOcount'[s] = Cardinality(First(s))' + Cardinality(Second(s))'
                             + (IF recvIO'[s] = "none" THEN 0 ELSE 1)
  <2>1. sess' = sess /\ Moved(t)
    <3>1. PICK p : pc' = [pc EXCEPT ![t] = p]
      BY <1>1, ThreadStepMoves
    <3>2. sess' = sess /\ sess' = [sess EXCEPT ![t] = sess[t]] /\ sess[t] \in Slots
      BY <1>0, <1>1, ThreadStepMoves
    <3>3. QED
      BY <1>0, <3>1, <3>2, RefsMove
  <2> USE DEF HeldOne, HeldTwo, HoldsOne, HoldsTwo, Using, Receiving, Canceling, Finding
  <2>2. CASE AcquireDead(t)      BY <1>0, <2>1, <2>2 DEF AcquireDead
  <2>3. CASE AcquireID(t)        BY <1>0, <2>1, <2>3 DEF AcquireID
  <2>4. CASE CheckCanceled(t)    BY <1>0, <2>1, <2>4 DEF CheckCanceled
  <2>5. CASE SetCanceled(t)      BY <1>0, <2>1, <2>5 DEF SetCanceled
  <2>6. CASE CancelIO(t)         BY <1>0, <2>1, <2>6 DEF CancelIO
  <2>7. CASE DecrementIOCount(t) BY <1>0, <2>1, <2>7 DEF DecrementIOCount, GiveBack
  <2>8. CASE SubIOCount(t)       BY <1>0, <2>1, <2>8 DEF SubIOCount, GiveBack
  <2>9. CASE ReleaseSession(t)   BY <1>0, <2>1, <2>9 DEF ReleaseSession
  <2>10. CASE Destroy(t)         BY <1>0, <2>1, <2>10 DEF Destroy, Lifecycle
  <2>11. CASE PushSessionIndex(t) BY <1>0, <2>1, <2>11 DEF PushSessionIndex
  <2>12. CASE InitializeCount(t) BY <1>0, <2>1, <2>12 DEF InitializeCount
  <2>13. CASE InitializeID(t)    BY <1>0, <2>1, <2>13 DEF InitializeID
  <2>14. CASE InitializeFields(t) BY <1>0, <2>1, <2>14 DEF InitializeFields
  <2>15. CASE InitializeAlive(t) BY <1>0, <2>1, <2>15 DEF InitializeAlive
  <2>16. CASE RecvPost(t)        BY <1>0, <2>1, <2>16 DEF RecvPost
  <2>17. CASE WSARecv(t)         BY <1>0, <2>1, <2>17 DEF WSARecv, Posted, OneReceive
  <2>18. CASE RecheckCanceled(t) BY <1>0, <2>1, <2>18 DEF RecheckCanceled
  <2>19. CASE OnRecvComplete(t)  BY <1>0, <2>1, <2>19 DEF OnRecvComplete
  <2>20. CASE OnAborted(t)       BY <1>0, <2>1, <2>20 DEF OnAborted
  <2>21. QED
    BY <1>1, <2>2, <2>3, <2>4, <2>5, <2>6, <2>7, <2>8, <2>9, <2>10, <2>11, <2>12, <2>13,
       <2>14, <2>15, <2>16, <2>17, <2>18, <2>19, <2>20 DEF ThreadStep
<1>2. ASSUME NEW t \in Threads, NEW q \in Slots, NEW u,
             FindSession(t, q, u) \/ AllocSession(t, q) \/ TakeCompletion(t, q)
      PROVE  IOcount'[s] = Cardinality(First(s))' + Cardinality(Second(s))'
                             + (IF recvIO'[s] = "none" THEN 0 ELSE 1)
  <2>1. /\ pc[t] = "idle" /\ sess' = [sess EXCEPT ![t] = q]
        /\ Moved(t)
    <3>1. /\ pc[t] = "idle" /\ sess' = [sess EXCEPT ![t] = q]
          /\ \E p : pc' = [pc EXCEPT ![t] = p]
      BY <1>0, <1>2, IdleStepMoves
    <3>2. QED
      BY <1>0, <3>1, RefsMove
  <2> USE DEF HeldOne, HeldTwo, HoldsOne, HoldsTwo, Using, Receiving, Canceling, Finding
  <2>2. CASE FindSession(t, q, u)  BY <1>0, <2>1, <2>2 DEF FindSession
  <2>3. CASE AllocSession(t, q)    BY <1>0, <2>1, <2>3 DEF AllocSession
  <2>4. CASE TakeCompletion(t, q)  BY <1>0, <2>1, <2>4 DEF TakeCompletion, Results
  <2>5. QED  BY <1>2, <2>2, <2>3, <2>4
<1>3. ASSUME NEW q \in Slots, KernelCompletes(q)
      PROVE  IOcount'[s] = Cardinality(First(s))' + Cardinality(Second(s))'
                             + (IF recvIO'[s] = "none" THEN 0 ELSE 1)
  BY <1>0, <1>3 DEF KernelCompletes, Results, First, Second
<1>4. CASE UNCHANGED vars
  BY <1>0, <1>4 DEF vars, First, Second
<1>5. QED
  BY <1>1, <1>2, <1>3, <1>4 DEF Next, Threads

\* Nobody is left behind on a session that is released or replaced.
LEMMA NoUseStep == IInv /\ [Next]_vars => NoUseAfterRelease'
<1> SUFFICES ASSUME IInv, [Next]_vars
             PROVE  NoUseAfterRelease'
  OBVIOUS
<1> USE DEF Goto, slotVars, arrayVars, kernelVars, threadVars, TypeOK, NoUseAfterRelease, Using, Receiving, Canceling
<1>0. TypeOK /\ CountIsReferences /\ NoUseAfterRelease /\ OneOwner /\ Lifecycle
  BY DEF IInv
<1>1. ASSUME NEW t \in Threads, ThreadStep(t)
      PROVE  NoUseAfterRelease'
  <2>1. CASE AcquireDead(t) \/ CheckCanceled(t) \/ SetCanceled(t) \/ CancelIO(t) \/
            PushSessionIndex(t) \/ InitializeCount(t) \/ RecvPost(t) \/
            RecheckCanceled(t) \/ OnRecvComplete(t) \/ OnAborted(t) \/
            DecrementIOCount(t) \/ SubIOCount(t)
    BY <1>0, <2>1 DEF AcquireDead, CheckCanceled, SetCanceled, CancelIO,
                      PushSessionIndex, InitializeCount, RecvPost, RecheckCanceled,
                      OnRecvComplete, OnAborted, DecrementIOCount, SubIOCount,
                      GiveBack
  <2>2. CASE AcquireID(t)
    BY <1>0, <2>2 DEF AcquireID, Lifecycle
  <2>3. CASE ReleaseSession(t)
    BY <1>0, <2>3, ZeroMeansUnused DEF ReleaseSession, HoldsOne
  <2>4. CASE Destroy(t)
    BY <1>0, <2>4 DEF Destroy, OneOwner, Burying
  <2>5. CASE InitializeID(t)
    BY <1>0, <2>5 DEF InitializeID, OneOwner, Building
  <2>6. CASE InitializeFields(t)
    BY <1>0, <2>6 DEF InitializeFields, OneOwner, Building
  <2>7. CASE InitializeAlive(t)
    BY <1>0, <2>7 DEF InitializeAlive, OneOwner, Building, Lifecycle
  <2>8. CASE WSARecv(t)
    BY <1>0, <2>8 DEF WSARecv, Posted
  <2>9. QED
    BY <1>1, <2>1, <2>2, <2>3, <2>4, <2>5, <2>6, <2>7, <2>8 DEF ThreadStep
<1>2. ASSUME NEW t \in Callers, NEW s \in Slots, NEW u \in 1..MaxStamp, FindSession(t, s, u)
      PROVE  NoUseAfterRelease'
  BY <1>0, <1>2 DEF FindSession, Threads
<1>3. ASSUME NEW t \in Threads, NEW s \in Slots, AllocSession(t, s)
      PROVE  NoUseAfterRelease'
  BY <1>0, <1>3 DEF AllocSession, Threads
<1>4. ASSUME NEW w \in Workers, NEW s \in Slots, TakeCompletion(w, s)
      PROVE  NoUseAfterRelease'
  BY <1>0, <1>4 DEF TakeCompletion, Threads
<1>5. ASSUME NEW s \in Slots, KernelCompletes(s)
      PROVE  NoUseAfterRelease'
  BY <1>0, <1>5 DEF KernelCompletes, Threads, Results
<1>6. CASE UNCHANGED vars
  BY <1>0, <1>6 DEF vars
<1>7. QED
  BY <1>1, <1>2, <1>3, <1>4, <1>5, <1>6 DEF Next


\* A slot out of use keeps one owner.
LEMMA OneOwnerStep == IInv /\ [Next]_vars => OneOwner'
<1> SUFFICES ASSUME IInv, [Next]_vars
             PROVE  OneOwner'
  OBVIOUS
<1> USE DEF Goto, slotVars, arrayVars, kernelVars, threadVars, TypeOK, OneOwner, Building, Burying
<1>0. TypeOK /\ NoUseAfterRelease /\ OneOwner /\ Lifecycle
  BY DEF IInv
<1>1. ASSUME NEW t \in Threads, ThreadStep(t)
      PROVE  OneOwner'
  <2>1. CASE AcquireDead(t) \/ AcquireID(t) \/ CheckCanceled(t) \/ SetCanceled(t) \/
            CancelIO(t) \/ InitializeCount(t) \/ InitializeID(t) \/ RecvPost(t) \/
            RecheckCanceled(t) \/ OnRecvComplete(t) \/ OnAborted(t) \/
            DecrementIOCount(t) \/ SubIOCount(t)
    BY <1>0, <2>1 DEF AcquireDead, AcquireID, CheckCanceled, SetCanceled, CancelIO,
                      InitializeCount, InitializeID, RecvPost, RecheckCanceled,
                      OnRecvComplete, OnAborted, DecrementIOCount, SubIOCount,
                      GiveBack
  <2>2. CASE WSARecv(t)
    BY <1>0, <2>2 DEF WSARecv, Posted
  <2>3. CASE ReleaseSession(t)
    BY <1>0, <2>3 DEF ReleaseSession
  <2>4. CASE Destroy(t)
    BY <1>0, <2>4 DEF Destroy
  <2>5. CASE InitializeFields(t)
    BY <1>0, <2>5 DEF InitializeFields
  <2>6. CASE PushSessionIndex(t)
    BY <1>0, <2>6 DEF PushSessionIndex, Lifecycle
  <2>7. CASE InitializeAlive(t)
    BY <1>0, <2>7 DEF InitializeAlive
  <2>8. QED
    BY <1>1, <2>1, <2>2, <2>3, <2>4, <2>5, <2>6, <2>7 DEF ThreadStep
<1>2. ASSUME NEW t \in Callers, NEW s \in Slots, NEW u \in 1..MaxStamp, FindSession(t, s, u)
      PROVE  OneOwner'
  BY <1>0, <1>2 DEF FindSession, Threads
<1>3. ASSUME NEW t \in Threads, NEW s \in Slots, AllocSession(t, s)
      PROVE  OneOwner'
  BY <1>0, <1>3 DEF AllocSession, Threads
<1>4. ASSUME NEW w \in Workers, NEW s \in Slots, TakeCompletion(w, s)
      PROVE  OneOwner'
  BY <1>0, <1>4 DEF TakeCompletion, Threads
<1>5. ASSUME NEW s \in Slots, KernelCompletes(s)
      PROVE  OneOwner'
  BY <1>0, <1>5 DEF KernelCompletes, Threads
<1>6. CASE UNCHANGED vars
  BY <1>0, <1>6 DEF vars
<1>7. QED
  BY <1>1, <1>2, <1>3, <1>4, <1>5, <1>6 DEF Next


\* One receive per session.
LEMMA OneReceiveStep == IInv /\ [Next]_vars => OneReceive'
<1> SUFFICES ASSUME IInv, [Next]_vars
             PROVE  OneReceive'
  OBVIOUS
<1> USE DEF Goto, slotVars, arrayVars, kernelVars, threadVars, TypeOK, OneReceive, Receiving
<1>0. TypeOK /\ NoUseAfterRelease /\ OneOwner /\ OneReceive
  BY DEF IInv
<1>1. ASSUME NEW t \in Threads, ThreadStep(t)
      PROVE  OneReceive'
  <2>1. CASE AcquireDead(t) \/ AcquireID(t) \/ CheckCanceled(t) \/ SetCanceled(t) \/
            ReleaseSession(t) \/ Destroy(t) \/ PushSessionIndex(t) \/
            InitializeCount(t) \/ InitializeID(t) \/ InitializeFields(t) \/
            RecvPost(t) \/ RecheckCanceled(t) \/ OnRecvComplete(t) \/ OnAborted(t) \/
            DecrementIOCount(t) \/ SubIOCount(t)
    BY <1>0, <2>1 DEF AcquireDead, AcquireID, CheckCanceled, SetCanceled,
                      ReleaseSession, Destroy, PushSessionIndex, InitializeCount,
                      InitializeID, InitializeFields, RecvPost, RecheckCanceled,
                      OnRecvComplete, OnAborted, DecrementIOCount, SubIOCount,
                      GiveBack
  <2>2. CASE WSARecv(t)
    BY <1>0, <2>2 DEF WSARecv, Posted
  <2>3. CASE InitializeAlive(t)
    BY <1>0, <2>3 DEF InitializeAlive, NoUseAfterRelease, OneOwner, Using, Building, Receiving
  <2>4. CASE CancelIO(t)
    BY <1>0, <2>4 DEF CancelIO
  <2>5. QED
    BY <1>1, <2>1, <2>2, <2>3, <2>4 DEF ThreadStep
<1>2. ASSUME NEW t \in Callers, NEW s \in Slots, NEW u \in 1..MaxStamp, FindSession(t, s, u)
      PROVE  OneReceive'
  BY <1>0, <1>2 DEF FindSession, Threads
<1>3. ASSUME NEW t \in Threads, NEW s \in Slots, AllocSession(t, s)
      PROVE  OneReceive'
  BY <1>0, <1>3 DEF AllocSession, Threads
<1>4. ASSUME NEW w \in Workers, NEW s \in Slots, TakeCompletion(w, s)
      PROVE  OneReceive'
  BY <1>0, <1>4 DEF TakeCompletion, Threads, Results
<1>5. ASSUME NEW s \in Slots, KernelCompletes(s)
      PROVE  OneReceive'
  BY <1>0, <1>5 DEF KernelCompletes, Threads, Results
<1>6. CASE UNCHANGED vars
  BY <1>0, <1>6 DEF vars
<1>7. QED
  BY <1>1, <1>2, <1>3, <1>4, <1>5, <1>6 DEF Next


\* No assertion fails: Destroy finds its socket, an abort its cancel.
LEMMA NoErrorQuitStep == IInv /\ [Next]_vars => NeverErrorQuit'
<1> SUFFICES ASSUME IInv, [Next]_vars
             PROVE  NeverErrorQuit'
  OBVIOUS
<1> USE DEF Goto, slotVars, arrayVars, kernelVars, threadVars, TypeOK, NeverErrorQuit
<1>0. TypeOK /\ NeverErrorQuit /\ Lifecycle /\ AbortsAreCanceled
  BY DEF IInv
<1>1. ASSUME NEW t \in Threads, ThreadStep(t)
      PROVE  NeverErrorQuit'
  <2>1. CASE AcquireDead(t) \/ AcquireID(t) \/ CheckCanceled(t) \/ SetCanceled(t) \/
            CancelIO(t) \/ ReleaseSession(t) \/ PushSessionIndex(t) \/
            InitializeCount(t) \/ InitializeID(t) \/ InitializeFields(t) \/
            InitializeAlive(t) \/ RecvPost(t) \/ RecheckCanceled(t) \/
            OnRecvComplete(t) \/ DecrementIOCount(t) \/ SubIOCount(t)
    BY <1>0, <2>1 DEF AcquireDead, AcquireID, CheckCanceled, SetCanceled, CancelIO,
                      ReleaseSession, PushSessionIndex, InitializeCount,
                      InitializeID, InitializeFields, InitializeAlive, RecvPost,
                      RecheckCanceled, OnRecvComplete, DecrementIOCount, SubIOCount,
                      GiveBack
  <2>2. CASE WSARecv(t)
    BY <1>0, <2>2 DEF WSARecv, Posted
  <2>3. CASE Destroy(t)
    BY <1>0, <2>3 DEF Destroy, Lifecycle
  <2>4. CASE OnAborted(t)
    BY <1>0, <2>4 DEF OnAborted, AbortsAreCanceled
  <2>5. QED
    BY <1>1, <2>1, <2>2, <2>3, <2>4 DEF ThreadStep
<1>2. ASSUME NEW t \in Callers, NEW s \in Slots, NEW u \in 1..MaxStamp, FindSession(t, s, u)
      PROVE  NeverErrorQuit'
  BY <1>0, <1>2 DEF FindSession, Threads
<1>3. ASSUME NEW t \in Threads, NEW s \in Slots, AllocSession(t, s)
      PROVE  NeverErrorQuit'
  BY <1>0, <1>3 DEF AllocSession, Threads
<1>4. ASSUME NEW w \in Workers, NEW s \in Slots, TakeCompletion(w, s)
      PROVE  NeverErrorQuit'
  BY <1>0, <1>4 DEF TakeCompletion, Threads
<1>5. ASSUME NEW s \in Slots, KernelCompletes(s)
      PROVE  NeverErrorQuit'
  BY <1>0, <1>5 DEF KernelCompletes, Threads
<1>6. CASE UNCHANGED vars
  BY <1>0, <1>6 DEF vars
<1>7. QED
  BY <1>1, <1>2, <1>3, <1>4, <1>5, <1>6 DEF Next


\* Whoever sets the flag, or posts a receive, is still on its way to cancel it.
LEMMA CancelStep == IInv /\ [Next]_vars => CancelReachesReceive'
<1> SUFFICES ASSUME IInv, [Next]_vars
             PROVE  CancelReachesReceive'
  OBVIOUS
<1> USE DEF Goto, slotVars, arrayVars, kernelVars, threadVars, TypeOK, CancelReachesReceive
<1>0. TypeOK /\ CancelReachesReceive
  BY DEF IInv
<1>1. ASSUME NEW t \in Threads, ThreadStep(t)
      PROVE  CancelReachesReceive'
  <2>1. CASE AcquireDead(t) \/ AcquireID(t) \/ CheckCanceled(t) \/
            ReleaseSession(t) \/ Destroy(t) \/ PushSessionIndex(t) \/
            InitializeCount(t) \/ InitializeID(t) \/ InitializeFields(t) \/
            InitializeAlive(t) \/ RecvPost(t) \/ OnRecvComplete(t) \/ OnAborted(t) \/
            DecrementIOCount(t) \/ SubIOCount(t)
    BY <1>0, <2>1 DEF AcquireDead, AcquireID, CheckCanceled, ReleaseSession, Destroy,
                      PushSessionIndex, InitializeCount, InitializeID,
                      InitializeFields, InitializeAlive, RecvPost, OnRecvComplete,
                      OnAborted, DecrementIOCount, SubIOCount, GiveBack
  <2>2. CASE WSARecv(t)
    BY <1>0, <2>2 DEF WSARecv, Posted
  <2>3. CASE CancelIO(t)
    BY <1>0, <2>3 DEF CancelIO
  <2>4. CASE SetCanceled(t)
    BY <1>0, <2>4 DEF SetCanceled
  <2>5. CASE RecheckCanceled(t)
    BY <1>0, <2>5 DEF RecheckCanceled
  <2>6. QED
    BY <1>1, <2>1, <2>2, <2>3, <2>4, <2>5 DEF ThreadStep
<1>2. ASSUME NEW t \in Callers, NEW s \in Slots, NEW u \in 1..MaxStamp, FindSession(t, s, u)
      PROVE  CancelReachesReceive'
  BY <1>0, <1>2 DEF FindSession, Threads
<1>3. ASSUME NEW t \in Threads, NEW s \in Slots, AllocSession(t, s)
      PROVE  CancelReachesReceive'
  BY <1>0, <1>3 DEF AllocSession, Threads
<1>4. ASSUME NEW w \in Workers, NEW s \in Slots, TakeCompletion(w, s)
      PROVE  CancelReachesReceive'
  BY <1>0, <1>4 DEF TakeCompletion, Threads
<1>5. ASSUME NEW s \in Slots, KernelCompletes(s)
      PROVE  CancelReachesReceive'
  BY <1>0, <1>5 DEF KernelCompletes, Threads, Results
<1>6. CASE UNCHANGED vars
  BY <1>0, <1>6 DEF vars
<1>7. QED
  BY <1>1, <1>2, <1>3, <1>4, <1>5, <1>6 DEF Next


\* The life cycle of slot and ID.
LEMMA LifecycleStep == IInv /\ [Next]_vars => Lifecycle'
<1> SUFFICES ASSUME IInv, [Next]_vars
             PROVE  Lifecycle'
  OBVIOUS
<1> USE DEF Goto, slotVars, arrayVars, kernelVars, threadVars, TypeOK, Lifecycle, Building, Burying
<1>0. TypeOK /\ CountIsReferences /\ NoUseAfterRelease /\ OneOwner /\ Lifecycle
  BY DEF IInv
<1>1. ASSUME NEW t \in Threads, ThreadStep(t)
      PROVE  Lifecycle'
  <2>1. CASE AcquireID(t) \/ CheckCanceled(t) \/ SetCanceled(t) \/ CancelIO(t) \/
            PushSessionIndex(t) \/ InitializeCount(t) \/ RecvPost(t) \/
            RecheckCanceled(t) \/ OnRecvComplete(t) \/ OnAborted(t) \/
            DecrementIOCount(t) \/ SubIOCount(t)
    BY <1>0, <2>1 DEF AcquireID, CheckCanceled, SetCanceled, CancelIO,
                      PushSessionIndex, InitializeCount, RecvPost, RecheckCanceled,
                      OnRecvComplete, OnAborted, DecrementIOCount, SubIOCount,
                      GiveBack
  <2>2. CASE WSARecv(t)
    BY <1>0, <2>2 DEF WSARecv, Posted
  <2>3. CASE AcquireDead(t)
    BY <1>0, <2>3 DEF AcquireDead
  <2>4. CASE ReleaseSession(t)
    BY <1>0, <2>4, ZeroMeansUnused DEF ReleaseSession, HoldsOne, Finding
  <2>5. CASE Destroy(t)
    BY <1>0, <2>5 DEF Destroy, OneOwner
  <2>6. CASE InitializeID(t)
    BY <1>0, <2>6 DEF InitializeID, OneOwner
  <2>7. CASE InitializeFields(t)
    BY <1>0, <2>7 DEF InitializeFields, OneOwner
  <2>8. CASE InitializeAlive(t)
    BY <1>0, <2>8 DEF InitializeAlive, OneOwner
  <2>9. QED
    BY <1>1, <2>1, <2>2, <2>3, <2>4, <2>5, <2>6, <2>7, <2>8 DEF ThreadStep
<1>2. ASSUME NEW t \in Callers, NEW s \in Slots, NEW u \in 1..MaxStamp, FindSession(t, s, u)
      PROVE  Lifecycle'
  BY <1>0, <1>2 DEF FindSession, Threads
<1>3. ASSUME NEW t \in Threads, NEW s \in Slots, AllocSession(t, s)
      PROVE  Lifecycle'
  BY <1>0, <1>3, ThreadsAssumption DEF AllocSession, Threads
<1>4. ASSUME NEW w \in Workers, NEW s \in Slots, TakeCompletion(w, s)
      PROVE  Lifecycle'
  BY <1>0, <1>4 DEF TakeCompletion, Threads
<1>5. ASSUME NEW s \in Slots, KernelCompletes(s)
      PROVE  Lifecycle'
  BY <1>0, <1>5 DEF KernelCompletes, Threads
<1>6. CASE UNCHANGED vars
  BY <1>0, <1>6 DEF vars
<1>7. QED
  BY <1>1, <1>2, <1>3, <1>4, <1>5, <1>6 DEF Next


\* Aborts follow cancels.
LEMMA AbortsStep == IInv /\ [Next]_vars => AbortsAreCanceled'
<1> SUFFICES ASSUME IInv, [Next]_vars
             PROVE  AbortsAreCanceled'
  OBVIOUS
<1> USE DEF Goto, slotVars, arrayVars, kernelVars, threadVars, TypeOK, AbortsAreCanceled
<1>0. TypeOK /\ NoUseAfterRelease /\ OneOwner /\ AbortsAreCanceled
  BY DEF IInv
<1>1. ASSUME NEW t \in Threads, ThreadStep(t)
      PROVE  AbortsAreCanceled'
  <2>1. CASE AcquireDead(t) \/ AcquireID(t) \/ CheckCanceled(t) \/ SetCanceled(t) \/
            ReleaseSession(t) \/ Destroy(t) \/ PushSessionIndex(t) \/
            InitializeCount(t) \/ InitializeID(t) \/ InitializeAlive(t) \/
            RecvPost(t) \/ RecheckCanceled(t) \/ OnRecvComplete(t) \/ OnAborted(t) \/
            DecrementIOCount(t) \/ SubIOCount(t)
    BY <1>0, <2>1 DEF AcquireDead, AcquireID, CheckCanceled, SetCanceled,
                      ReleaseSession, Destroy, PushSessionIndex, InitializeCount,
                      InitializeID, InitializeAlive, RecvPost, RecheckCanceled,
                      OnRecvComplete, OnAborted, DecrementIOCount, SubIOCount,
                      GiveBack
  <2>2. CASE WSARecv(t)
    BY <1>0, <2>2 DEF WSARecv, Posted
  <2>3. CASE CancelIO(t)
    BY <1>0, <2>3 DEF CancelIO
  <2>4. CASE InitializeFields(t)
    BY <1>0, <2>4 DEF InitializeFields, NoUseAfterRelease, OneOwner, Using, Building, Canceling
  <2>5. QED
    BY <1>1, <2>1, <2>2, <2>3, <2>4 DEF ThreadStep
<1>2. ASSUME NEW t \in Callers, NEW s \in Slots, NEW u \in 1..MaxStamp, FindSession(t, s, u)
      PROVE  AbortsAreCanceled'
  BY <1>0, <1>2 DEF FindSession, Threads
<1>3. ASSUME NEW t \in Threads, NEW s \in Slots, AllocSession(t, s)
      PROVE  AbortsAreCanceled'
  BY <1>0, <1>3 DEF AllocSession, Threads
<1>4. ASSUME NEW w \in Workers, NEW s \in Slots, TakeCompletion(w, s)
      PROVE  AbortsAreCanceled'
  BY <1>0, <1>4 DEF TakeCompletion, Threads
<1>5. ASSUME NEW s \in Slots, KernelCompletes(s)
      PROVE  AbortsAreCanceled'
  BY <1>0, <1>5 DEF KernelCompletes, Threads, Results
<1>6. CASE UNCHANGED vars
  BY <1>0, <1>6 DEF vars
<1>7. QED
  BY <1>1, <1>2, <1>3, <1>4, <1>5, <1>6 DEF Next

-----------------------------------------------------------------------------
(***************************************************************************)
(* The theorems.                                                           *)
(***************************************************************************)

\* The inductive invariant holds in every reachable state.
THEOREM InvariantHolds == Spec => []IInv
<1>1. Init => IInv
  <2> SUFFICES ASSUME Init PROVE IInv
    OBVIOUS
  <2>1. TypeOK
    BY DEF Init, TypeOK, PCs, IOStates
  <2>2. CountIsReferences
    <3> SUFFICES ASSUME NEW s \in Slots
                 PROVE  IOcount[s] = Cardinality(First(s)) + Cardinality(Second(s))
                                       + (IF recvIO[s] = "none" THEN 0 ELSE 1)
      BY DEF CountIsReferences
    <3>1. First(s) = {} /\ Second(s) = {}
      BY DEF Init, First, Second, HoldsOne, HoldsTwo, Using, Receiving, Canceling, Finding
    <3>2. Cardinality(First(s)) = 0 /\ Cardinality(Second(s)) = 0
      BY <3>1, FS_EmptySet
    <3>3. IOcount[s] = 0 /\ recvIO[s] = "none"
      BY DEF Init
    <3>4. QED
      BY <3>2, <3>3
  <2>3. NoUseAfterRelease /\ OneReceive /\ NeverErrorQuit /\ CancelReachesReceive
    BY DEF Init, NoUseAfterRelease, OneReceive, NeverErrorQuit, CancelReachesReceive,
           Using, Receiving, Canceling
  <2>4. OneOwner /\ Lifecycle /\ AbortsAreCanceled
    BY DEF Init, OneOwner, Lifecycle, AbortsAreCanceled, Building, Burying
  <2>5. QED
    BY <2>1, <2>2, <2>3, <2>4 DEF IInv
<1>2. IInv /\ TypeOK' /\ [Next]_vars => IInv'
  BY CountStep, NoUseStep, OneOwnerStep, OneReceiveStep, NoErrorQuitStep, CancelStep,
     LifecycleStep, AbortsStep DEF IInv
<1>3. QED
  BY <1>1, <1>2, TypeCorrect, PTL DEF Spec

\* IOcount_ is the number of references held, in every reachable state.
THEOREM CountCorrect == Spec => []CountIsReferences
<1>1. IInv => CountIsReferences  BY DEF IInv
<1>2. QED                        BY <1>1, InvariantHolds, PTL

\* Nobody works on a released or replaced session.
THEOREM NoUseAfterReleaseHolds == Spec => []NoUseAfterRelease
<1>1. IInv => NoUseAfterRelease  BY DEF IInv
<1>2. QED                        BY <1>1, InvariantHolds, PTL

\* A slot out of use has one owner: no index is pushed twice.
THEOREM OneOwnerHolds == Spec => []OneOwner
<1>1. IInv => OneOwner           BY DEF IInv
<1>2. QED                        BY <1>1, InvariantHolds, PTL

\* A session has one receive at a time.
THEOREM OneReceiveHolds == Spec => []OneReceive
<1>1. IInv => OneReceive         BY DEF IInv
<1>2. QED                        BY <1>1, InvariantHolds, PTL

\* Neither ErrorQuit of the receive and release paths is reached.
THEOREM NeverErrorQuitHolds == Spec => []NeverErrorQuit
<1>1. IInv => NeverErrorQuit     BY DEF IInv
<1>2. QED                        BY <1>1, InvariantHolds, PTL

\* No cancel is lost between the flag and the receive.
THEOREM CancelReachesReceiveHolds == Spec => []CancelReachesReceive
<1>1. IInv => CancelReachesReceive  BY DEF IInv
<1>2. QED                           BY <1>1, InvariantHolds, PTL

\* The receive of a session is safe for any number of threads that disconnect it.
THEOREM ReceivesAreSafeHolds == Spec => []ReceivesAreSafe
<1>1. IInv => ReceivesAreSafe    BY DEF IInv, ReceivesAreSafe
<1>2. QED                        BY <1>1, InvariantHolds, PTL

\* A unique_ is never used for a second session.
THEOREM FreshIDs == Spec => IDsAreFresh
<1>1. IInv /\ [Next]_vars => [\A s \in Slots : dead[s] /\ ~dead'[s] =>
                                \A x \in Slots : <<x, ID'[s]>> \notin issued]_vars
  <2> SUFFICES ASSUME IInv, [Next]_vars, NEW s \in Slots, dead[s], ~dead'[s], NEW x \in Slots
               PROVE  <<x, ID'[s]>> \notin issued
    OBVIOUS
  <2>1. PICK t \in Threads : InitializeAlive(t)
    BY DEF Next, vars, ThreadStep, slotVars, AcquireDead, AcquireID, CheckCanceled,
           SetCanceled, CancelIO, DecrementIOCount, SubIOCount, GiveBack, ReleaseSession,
           Destroy, PushSessionIndex, InitializeCount, InitializeID, InitializeFields,
           RecvPost, WSARecv, RecheckCanceled, OnRecvComplete, OnAborted,
           FindSession, AllocSession, TakeCompletion, KernelCompletes, IInv, TypeOK
  <2>2. s = sess[t] /\ ID'[s] = ID[s] /\ pc[t] = "initAlive"
    BY <2>1 DEF InitializeAlive, Goto, IInv, TypeOK
  <2>3. QED
    BY <2>2 DEF IInv, Lifecycle, Building
<1>2. QED
  BY <1>1, InvariantHolds, PTL DEF Spec, IDsAreFresh

-----------------------------------------------------------------------------
(***************************************************************************)
(* The array implements SessionLease.                                      *)
(***************************************************************************)

\* The mapped variables of Lease, by name.
LeaseLife  == [s \in Slots |-> IF dead[s] THEN 0 ELSE ID[s]]
LeaseUsers == [s \in Slots |->
                 {<<t, want[t]>> : t \in {x \in Threads : sess[x] = s /\ pc[x] \in Using}}
                   \cup (IF recvIO[s] = "none" THEN {} ELSE {<<"recv", ioOwner[s]>>})]

\* The users of a slot are its threads, their want, and its receive.
LEMMA SameUsers ==
  ASSUME NEW x \in Slots,
         \A t \in Threads : (sess'[t] = x /\ pc'[t] \in Using) <=> (sess[t] = x /\ pc[t] \in Using),
         \A t \in Threads : sess[t] = x /\ pc[t] \in Using => want'[t] = want[t],
         recvIO'[x] = recvIO[x], ioOwner'[x] = ioOwner[x]
  PROVE  LeaseUsers'[x] = LeaseUsers[x]
<1> DEFINE Of    == {t \in Threads : sess[t] = x /\ pc[t] \in Using}
           Pairs == {<<t, want[t]>> : t \in Of}
<1>1. Of' = Of
  OBVIOUS
<1>2. \A t \in Of : want'[t] = want[t]
  OBVIOUS
<1>3. Pairs' = {<<t, want'[t]>> : t \in Of}
  BY <1>1
<1>4. Pairs' = Pairs
  <2> HIDE DEF Of
  <2> QED  BY <1>2, <1>3
<1>5. QED
  BY <1>4 DEF LeaseUsers

\* A step that keeps every lease and touches the users of one slot only is a
\* Share of that slot, or changes nothing the lease can see.
LEMMA OneSlotShares ==
  ASSUME IInv, IInv', NEW s \in Slots,
         LeaseLife' = LeaseLife, issued' = issued,
         \A x \in Slots \ {s} : LeaseUsers'[x] = LeaseUsers[x]
  PROVE  [Lease!Next]_(Lease!vars)
<1> DEFINE Users == Threads \cup {"recv"}
           leaving == LeaseUsers[s] \ LeaseUsers'[s]
           joining == LeaseUsers'[s] \ LeaseUsers[s]
<1>1. LeaseUsers' = [LeaseUsers EXCEPT ![s] = (@ \ leaving) \cup joining]
  <2>1. LeaseUsers'[s] = (LeaseUsers[s] \ leaving) \cup joining
    OBVIOUS
  <2>2. DOMAIN LeaseUsers = Slots /\ DOMAIN LeaseUsers' = Slots
    BY DEF LeaseUsers
  <2> HIDE DEF leaving, joining
  <2>3. QED
    BY <2>1, <2>2 DEF LeaseUsers
<1>3. CASE dead[s]
  <2>1. dead'[s]
    BY <1>3 DEF LeaseLife, IInv, Lifecycle
  <2>2. LeaseUsers[s] = {} /\ LeaseUsers'[s] = {}
    BY <1>3, <2>1 DEF LeaseUsers, IInv, NoUseAfterRelease
  <2>3. LeaseUsers' = LeaseUsers
    BY <1>1, <2>2 DEF LeaseUsers
  <2>4. QED
    BY <2>3 DEF Lease!vars, LeaseLife, LeaseUsers
<1>4. CASE ~dead[s]
  <2>1. LeaseLife[s] # 0
    BY <1>4 DEF LeaseLife, IInv, Lifecycle
  <2>2. ~dead'[s] /\ LeaseLife[s] = ID'[s]
    BY <1>4 DEF LeaseLife, IInv, Lifecycle
  <2>3. leaving \in SUBSET LeaseUsers[s] /\ joining \in SUBSET (Users \X {LeaseLife[s]})
    <3>1. ASSUME NEW t \in Threads, sess'[t] = s, pc'[t] \in Using
          PROVE  <<t, want'[t]>> \in Users \X {LeaseLife[s]}
      BY <2>2, <3>1 DEF IInv, NoUseAfterRelease
    <3>2. ASSUME recvIO'[s] # "none"
          PROVE  <<"recv", ioOwner'[s]>> \in Users \X {LeaseLife[s]}
      BY <2>2, <3>2 DEF IInv, NoUseAfterRelease
    <3>3. LeaseUsers'[s] \subseteq Users \X {LeaseLife[s]}
      BY <3>1, <3>2 DEF LeaseUsers
    <3>4. QED
      BY <3>3
  <2>4. Lease!Share(s, leaving, joining)
    BY <1>1, <2>1 DEF Lease!Share, LeaseLife, LeaseUsers
  <2> HIDE DEF leaving, joining
  <2>5. \E l \in SUBSET LeaseUsers[s], j \in SUBSET (Users \X {LeaseLife[s]}) :
          Lease!Share(s, l, j)
    BY <2>3, <2>4 DEF Lease!Share
  <2>6. QED
    BY <2>5 DEF Lease!Next, Lease!Share, LeaseLife, LeaseUsers
<1>5. QED
  BY <1>3, <1>4 DEF IInv, TypeOK

\* Clearing the delete flag opens a lease under the new ID.
LEMMA AliveOpens ==
  ASSUME IInv, NEW t \in Threads, InitializeAlive(t)
  PROVE  Lease!Next
<1> DEFINE s == sess[t]
<1> USE DEF Goto, slotVars, kernelVars, IInv, TypeOK
<1>1. /\ pc[t] \in Building /\ s \in Slots /\ dead[s] /\ ID[s] = want[t]
      /\ want[t] \in 1..MaxStamp /\ \A x \in Slots : <<x, want[t]>> \notin issued
  BY DEF InitializeAlive, Building, OneOwner, Lifecycle
<1>2. LeaseLife[s] = 0 /\ LeaseUsers[s] = {}
  BY <1>1 DEF LeaseLife, LeaseUsers, NoUseAfterRelease
<1>3. LeaseLife' = [LeaseLife EXCEPT ![s] = want[t]]
  BY <1>1 DEF InitializeAlive, LeaseLife
<1>4. LeaseUsers' = [LeaseUsers EXCEPT ![s] = {<<t, want[t]>>}]
  <2>1. pc' = [pc EXCEPT ![t] = "postRecv"] /\ sess' = sess /\ want' = want
        /\ recvIO' = recvIO /\ ioOwner' = ioOwner
    BY DEF InitializeAlive
  <2>2. ASSUME NEW x \in Slots, x # s PROVE LeaseUsers'[x] = LeaseUsers[x]
    BY <2>1, <2>2 DEF LeaseUsers
  <2>3. LeaseUsers'[s] = {<<t, want[t]>>}
    <3>1. /\ recvIO[s] = "none"
          /\ \A x \in Threads : sess[x] = s => pc[x] \notin Using
      BY <1>1 DEF NoUseAfterRelease
    <3>2. {x \in Threads : sess'[x] = s /\ pc'[x] \in Using} = {t}
      BY <2>1, <3>1 DEF Using, Receiving
    <3>3. LeaseUsers'[s] = {<<x, want'[x]>> : x \in {t}}
      BY <1>1, <2>1, <3>1, <3>2 DEF LeaseUsers
    <3>4. QED
      BY <2>1, <3>3
  <2>4. QED
    BY <2>2, <2>3 DEF LeaseUsers
<1>5. /\ want[t] \notin {i[2] : i \in issued}
      /\ {i[2] : i \in issued}' = {i[2] : i \in issued} \cup {want[t]}
  <2>1. \A i \in issued : i = <<i[1], i[2]>> /\ i[1] \in Slots
    OBVIOUS
  <2>2. issued' = issued \cup {<<s, want[t]>>}
    BY DEF InitializeAlive
  <2>3. want[t] \notin {i[2] : i \in issued}
    BY <1>1, <2>1
  <2>4. {i[2] : i \in issued'} = {i[2] : i \in issued} \cup {<<s, want[t]>>[2]}
    BY <2>2
  <2>5. QED
    BY <2>3, <2>4
<1>6. Lease!Open(s, want[t], t)
  BY <1>2, <1>3, <1>4, <1>5 DEF Lease!Open, LeaseLife, LeaseUsers
<1>7. \E u \in 1..MaxStamp, x \in Threads \cup {"recv"} : Lease!Open(s, u, x)
  BY <1>1, <1>6 DEF Lease!Open
<1>8. QED
  BY <1>1, <1>7 DEF Lease!Next, Lease!Open

\* Winning SetDeleteFlag ends a lease that nobody uses.
LEMMA ReleaseEnds ==
  ASSUME IInv, NEW t \in Threads, ReleaseSession(t)
  PROVE  [Lease!Next]_(Lease!vars)
<1> DEFINE s == sess[t]
<1> USE DEF Goto, slotVars, arrayVars, kernelVars, IInv, TypeOK
<1>1. LeaseUsers' = LeaseUsers /\ issued' = issued
  <2>1. /\ sess' = sess /\ want' = want /\ recvIO' = recvIO /\ ioOwner' = ioOwner
        /\ issued' = issued /\ pc[t] \notin Using
        /\ \E p \in {"destroy", "idle"} : pc' = [pc EXCEPT ![t] = p]
    BY DEF ReleaseSession, Using, Receiving, Canceling
  <2>2. \A x \in Threads : pc'[x] \in Using <=> pc[x] \in Using
    BY <2>1 DEF Using, Receiving, Canceling
  <2>3. QED
    BY <2>1, <2>2 DEF LeaseUsers
<1>2. CASE IOcount[s] = 0 /\ ~dead[s]
  <2>1. LeaseUsers[s] = {}
    BY <1>2, ZeroMeansUnused DEF LeaseUsers, HoldsOne
  <2>2. LeaseLife[s] # 0 /\ LeaseLife' = [LeaseLife EXCEPT ![s] = 0]
    BY <1>2 DEF ReleaseSession, LeaseLife, Lifecycle
  <2>3. Lease!End(s)
    BY <1>1, <2>1, <2>2 DEF Lease!End, LeaseLife, LeaseUsers
  <2>4. QED
    BY <2>3 DEF Lease!Next, Lease!End
<1>3. CASE ~(IOcount[s] = 0 /\ ~dead[s])
  <2>1. LeaseLife' = LeaseLife
    BY <1>3 DEF ReleaseSession, LeaseLife
  <2>2. QED
    BY <1>1, <2>1 DEF Lease!vars, LeaseLife, LeaseUsers
<1>4. QED
  BY <1>2, <1>3

\* Every other step keeps every lease.
LEMMA LeaseLifeKept ==
  ASSUME IInv, [Next]_vars,
         \A t \in Threads : ~InitializeAlive(t) /\ ~ReleaseSession(t)
  PROVE  LeaseLife' = LeaseLife /\ issued' = issued
<1> USE DEF slotVars, arrayVars, kernelVars, threadVars
<1>1. dead' = dead /\ issued' = issued
  BY DEF Next, vars, ThreadStep, AcquireDead, AcquireID, CheckCanceled, SetCanceled,
         CancelIO, DecrementIOCount, SubIOCount, GiveBack, Destroy, PushSessionIndex,
         InitializeCount, InitializeID, InitializeFields, RecvPost, WSARecv,
         RecheckCanceled, OnRecvComplete, OnAborted, FindSession, AllocSession,
         TakeCompletion, KernelCompletes
<1>2. ASSUME NEW s \in Slots, ~dead[s] PROVE ID'[s] = ID[s]
  <2>1. CASE \E t \in Threads : InitializeID(t)
    BY <1>2, <2>1 DEF InitializeID, Goto, IInv, TypeOK, OneOwner, Building
  <2>2. CASE ~\E t \in Threads : InitializeID(t)
    BY <2>2 DEF Next, vars, ThreadStep, AcquireDead, AcquireID, CheckCanceled, SetCanceled,
         CancelIO, DecrementIOCount, SubIOCount, GiveBack, Destroy, PushSessionIndex,
         InitializeCount, InitializeFields, RecvPost, WSARecv,
         RecheckCanceled, OnRecvComplete, OnAborted, FindSession, AllocSession,
         TakeCompletion, KernelCompletes
  <2>3. QED  BY <2>1, <2>2
<1>3. QED
  BY <1>1, <1>2 DEF LeaseLife

\* A thread's own step touches the users of its own slot.
LEMMA ThreadStepLocal ==
  ASSUME TypeOK, NEW t \in Threads, ThreadStep(t), NEW x \in Slots, x # sess[t]
  PROVE  LeaseUsers'[x] = LeaseUsers[x]
<1>1. recvIO'[x] = recvIO[x] /\ ioOwner'[x] = ioOwner[x]
  BY DEF ThreadStep, AcquireDead, AcquireID, CheckCanceled, SetCanceled,
         CancelIO, DecrementIOCount, SubIOCount, GiveBack, ReleaseSession, Destroy,
         PushSessionIndex, InitializeCount, InitializeID, InitializeFields, InitializeAlive,
         RecvPost, WSARecv, Posted, RecheckCanceled, OnRecvComplete, OnAborted, kernelVars,
         TypeOK
<1>2. sess' = sess /\ want' = want /\ \E p : pc' = [pc EXCEPT ![t] = p]
  BY ThreadStepMoves
<1>3. \A q \in Threads : (sess'[q] = x /\ pc'[q] \in Using) <=> (sess[q] = x /\ pc[q] \in Using)
  BY <1>2 DEF TypeOK
<1>4. QED
  BY <1>1, <1>2, <1>3, SameUsers

\* NetSession implements SessionLease: the word of 16 bits does what a lease
\* with a set of users promises.
THEOREM Refinement == Spec => ImplementsLease
<1>1. Init => Lease!Init
  BY DEF Init, Lease!Init, Using, Receiving, Canceling
<1>2. IInv /\ IInv' /\ [Next]_vars => [Lease!Next]_(Lease!vars)
  <2> SUFFICES ASSUME IInv, IInv', [Next]_vars
               PROVE  [Lease!Next]_(Lease!vars)
    OBVIOUS
  <2>1. CASE \E t \in Threads : InitializeAlive(t)
    BY <2>1, AliveOpens
  <2>2. CASE \E t \in Threads : ReleaseSession(t)
    BY <2>2, ReleaseEnds
  <2>3. CASE \A t \in Threads : ~InitializeAlive(t) /\ ~ReleaseSession(t)
    <3>1. LeaseLife' = LeaseLife /\ issued' = issued /\ TypeOK
      BY <2>3, LeaseLifeKept DEF IInv
    <3>2. ASSUME NEW t \in Threads, ThreadStep(t) PROVE [Lease!Next]_(Lease!vars)
      <4>1. sess[t] \in Slots
        BY <3>1 DEF TypeOK
      <4>2. \A x \in Slots \ {sess[t]} : LeaseUsers'[x] = LeaseUsers[x]
        BY <3>1, <3>2, ThreadStepLocal
      <4>3. QED
        BY <3>1, <4>1, <4>2, OneSlotShares
    <3>3. ASSUME NEW t \in Threads, NEW s \in Slots, NEW u,
                 FindSession(t, s, u) \/ AllocSession(t, s) \/ TakeCompletion(t, s)
          PROVE  [Lease!Next]_(Lease!vars)
      <4>1. /\ pc[t] = "idle" /\ sess' = [sess EXCEPT ![t] = s]
            /\ \E p : pc' = [pc EXCEPT ![t] = p]
            /\ \A q \in Threads \ {t} : want'[q] = want[q]
            /\ \A x \in Slots \ {s} : recvIO'[x] = recvIO[x] /\ ioOwner'[x] = ioOwner[x]
        BY <3>1, <3>3 DEF FindSession, AllocSession, TakeCompletion, Goto, TypeOK, kernelVars
      <4>2. ASSUME NEW x \in Slots \ {s}, NEW q \in Threads
            PROVE  /\ (sess'[q] = x /\ pc'[q] \in Using) <=> (sess[q] = x /\ pc[q] \in Using)
                   /\ sess[q] = x /\ pc[q] \in Using => want'[q] = want[q]
        BY <3>1, <4>1 DEF TypeOK, Using, Receiving, Canceling
      <4>3. \A x \in Slots \ {s} : LeaseUsers'[x] = LeaseUsers[x]
        BY <4>1, <4>2, SameUsers
      <4>4. QED
        BY <3>1, <4>3, OneSlotShares
    <3>4. ASSUME NEW s \in Slots, KernelCompletes(s)
          PROVE  [Lease!Next]_(Lease!vars)
      <4>1. \A x \in Slots \ {s} : LeaseUsers'[x] = LeaseUsers[x]
        BY <3>1, <3>4, SameUsers DEF KernelCompletes, threadVars, TypeOK
      <4>2. QED
        BY <3>1, <4>1, OneSlotShares
    <3>5. CASE UNCHANGED vars
      BY <3>5 DEF vars, slotVars, arrayVars, kernelVars, threadVars, Lease!vars
    <3>6. QED
      BY <3>2, <3>3, <3>4, <3>5 DEF Next, Threads
  <2>4. QED
    BY <2>1, <2>2, <2>3
<1>3. QED
  BY <1>1, <1>2, InvariantHolds, PTL DEF Spec, ImplementsLease
=============================================================================
