---------------------------- MODULE Queues_proofs ----------------------------
(***************************************************************************)
(* The two queues of a session, proved: the job queue, in which its        *)
(* messages wait for its pipe (JobQueue), and the send queue, in which its *)
(* answers wait for the network (LockFreeEnqQueue).  The names of the send *)
(* queue's definitions begin with SendQ where both queues have them.       *)
(***************************************************************************)
EXTENDS JobQueue, LockFreeEnqQueue, SequenceTheorems, TLAPS

-----------------------------------------------------------------------------
(***************************************************************************)
(* The job queue keeps the order of the sets and gives no session the sets *)
(* of another, for every size of the ring, number of moves, sets and       *)
(* sessions, although ClearJobQ resets indices the worker is writing; and  *)
(* where no user moves it implements Fifo.                                 *)
(*                                                                         *)
(* The argument: what lies between front_ and rear_ is in order and later  *)
(* than all that was handled or freed.  A Clear between two steps of the   *)
(* worker can bring sets back into the queue that it was thought to have   *)
(* dropped, but only with rear_ and front_ at zero, and then they are sets *)
(* of the session that has the slot, in order and not yet seen by the      *)
(* pipe; the destruction of a session finds no worker at work.             *)
(***************************************************************************)

\* The places of the ring between front_ and rear_.
Live(i) == i < rear \/ (rear < front /\ front <= i)

\* A set that may still be handled: it was received for this session, after all
\* that was handled or freed and after what the pipe has in its hands, and before
\* the one the worker has.
Good(x) ==
  /\ \A k \in DOMAIN handled : handled[k] < x
  /\ \A y \in freed : y < x
  /\ pipe \in {"advance", "use"} => taken < x
  /\ owner[x] = session
  /\ worker # "idle" => x < set

\* Nothing has a number that was not given yet.
Known ==
  /\ \A i \in Indices : arr[i] <= set
  /\ taken <= set
  /\ \A k \in DOMAIN handled : handled[k] <= set
  /\ \A y \in freed : y <= set

\* Behind the front there is nothing, where the queue does not wrap around.
Behind == front <= rear => \A i \in Indices : i < front => arr[i] = NULL

\* What is in the queue is in order.  Of two live places the earlier one is that with
\* the smaller index, unless only the other one lies past the wrap.
Earlier(i, j) == (i < j /\ (i < rear <=> j < rear)) \/ (j < rear /\ rear <= i)
InOrder == \A i, j \in Indices :
  Live(i) /\ Live(j) /\ arr[i] # NULL /\ arr[j] # NULL /\ Earlier(i, j) => arr[i] < arr[j]
Fresh == \A i \in Indices : Live(i) /\ arr[i] # NULL => Good(arr[i])

\* The set the worker has is the latest.
Latest ==
  /\ worker # "idle" =>
       /\ set # 0 /\ owner[set] = session
       /\ \A k \in DOMAIN handled : handled[k] < set
       /\ \A y \in freed : y < set
       /\ pipe \in {"advance", "use"} => taken < set
  /\ why = "destroy" => worker = "idle"

\* The place after rear_ is free for the worker that found the queue not full,
\* unless a Clear has set front_ and not yet rear_.
Room ==
  /\ worker = "full2" /\ After(rear) = front => pipe = "reset2" \/ seen.front = front
  /\ worker \in {"store", "read"} => After(rear) # front \/ pipe = "reset2"
  /\ worker = "write" /\ seen.rear = rear => After(rear) # front \/ pipe = "reset2"

\* The set is where rear_ will come past it, unless a Clear came between the
\* worker's steps: then a place of the ring that was emptied, or sets of the
\* same session come into the queue again that were dropped by the Clear.
Stored ==
  /\ worker = "read" =>
       arr[rear] = set \/ (rear = 0 /\ front = 0 /\ (arr[0] # NULL => Good(arr[0])))
  /\ worker = "write" =>
       /\ \/ arr[seen.rear] = set
          \/ seen.rear = 0 /\ rear = 0 /\ front = 0 /\ (arr[0] # NULL => Good(arr[0]))
       /\ seen.rear # rear =>
            /\ rear = 0 /\ front = 0 /\ pipe \in {"idle", "empty", "reset1", "reset2"}
            /\ \A i \in Indices : i < seen.rear /\ arr[i] # NULL => Good(arr[i])
            /\ \A i, j \in Indices :
                 i < j /\ j < seen.rear /\ arr[i] # NULL /\ arr[j] # NULL => arr[i] < arr[j]

\* The set the pipe has in its hands is the first of the queue.
InHand ==
  /\ pipe \in {"take", "null", "advance"} => front # rear
  /\ pipe = "null" => taken = arr[front]
  /\ pipe = "advance" => arr[front] = NULL
  /\ pipe = "reset2" => front = 0
  /\ pipe \in {"advance", "use"} /\ taken # NULL =>
       /\ owner[taken] = session
       /\ \A k \in DOMAIN handled : handled[k] < taken
       /\ \A y \in freed : y < taken

\* A worker that is busy has a set, and a slot is destroyed for a next session.
Typed ==
  /\ TypeOK
  /\ worker # "idle" => set # 0
  /\ why = "destroy" => session < MaxSessions

IInv ==
  /\ Typed /\ HandledInOrder
  /\ Known /\ Behind /\ InOrder /\ Fresh /\ Latest /\ Room /\ Stored /\ InHand

USE SizeAssumption, BoundsAssumption
    DEF ringVars, workerVars, pipeVars, sessionVars, endVars

\* The index after the last is the first.
LEMMA AfterIs ==
  ASSUME NEW i \in Indices
  PROVE  /\ After(i) = (IF i = Size - 1 THEN 0 ELSE i + 1) /\ After(i) \in Indices
<1>1. CASE i = Size - 1
  BY <1>1 DEF After, Indices
<1>2. CASE i # Size - 1
  BY <1>2 DEF After, Indices
<1>3. QED
  BY <1>1, <1>2

\* Initially every variable is in its range.
LEMMA TypeInit == Init => TypeOK
<1> SUFFICES ASSUME Init PROVE TypeOK
  OBVIOUS
<1>1. /\ arr \in [Indices -> Sets \cup {NULL}] /\ front \in Indices /\ rear \in Indices
      /\ seen \in [front : Indices, rear : Indices]
  BY DEF Init, Indices
<1>2. /\ worker \in {"idle", "full1", "full2", "store", "read", "write", "crashed"}
      /\ pipe \in {"idle", "empty", "take", "null", "advance", "use", "reset1", "reset2",
                  "crashed"}
      /\ why \in {"job", "move", "destroy"} /\ taken \in Sets \cup {NULL}
      /\ session \in 1..MaxSessions /\ moves \in 0..Moves /\ moved \in 0..moves
  BY DEF Init
<1>3. set \in 0..MaxSets /\ owner \in [1..set -> 1..MaxSessions]
  BY DEF Init
<1>4. handled \in Seq(Sets) /\ freed \subseteq Sets
  BY EmptySeq DEF Init
<1>5. QED  BY <1>1, <1>2, <1>3, <1>4 DEF TypeOK

\* Every step keeps the types.
LEMMA TypedNext == Typed /\ [Next]_vars => Typed'
<1> SUFFICES ASSUME Typed, [Next]_vars
             PROVE  Typed'
  OBVIOUS
<1> USE DEF Typed, TypeOK, Worker, Pipe
<1>1. CASE Receive
  <2>1. set' \in 0..MaxSets /\ set' # 0
    BY <1>1 DEF Receive
  <2>2. owner \in Seq(1..MaxSessions) /\ Len(owner) = set
    BY <1>1
  <2>3. owner' \in [1..set' -> 1..MaxSessions]
    <3>1. session \in 1..MaxSessions /\ owner' = Append(owner, session) /\ set' = set + 1
      BY <1>1 DEF Receive
    <3>2. owner' \in Seq(1..MaxSessions) /\ Len(owner') = set'
      BY <2>2, <3>1, AppendProperties
    <3>3. QED  BY <3>2
  <2>4. QED  BY <1>1, <2>1, <2>3 DEF Receive
<1>2. CASE FullFront \/ FullRear \/ ReadRear
  BY <1>2 DEF FullFront, FullRear, ReadRear
<1>3. CASE Store
  <2>1. arr' \in [Indices -> Sets \cup {NULL}]
    BY <1>3 DEF Store, Sets
  <2>2. QED  BY <1>3, <2>1 DEF Store
<1>4. CASE WriteRear
  BY <1>4, AfterIs DEF WriteRear
<1>5. CASE LookEmpty \/ TakeSlot \/ ClearSlot
  BY <1>5 DEF LookEmpty, TakeSlot, ClearSlot
<1>6. CASE Advance
  BY <1>6, AfterIs DEF Advance
<1>7. CASE Use
  <2>1. handled' \in Seq(Sets) /\ freed' \subseteq Sets
    BY <1>7, AppendProperties DEF Use
  <2>2. QED  BY <1>7, <2>1 DEF Use
<1>8. CASE ResetFront
  BY <1>8 DEF ResetFront, Indices
<1>9. CASE ResetRear
  <2>1. session' \in 1..MaxSessions /\ moved' \in 0..moves' /\ why' = "job"
    BY <1>9 DEF ResetRear
  <2>2. rear' \in Indices
    BY <1>9 DEF ResetRear, Indices
  <2>3. QED  BY <1>9, <2>1, <2>2 DEF ResetRear
<1>10. ASSUME NEW r \in {"job", "move", "destroy"}, Begin(r)
       PROVE  Typed'
  BY <1>10 DEF Begin
<1>11. CASE UNCHANGED vars
  BY <1>11 DEF vars
<1>12. QED
  BY <1>1, <1>2, <1>3, <1>4, <1>5, <1>6, <1>7, <1>8, <1>9, <1>10, <1>11
     DEF Next, WorkerStep, PipeStep

\* TypeOK is an invariant: every variable stays in its range.
THEOREM TypeCorrect == Spec => []TypeOK
<1>1. Init => Typed
  BY TypeInit DEF Init, Typed
<1>2. Typed => TypeOK
  BY DEF Typed
<1>3. QED
  BY <1>1, <1>2, TypedNext, PTL DEF Spec

\* The worker gets a set: it is the latest, and the pipe has none that is later.
LEMMA ReceiveKeeps ==
  ASSUME IInv, Typed', Receive
  PROVE  IInv'
<1> USE DEF Typed, TypeOK, Worker, Pipe, Live, Good, Earlier, Receive
<1>0. /\ Typed /\ HandledInOrder /\ Known /\ Behind /\ InOrder /\ Fresh
      /\ Latest /\ Room /\ Stored /\ InHand
  BY DEF IInv
<1>a. set' = set + 1 /\ owner'[set'] = session /\ \A x \in 1..set : owner'[x] = owner[x]
  <2>1. owner \in Seq(1..MaxSessions) /\ Len(owner) = set
    BY <1>0
  <2>2. QED  BY <1>0, <2>1, AppendProperties
<1>b. \A k \in DOMAIN handled : handled[k] \in Sets
  BY <1>0
<1>c. /\ set \in Nat /\ taken \in Nat /\ (\A i \in Indices : arr[i] \in Nat)
      /\ Sets \subseteq Nat /\ freed \subseteq Nat
  BY <1>0 DEF Sets, NULL
<1>d. /\ set' = set + 1 /\ worker = "idle" /\ why' # "destroy"
      /\ UNCHANGED <<arr, front, rear, pipe, why, taken, session, handled, freed>>
  BY <1>0
<1>1. HandledInOrder' /\ Behind' /\ InOrder'
  BY <1>0 DEF HandledInOrder, Behind, InOrder
<1>2. Known' /\ Latest'
  <2> HIDE DEF Typed, TypeOK, Receive, Worker
  <2>a. ASSUME NEW x \in Nat, x <= set
        PROVE  x <= set' /\ x < set'
    BY <1>c, <1>d, <2>a
  <2>b. /\ taken < set' /\ taken <= set' /\ \A i \in Indices : arr[i] <= set'
        /\ \A k \in DOMAIN handled : handled[k] < set' /\ handled[k] <= set'
        /\ \A y \in freed : y < set' /\ y <= set'
    BY <1>0, <1>b, <1>c, <2>a DEF Known
  <2>1. Known'
    BY <1>0, <1>c, <1>d, <2>a, <2>b DEF Known
  <2>2. Latest'
    <3>1. set' # 0
      BY <1>c, <1>d
    <3>2. owner'[set'] = session'
      BY <1>a, <1>d
    <3>3. QED  BY <1>d, <2>b, <3>1, <3>2 DEF Latest
  <2>3. QED  BY <2>1, <2>2
<1>3. Fresh'
  <2> SUFFICES ASSUME NEW i \in Indices, Live(i)', arr[i] # NULL
               PROVE  Good(arr[i])'
    BY <1>0 DEF Fresh
  <2>1. arr[i] \in 1..set
    BY <1>0, <1>c DEF Known, NULL
  <2>2. Good(arr[i])
    BY <1>0, <1>d DEF Fresh
  <2> HIDE DEF Typed, TypeOK, Receive, Worker
  <2>3. arr[i] < set' /\ owner'[arr[i]] = session
    BY <1>a, <1>c, <1>d, <2>1, <2>2
  <2>4. QED  BY <1>d, <2>2, <2>3
<1>4. Room' /\ Stored'
  BY <1>0 DEF Room, Stored
<1>5. InHand'
  BY <1>0, <1>a, <1>b DEF InHand, Known, Sets, NULL
<1>6. QED
  BY <1>1, <1>2, <1>3, <1>4, <1>5 DEF IInv

\* The worker reads front_: the pipe can only make room after that.
LEMMA FullFrontKeeps ==
  ASSUME IInv, Typed', FullFront
  PROVE  IInv'
<1> USE DEF Typed, TypeOK, Worker, Pipe, Live, Good, Earlier, FullFront
<1>0. /\ Typed /\ HandledInOrder /\ Known /\ Behind /\ InOrder /\ Fresh
      /\ Latest /\ Room /\ Stored /\ InHand
  BY DEF IInv
<1>1. HandledInOrder' /\ Known' /\ Behind' /\ InOrder'
  BY <1>0 DEF HandledInOrder, Known, Behind, InOrder
<1>2. Fresh' /\ Latest'
  BY <1>0 DEF Fresh, Latest
<1>3. Room' /\ Stored' /\ InHand'
  BY <1>0 DEF Room, Stored, InHand
<1>4. QED
  BY <1>1, <1>2, <1>3 DEF IInv

\* The queue is not full: the place after rear_ is free.
LEMMA FullRearKeeps ==
  ASSUME IInv, Typed', FullRear
  PROVE  IInv'
<1> USE DEF Typed, TypeOK, Worker, Pipe, Live, Good, Earlier, FullRear
<1>0. /\ Typed /\ HandledInOrder /\ Known /\ Behind /\ InOrder /\ Fresh
      /\ Latest /\ Room /\ Stored /\ InHand
  BY DEF IInv
<1>1. HandledInOrder' /\ Known' /\ Behind' /\ InOrder'
  BY <1>0 DEF HandledInOrder, Known, Behind, InOrder
<1>2. Fresh' /\ Latest'
  BY <1>0 DEF Fresh, Latest
<1>3. Room' /\ Stored' /\ InHand'
  BY <1>0 DEF Room, Stored, InHand
<1>4. QED
  BY <1>1, <1>2, <1>3 DEF IInv

\* The place at rear_ is not live yet.
LEMMA StoreKeeps ==
  ASSUME IInv, Typed', Store
  PROVE  IInv'
<1> USE DEF Typed, TypeOK, Worker, Pipe, Live, Good, Earlier, Store
<1>0. /\ Typed /\ HandledInOrder /\ Known /\ Behind /\ InOrder /\ Fresh
      /\ Latest /\ Room /\ Stored /\ InHand
  BY DEF IInv
<1>a. arr'[rear] = set /\ \A i \in Indices : i # rear => arr'[i] = arr[i]
  BY <1>0
<1>1. HandledInOrder' /\ Known'
  BY <1>0 DEF HandledInOrder, Known
<1>2. Behind'
  BY <1>0, <1>a DEF Behind, Indices
<1>3. InOrder'
  BY <1>0, <1>a DEF InOrder, Indices
<1>4. Fresh'
  BY <1>0, <1>a DEF Fresh, Indices
<1>5. Latest' /\ Room'
  BY <1>0 DEF Latest, Room
<1>6. Stored' /\ InHand'
  BY <1>0, <1>a DEF Stored, InHand
<1>7. QED
  BY <1>1, <1>2, <1>3, <1>4, <1>5, <1>6 DEF IInv

\* The place the worker will pass is the one it wrote.
LEMMA ReadRearKeeps ==
  ASSUME IInv, Typed', ReadRear
  PROVE  IInv'
<1> USE DEF Typed, TypeOK, Worker, Pipe, Live, Good, Earlier, ReadRear
<1>0. /\ Typed /\ HandledInOrder /\ Known /\ Behind /\ InOrder /\ Fresh
      /\ Latest /\ Room /\ Stored /\ InHand
  BY DEF IInv
<1>1. HandledInOrder' /\ Known' /\ Behind' /\ InOrder'
  BY <1>0 DEF HandledInOrder, Known, Behind, InOrder
<1>2. Fresh' /\ Latest'
  BY <1>0 DEF Fresh, Latest
<1>3. Room' /\ Stored' /\ InHand'
  BY <1>0 DEF Room, Stored, InHand
<1>4. QED
  BY <1>1, <1>2, <1>3 DEF IInv

\* The set becomes live: it is the last in the queue.
LEMMA WriteRearKeeps ==
  ASSUME IInv, Typed', WriteRear
  PROVE  IInv'
<1> USE DEF Typed, TypeOK, Worker, Pipe, Live, Good, Earlier, WriteRear
<1>0. /\ Typed /\ HandledInOrder /\ Known /\ Behind /\ InOrder /\ Fresh
      /\ Latest /\ Room /\ Stored /\ InHand
  BY DEF IInv
<1>a. /\ After(seen.rear) = rear' /\ rear' = (IF seen.rear = Size - 1 THEN 0 ELSE seen.rear + 1)
      /\ worker' = "idle" /\ rear \in Indices /\ seen.rear \in Indices
  BY <1>0, AfterIs
<1>b. ASSUME seen.rear = rear, NEW i \in Indices, Live(i)', arr[i] # NULL
      PROVE  Live(i) \/ i = rear
  BY <1>0, <1>a, <1>b DEF Room, Behind, InHand, Indices
<1>c. ASSUME seen.rear # rear, NEW i \in Indices, Live(i)'
      PROVE  i <= seen.rear
  BY <1>0, <1>a, <1>c DEF Stored, Indices
<1>e. /\ worker = "write" /\ worker' = "idle"
      /\ UNCHANGED <<arr, front, set, owner, pipe, why, taken, session, handled, freed>>
  BY <1>0
<1>f. front \in Indices /\ rear' \in Indices
  BY <1>0
<1>1. HandledInOrder' /\ Known' /\ Latest'
  BY <1>0 DEF HandledInOrder, Known, Latest
<1>2. Behind'
  <2> SUFFICES ASSUME front <= rear', NEW i \in Indices, i < front
               PROVE  arr[i] = NULL
    BY <1>e DEF Behind
  <2> HIDE DEF Typed, TypeOK, WriteRear, Worker
  <2>1. CASE seen.rear = rear
    <3>1. front <= rear
      BY <1>0, <1>a, <1>e, <1>f, <2>1 DEF Room, InHand, Indices
    <3>2. QED  BY <1>0, <3>1 DEF Behind
  <2>2. CASE seen.rear # rear
    BY <1>0, <1>a, <1>e, <1>f, <2>2 DEF Stored, Indices
  <2>3. QED  BY <2>1, <2>2
<1>3. InOrder'
  <2> SUFFICES ASSUME NEW i \in Indices, NEW j \in Indices, Live(i)', Live(j)',
                      arr[i] # NULL, arr[j] # NULL, Earlier(i, j)'
               PROVE  arr[i] < arr[j]
    BY <1>e DEF InOrder
  <2> HIDE DEF Typed, TypeOK, WriteRear, Worker
  <2>1. CASE seen.rear = rear
    <3>1. (Live(i) \/ i = rear) /\ (Live(j) \/ j = rear)
      BY <1>b, <2>1
    <3>2. CASE j = rear
      <4>1. i # rear
        BY <1>a, <2>1, <3>2 DEF Indices
      <4>2. arr[rear] = set
        BY <1>0, <1>a, <1>e, <2>1, <3>1, <3>2, <4>1 DEF Stored, Indices
      <4>3. QED  BY <1>0, <1>e, <3>1, <3>2, <4>1, <4>2 DEF Fresh
    <3>3. CASE j # rear
      <4>1. i # rear /\ Earlier(i, j)
        BY <1>0, <1>a, <1>e, <2>1, <3>1, <3>3 DEF Room, Indices
      <4>2. QED  BY <1>0, <3>1, <3>3, <4>1 DEF InOrder
    <3>4. QED  BY <3>2, <3>3
  <2>2. CASE seen.rear # rear
    <3>1. i <= seen.rear /\ j <= seen.rear /\ i < j
      BY <1>0, <1>a, <1>c, <1>e, <2>2 DEF Stored, Indices
    <3>2. CASE j = seen.rear
      BY <1>0, <1>a, <1>e, <2>2, <3>1, <3>2 DEF Stored, Indices
    <3>3. CASE j # seen.rear
      BY <1>0, <1>a, <1>e, <2>2, <3>1, <3>3 DEF Stored, Indices
    <3>4. QED  BY <3>2, <3>3
  <2>3. QED  BY <2>1, <2>2
<1>4. Fresh'
  <2> SUFFICES ASSUME NEW i \in Indices, Live(i)', arr[i] # NULL
               PROVE  Good(arr[i])'
    BY <1>e DEF Fresh
  <2> HIDE DEF Typed, TypeOK, WriteRear, Worker
  <2>1. arr[i] = set \/ Good(arr[i])
    <3>1. CASE seen.rear = rear
      BY <1>0, <1>b, <1>e, <3>1 DEF Fresh, Stored
    <3>2. CASE seen.rear # rear
      BY <1>0, <1>a, <1>c, <1>e, <3>2 DEF Stored, Indices
    <3>3. QED  BY <3>1, <3>2
  <2>2. QED  BY <1>0, <1>e, <2>1 DEF Latest
<1>5. Room' /\ Stored' /\ InHand'
  BY <1>0, <1>a DEF Room, Stored, InHand
<1>6. QED
  BY <1>1, <1>2, <1>3, <1>4, <1>5 DEF IInv

\* The pipe looks whether the queue is empty.
LEMMA LookEmptyKeeps ==
  ASSUME IInv, Typed', LookEmpty
  PROVE  IInv'
<1> USE DEF Typed, TypeOK, Worker, Pipe, Live, Good, Earlier, LookEmpty
<1>0. /\ Typed /\ HandledInOrder /\ Known /\ Behind /\ InOrder /\ Fresh
      /\ Latest /\ Room /\ Stored /\ InHand
  BY DEF IInv
<1>1. HandledInOrder' /\ Known' /\ Behind' /\ InOrder'
  BY <1>0 DEF HandledInOrder, Known, Behind, InOrder
<1>2. Fresh' /\ Latest'
  BY <1>0 DEF Fresh, Latest
<1>3. Room' /\ Stored' /\ InHand'
  BY <1>0 DEF Room, Stored, InHand
<1>4. QED
  BY <1>1, <1>2, <1>3 DEF IInv

\* The set at front_ is the first of the queue.
LEMMA TakeSlotKeeps ==
  ASSUME IInv, Typed', TakeSlot
  PROVE  IInv'
<1> USE DEF Typed, TypeOK, Worker, Pipe, Live, Good, Earlier, TakeSlot
<1>0. /\ Typed /\ HandledInOrder /\ Known /\ Behind /\ InOrder /\ Fresh
      /\ Latest /\ Room /\ Stored /\ InHand
  BY DEF IInv
<1>1. HandledInOrder' /\ Known' /\ Behind' /\ InOrder'
  BY <1>0 DEF HandledInOrder, Known, Behind, InOrder
<1>2. Fresh' /\ Latest'
  BY <1>0 DEF Fresh, Latest
<1>3. Room' /\ Stored' /\ InHand'
  BY <1>0 DEF Room, Stored, InHand
<1>4. QED
  BY <1>1, <1>2, <1>3 DEF IInv

\* The set is taken out: all that is live comes after it.
LEMMA ClearSlotKeeps ==
  ASSUME IInv, Typed', ClearSlot
  PROVE  IInv'
<1> USE DEF Typed, TypeOK, Worker, Pipe, Live, Good, Earlier, ClearSlot
<1>0. /\ Typed /\ HandledInOrder /\ Known /\ Behind /\ InOrder /\ Fresh
      /\ Latest /\ Room /\ Stored /\ InHand
  BY DEF IInv
<1>a. arr'[front] = NULL /\ \A i \in Indices : i # front => arr'[i] = arr[i]
  BY <1>0
<1>b. \A i \in Indices : i # front /\ Live(i) /\ arr[i] # NULL => taken < arr[i]
  BY <1>0 DEF InHand, InOrder, Behind, Indices, Sets, NULL
<1>1. HandledInOrder' /\ Known' /\ Behind'
  BY <1>0, <1>a DEF HandledInOrder, Known, Behind, Indices, NULL
<1>2. InOrder'
  BY <1>0, <1>a DEF InOrder
<1>3. Fresh'
  BY <1>0, <1>a, <1>b DEF Fresh
<1>4. Latest' /\ Room'
  <2>1. Latest'
    <3>1. taken # NULL /\ worker # "idle" => taken < set
      BY <1>0 DEF Fresh, InHand, Indices
    <3>2. set \in Nat
      BY <1>0
    <3> HIDE DEF Typed, TypeOK
    <3>3. QED  BY <1>0, <3>1, <3>2 DEF Latest, NULL
  <2>2. Room'
    BY <1>0 DEF Room
  <2>3. QED  BY <2>1, <2>2
<1>5. Stored'
  BY <1>0, <1>a, <1>b DEF Stored, InHand
<1>6. InHand'
  BY <1>0, <1>a DEF InHand, Fresh, Indices
<1>7. QED
  BY <1>1, <1>2, <1>3, <1>4, <1>5, <1>6 DEF IInv

\* The place that was emptied is not live any more.
LEMMA AdvanceKeeps ==
  ASSUME IInv, Typed', Advance
  PROVE  IInv'
<1> USE DEF Typed, TypeOK, Worker, Pipe, Live, Good, Earlier, Advance
<1>0. /\ Typed /\ HandledInOrder /\ Known /\ Behind /\ InOrder /\ Fresh
      /\ Latest /\ Room /\ Stored /\ InHand
  BY DEF IInv
<1>a. /\ front' = (IF front = Size - 1 THEN 0 ELSE front + 1)
      /\ front \in Indices /\ rear \in Indices
  BY <1>0, AfterIs
<1>1. HandledInOrder' /\ Known' /\ Latest'
  BY <1>0 DEF HandledInOrder, Known, Latest
<1>2. Behind'
  BY <1>0, <1>a DEF Behind, InHand, Indices
<1>3. InOrder'
  BY <1>0, <1>a DEF InOrder, InHand, Indices
<1>4. Fresh'
  BY <1>0, <1>a DEF Fresh, InHand, Indices
<1>5. Room'
  <2>1. front # rear /\ pipe # "reset2"
    BY <1>0 DEF InHand
  <2>2. After(rear) # front'
    <3>1. After(rear) = IF rear = Size - 1 THEN 0 ELSE rear + 1
      BY <1>a, AfterIs
    <3>2. QED  BY <1>a, <2>1, <3>1 DEF Indices
  <2>3. QED  BY <1>0, <2>2 DEF Room
<1>6. Stored' /\ InHand'
  BY <1>0, <1>a DEF Stored, InHand, Indices
<1>7. QED
  BY <1>1, <1>2, <1>3, <1>4, <1>5, <1>6 DEF IInv

\* The set is handled after all others, or freed.
LEMMA UseKeeps ==
  ASSUME IInv, Typed', Use
  PROVE  IInv'
<1> USE DEF Typed, TypeOK, Worker, Pipe, Live, Good, Earlier, Use
<1>0. /\ Typed /\ HandledInOrder /\ Known /\ Behind /\ InOrder /\ Fresh
      /\ Latest /\ Room /\ Stored /\ InHand
  BY DEF IInv
<1>a. taken \in Nat /\ freed \subseteq Nat /\ \A k \in DOMAIN handled : handled[k] \in Nat
  BY <1>0 DEF Sets, NULL
<1>1. HandledInOrder'
  <2>1. CASE handled' = handled
    <3>1. freed' = freed \/ (freed' = freed \cup {taken} /\ taken # NULL)
      BY <1>0
    <3>2. taken # NULL => \A k \in DOMAIN handled : handled[k] # taken
      BY <1>0, <1>a DEF InHand
    <3>3. QED  BY <1>0, <2>1, <3>1, <3>2 DEF HandledInOrder
  <2>2. CASE why = "job" /\ taken # NULL
    <3>1. handled' = Append(handled, taken) /\ freed' = freed /\ taken \in Sets
      BY <1>0, <2>2
    <3>2. /\ DOMAIN handled' = 1..(Len(handled) + 1) /\ handled'[Len(handled) + 1] = taken
          /\ \A k \in 1..Len(handled) : handled'[k] = handled[k]
      BY <1>0, <3>1, AppendProperties
    <3>3. taken \notin freed /\ \A k \in DOMAIN handled : handled[k] < taken
      BY <1>0, <1>a, <2>2 DEF InHand
    <3>4. DOMAIN handled = 1..Len(handled) /\ Len(handled) \in Nat
      BY <1>0, LenProperties
    <3>5. \A i, j \in DOMAIN handled' : i < j => handled'[i] < handled'[j]
      BY <1>0, <3>2, <3>3, <3>4 DEF HandledInOrder
    <3>6. \A i \in DOMAIN handled' : handled'[i] \notin freed'
      BY <1>0, <3>1, <3>2, <3>3, <3>4 DEF HandledInOrder
    <3>7. QED  BY <3>5, <3>6 DEF HandledInOrder
  <2>3. QED  BY <2>1, <2>2
<1>2. Known' /\ Behind' /\ InOrder' /\ Fresh'
  BY <1>0 DEF Known, Behind, InOrder, Fresh
<1>3. Latest' /\ Room'
  BY <1>0 DEF Latest, Room
<1>4. Stored' /\ InHand'
  BY <1>0 DEF Stored, InHand
<1>5. QED
  BY <1>1, <1>2, <1>3, <1>4 DEF IInv

\* The live places are those before rear_ still.
LEMMA ResetFrontKeeps ==
  ASSUME IInv, Typed', ResetFront
  PROVE  IInv'
<1> USE DEF Typed, TypeOK, Worker, Pipe, Live, Good, Earlier, ResetFront
<1>0. /\ Typed /\ HandledInOrder /\ Known /\ Behind /\ InOrder /\ Fresh
      /\ Latest /\ Room /\ Stored /\ InHand
  BY DEF IInv
<1>1. HandledInOrder' /\ Known' /\ Latest'
  BY <1>0 DEF HandledInOrder, Known, Latest
<1>2. Behind' /\ InOrder'
  BY <1>0 DEF Behind, InOrder, Indices
<1>3. Fresh'
  BY <1>0 DEF Fresh, Indices
<1>4. Room' /\ Stored' /\ InHand'
  BY <1>0 DEF Room, Stored, InHand, Indices
<1>5. QED
  BY <1>1, <1>2, <1>3, <1>4 DEF IInv

\* Nothing is live after a Clear.
LEMMA ResetRearKeeps ==
  ASSUME IInv, Typed', ResetRear
  PROVE  IInv'
<1> USE DEF Typed, TypeOK, Worker, Pipe, Live, Good, Earlier, ResetRear
<1>0. /\ Typed /\ HandledInOrder /\ Known /\ Behind /\ InOrder /\ Fresh
      /\ Latest /\ Room /\ Stored /\ InHand
  BY DEF IInv
<1>1. HandledInOrder' /\ Known' /\ Behind'
  BY <1>0 DEF HandledInOrder, Known, Behind, InHand, Indices
<1>2. InOrder' /\ Fresh'
  BY <1>0 DEF InOrder, Fresh, InHand, Indices
<1>3. Latest' /\ Room'
  BY <1>0, AfterIs DEF Latest, Room, InHand, Indices
<1>4. Stored'
  BY <1>0 DEF Stored, Fresh, InOrder, InHand, Latest, Indices
<1>5. InHand'
  BY <1>0 DEF InHand
<1>6. QED
  BY <1>1, <1>2, <1>3, <1>4, <1>5 DEF IInv

\* A frame, a move or a destroy begins.
LEMMA BeginKeeps ==
  ASSUME NEW r \in {"job", "move", "destroy"},
         IInv, Typed', Begin(r)
  PROVE  IInv'
<1> USE DEF Typed, TypeOK, Worker, Pipe, Live, Good, Earlier, Begin
<1>0. /\ Typed /\ HandledInOrder /\ Known /\ Behind /\ InOrder /\ Fresh
      /\ Latest /\ Room /\ Stored /\ InHand
  BY DEF IInv
<1>1. HandledInOrder' /\ Known' /\ Behind' /\ InOrder'
  BY <1>0 DEF HandledInOrder, Known, Behind, InOrder
<1>2. Fresh' /\ Latest'
  BY <1>0 DEF Fresh, Latest
<1>3. Room' /\ Stored' /\ InHand'
  BY <1>0 DEF Room, Stored, InHand
<1>4. QED
  BY <1>1, <1>2, <1>3 DEF IInv

\* The invariant holds from the start, and every step keeps it.
LEMMA InvInit == Init => IInv
  BY TypeInit DEF Init, IInv, Typed, HandledInOrder, Known, Behind, InOrder, Fresh, Latest,
     Room, Stored, InHand, Live, Indices, Sets, NULL

\* One step for each action of Next.
LEMMA InvNext == IInv /\ [Next]_vars => IInv'
<1> SUFFICES ASSUME IInv, [Next]_vars
             PROVE  IInv'
  OBVIOUS
<1>1. Typed'
  BY TypedNext DEF IInv
<1>2. CASE Receive \/ WorkerStep
  BY <1>1, <1>2, ReceiveKeeps, FullFrontKeeps, FullRearKeeps, StoreKeeps, ReadRearKeeps,
     WriteRearKeeps DEF WorkerStep
<1>3. CASE PipeStep
  BY <1>1, <1>3, LookEmptyKeeps, TakeSlotKeeps, ClearSlotKeeps, AdvanceKeeps, UseKeeps,
     ResetFrontKeeps, ResetRearKeeps DEF PipeStep
<1>4. CASE \E r \in {"job", "move", "destroy"} : Begin(r)
  BY <1>1, <1>4, BeginKeeps
<1>5. CASE UNCHANGED vars
  BY <1>5 DEF vars, IInv, Typed, TypeOK, HandledInOrder, Known, Behind, InOrder, Fresh, Latest,
     Room, Stored, InHand, Live, Good, Earlier
<1>6. QED
  BY <1>2, <1>3, <1>4, <1>5 DEF Next

\* The ring's invariant holds in every state.
LEMMA InvHolds == Spec => []IInv
  BY InvInit, InvNext, PTL DEF Spec

\* Sets are handled in the order they were received, none twice, and none is handled and
\* freed, also where a Clear resets the indices under the worker (Queue.h:110-140).
THEOREM HandledInOrderTheorem == Spec => []HandledInOrder
<1>1. IInv => HandledInOrder
  BY DEF IInv
<1>2. QED
  BY <1>1, InvHolds, PTL

\* A pipe handles only sets of the session the slot belongs to, although the queue of the
\* slot is never deleted with a session (NetPipe.cpp:216).
THEOREM OwnSessionTheorem == Spec => []OwnSessionOnly
<1>1. IInv => OwnSessionOnly
  BY DEF IInv, InHand, OwnSessionOnly
<1>2. QED
  BY <1>1, InvHolds, PTL

-----------------------------------------------------------------------------
(***************************************************************************)
(* Where no user moves the ring is a queue.                                *)
(***************************************************************************)
\* Without a move the indices are reset by a destroy only, when the queue is empty and
\* no worker enqueues: the worker's steps are not disturbed.
Calm ==
  moves = 0 =>
    /\ why # "move"
    /\ pipe \in {"reset1", "reset2"} => why = "destroy"
    /\ pipe = "reset1" => front = rear
    /\ worker = "read" => arr[rear] = set
    /\ worker = "write" => seen.rear = rear /\ arr[rear] = set

\* The number of places from f up to r, and the n-th place from f.
Far(f, r)  == IF f <= r THEN r - f ELSE r - f + Size
Spot(f, n) == IF f + n - 1 < Size THEN f + n - 1 ELSE f + n - 1 - Size

\* How far r is behind f on the ring, without the remainder.
LEMMA FarIs ==
  ASSUME NEW f \in Indices, NEW r \in Indices
  PROVE  (r - f) % Size = Far(f, r) /\ Far(f, r) \in 0..(Size - 1)
<1>1. CASE f <= r
  BY <1>1 DEF Indices, Far
<1>2. CASE ~ (f <= r)
  BY <1>2 DEF Indices, Far
<1>3. QED  BY <1>1, <1>2

\* The n-th place from f, without the remainder.
LEMMA SpotIs ==
  ASSUME NEW f \in Indices, NEW n \in 1..Size
  PROVE  (f + n - 1) % Size = Spot(f, n) /\ Spot(f, n) \in Indices
<1>1. CASE f + n - 1 < Size
  BY <1>1 DEF Indices, Spot
<1>2. CASE ~ (f + n - 1 < Size)
  BY <1>2 DEF Indices, Spot
<1>3. QED  BY <1>1, <1>2

\* What is in the ring, from the front on.
Ring(a, f, r) == [i \in 1..((r - f) % Size) |-> a[(f + i - 1) % Size]]

\* The ring from f up to r, place by place.
LEMMA RingIs ==
  ASSUME NEW a \in [Indices -> Sets \cup {NULL}], NEW f \in Indices, NEW r \in Indices
  PROVE  /\ Ring(a, f, r) \in Seq(Sets \cup {NULL}) /\ Len(Ring(a, f, r)) = Far(f, r)
         /\ \A i \in 1..Far(f, r) : Ring(a, f, r)[i] = a[Spot(f, i)]
<1>1. Far(f, r) \in 0..(Size - 1) /\ (r - f) % Size = Far(f, r)
  BY FarIs
<1>2. ASSUME NEW i \in 1..Far(f, r)
      PROVE  (f + i - 1) % Size = Spot(f, i) /\ Spot(f, i) \in Indices
  BY <1>1, SpotIs
<1>3. Ring(a, f, r) = [i \in 1..Far(f, r) |-> a[Spot(f, i)]]
  BY <1>1, <1>2 DEF Ring
<1>4. Ring(a, f, r) \in [1..Far(f, r) -> Sets \cup {NULL}]
  BY <1>1, <1>2, <1>3
<1>5. QED  BY <1>1, <1>3, <1>4

\* Pending, place by place, before and after a step.
LEMMA PendingIs ==
  ASSUME TypeOK, TypeOK'
  PROVE  /\ Pending \in Seq(Sets \cup {NULL}) /\ Len(Pending) = Far(front, rear)
         /\ \A i \in 1..Far(front, rear) : Pending[i] = arr[Spot(front, i)]
         /\ Pending' \in Seq(Sets \cup {NULL}) /\ Len(Pending') = Far(front', rear')
         /\ \A i \in 1..Far(front', rear') : Pending'[i] = arr'[Spot(front', i)]
<1>1. Pending = Ring(arr, front, rear) /\ Pending' = Ring(arr', front', rear')
  BY DEF Pending, Ring
<1>2. /\ arr \in [Indices -> Sets \cup {NULL}] /\ front \in Indices /\ rear \in Indices
      /\ arr' \in [Indices -> Sets \cup {NULL}] /\ front' \in Indices /\ rear' \in Indices
  BY DEF TypeOK
<1>3. /\ Ring(arr, front, rear) \in Seq(Sets \cup {NULL})
      /\ Len(Ring(arr, front, rear)) = Far(front, rear)
      /\ \A i \in 1..Far(front, rear) : Ring(arr, front, rear)[i] = arr[Spot(front, i)]
  BY <1>2, RingIs, ZenonT(30)
<1>4. /\ Ring(arr', front', rear') \in Seq(Sets \cup {NULL})
      /\ Len(Ring(arr', front', rear')) = Far(front', rear')
      /\ \A i \in 1..Far(front', rear') : Ring(arr', front', rear')[i] = arr'[Spot(front', i)]
  BY <1>2, RingIs, ZenonT(30)
<1>5. QED  BY <1>1, <1>3, <1>4

\* No step disturbs the worker where no user moves.
LEMMA CalmNext == IInv /\ Calm /\ [Next]_vars => Calm'
<1> SUFFICES ASSUME IInv, Calm, [Next]_vars, moves = 0
             PROVE  Calm'
  BY DEF Next, WorkerStep, PipeStep, Receive, FullFront, FullRear, Store, ReadRear, WriteRear,
     LookEmpty, TakeSlot, ClearSlot, Advance, Use, ResetFront, ResetRear, Begin, Worker, Pipe,
     vars, Calm
<1> USE DEF Calm, IInv, Typed, TypeOK, Worker, Pipe
<1>1. CASE Receive \/ FullFront \/ FullRear
  BY <1>1 DEF Receive, FullFront, FullRear
<1>2. CASE Store \/ ReadRear \/ WriteRear
  BY <1>2 DEF Store, ReadRear, WriteRear, Latest
<1>3. CASE LookEmpty \/ TakeSlot \/ Use
  BY <1>3 DEF LookEmpty, TakeSlot, Use
<1>4. CASE ClearSlot
  BY <1>4 DEF ClearSlot, InHand
<1>5. CASE Advance
  BY <1>5 DEF Advance
<1>6. CASE ResetFront \/ ResetRear
  BY <1>6 DEF ResetFront, ResetRear, Latest
<1>7. ASSUME NEW r \in {"job", "move", "destroy"}, Begin(r)
      PROVE  Calm'
  BY <1>7 DEF Begin
<1>8. CASE UNCHANGED vars
  BY <1>8 DEF vars
<1>9. QED
  BY <1>1, <1>2, <1>3, <1>4, <1>5, <1>6, <1>7, <1>8 DEF Next, WorkerStep, PipeStep

\* Storing a set at rear_ does not change what is in the queue; passing it puts it last.
LEMMA StorePending ==
  ASSUME TypeOK, TypeOK', Store
  PROVE  Pending' = Pending
<1>1. /\ front \in Indices /\ rear \in Indices /\ front' = front /\ rear' = rear
      /\ \A i \in Indices : i # rear => arr'[i] = arr[i]
  BY DEF TypeOK, Store
<1>2. ASSUME NEW i \in 1..Far(front, rear)
      PROVE  arr'[Spot(front, i)] = arr[Spot(front, i)]
  BY <1>1, <1>2 DEF Far, Spot, Indices
<1>3. Pending' = Pending
  <2>1. /\ Pending \in Seq(Sets \cup {NULL}) /\ Pending' \in Seq(Sets \cup {NULL})
        /\ Len(Pending') = Len(Pending)
        /\ \A i \in 1..Len(Pending) : Pending'[i] = Pending[i]
    BY <1>1, <1>2, PendingIs
  <2>2. QED  BY <2>1, SeqEqual
<1>4. QED  BY <1>3

\* Moving rear_ on puts the set behind what waits.
LEMMA WriteRearPending ==
  ASSUME TypeOK, TypeOK', WriteRear, seen.rear = rear, arr[rear] = set, set \in Sets,
         After(rear) # front
  PROVE  Pending' = Append(Pending, set)
<1>1. /\ front \in Indices /\ rear \in Indices /\ front' = front /\ arr' = arr
      /\ rear' = IF rear = Size - 1 THEN 0 ELSE rear + 1
  BY AfterIs DEF TypeOK, WriteRear
<1>2. rear' # front
  BY DEF WriteRear
<1>3. /\ Far(front, rear') = Far(front, rear) + 1 /\ Far(front, rear) \in Nat
      /\ Spot(front, Far(front, rear) + 1) = rear
  BY <1>1, <1>2 DEF Far, Spot, Indices
<1>4. /\ Append(Pending, set) \in Seq(Sets \cup {NULL}) /\ Pending' \in Seq(Sets \cup {NULL})
      /\ Len(Pending') = Far(front, rear) + 1
      /\ Len(Append(Pending, set)) = Far(front, rear) + 1
  BY <1>1, <1>3, PendingIs, AppendProperties
<1>5. ASSUME NEW i \in 1..(Far(front, rear) + 1)
      PROVE  Pending'[i] = Append(Pending, set)[i]
  <2>1. Pending'[i] = arr[Spot(front, i)]
    BY <1>1, <1>3, PendingIs
  <2>2. CASE i = Far(front, rear) + 1
    BY <1>3, <2>1, <2>2, PendingIs, AppendProperties
  <2>3. CASE i # Far(front, rear) + 1
    <3>1. i \in 1..Far(front, rear)
      BY <1>3, <2>3
    <3>2. QED  BY <1>3, <2>1, <3>1, PendingIs, AppendProperties
  <2>4. QED  BY <2>2, <2>3
<1>6. QED  BY <1>4, <1>5, SeqEqual

\* Taking the set out of its place does not change what follows it, and passing the place
\* leaves what followed.
LEMMA ClearSlotPending ==
  ASSUME TypeOK, TypeOK', ClearSlot, front # rear, taken = arr[front]
  PROVE  /\ Pending # <<>> /\ Pending' # <<>>
         /\ Pending = <<taken>> \o Tail(Pending')
<1>1. /\ front \in Indices /\ rear \in Indices /\ front' = front /\ rear' = rear
      /\ \A i \in Indices : i # front => arr'[i] = arr[i]
  BY DEF TypeOK, ClearSlot
<1>2. Far(front, rear) \in Nat /\ Far(front, rear) > 0 /\ Spot(front, 1) = front
  BY <1>1 DEF Far, Spot, Indices
<1>3. ASSUME NEW i \in 2..Far(front, rear)
      PROVE  arr'[Spot(front, i)] = arr[Spot(front, i)]
  BY <1>1 DEF Far, Spot, Indices
<1>4. /\ Pending \in Seq(Sets \cup {NULL}) /\ Pending' \in Seq(Sets \cup {NULL})
      /\ Len(Pending) = Far(front, rear) /\ Len(Pending') = Far(front, rear)
      /\ \A i \in 1..Far(front, rear) : Pending[i] = arr[Spot(front, i)]
      /\ \A i \in 1..Far(front, rear) : Pending'[i] = arr'[Spot(front, i)]
  BY <1>1, PendingIs
<1>5. Pending # <<>> /\ Pending' # <<>>
  BY <1>2, <1>4
<1>6. /\ Tail(Pending') \in Seq(Sets \cup {NULL}) /\ Len(Tail(Pending')) = Far(front, rear) - 1
      /\ \A i \in 1..(Far(front, rear) - 1) : Tail(Pending')[i] = Pending'[i + 1]
  BY <1>2, <1>4, <1>5, HeadTailProperties
<1>7. <<taken>> \in Seq(Sets \cup {NULL}) /\ Len(<<taken>>) = 1 /\ <<taken>>[1] = taken
  BY DEF TypeOK
<1>8. /\ <<taken>> \o Tail(Pending') \in Seq(Sets \cup {NULL})
      /\ Len(<<taken>> \o Tail(Pending')) = Far(front, rear)
      /\ (<<taken>> \o Tail(Pending'))[1] = taken
      /\ \A i \in 2..Far(front, rear) : (<<taken>> \o Tail(Pending'))[i] = Pending'[i]
  BY <1>2, <1>6, <1>7, ConcatProperties
<1>9. ASSUME NEW i \in 1..Far(front, rear)
      PROVE  Pending[i] = (<<taken>> \o Tail(Pending'))[i]
  BY <1>2, <1>3, <1>4, <1>8
<1>10. QED  BY <1>4, <1>5, <1>8, <1>9, SeqEqual

\* Moving front_ on takes away the first that waits.
LEMMA AdvancePending ==
  ASSUME TypeOK, TypeOK', Advance, front # rear
  PROVE  Pending # <<>> /\ Pending' = Tail(Pending)
<1>1. /\ front \in Indices /\ rear \in Indices /\ rear' = rear /\ arr' = arr
      /\ front' = (IF front = Size - 1 THEN 0 ELSE front + 1)
  BY AfterIs DEF TypeOK, Advance
<1>2. /\ Far(front', rear) = Far(front, rear) - 1 /\ Far(front', rear) \in Nat
      /\ \A i \in 1..Far(front', rear) : Spot(front', i) = Spot(front, i + 1)
  BY <1>1 DEF Far, Spot, Indices
<1>3. /\ Pending \in Seq(Sets \cup {NULL}) /\ Pending' \in Seq(Sets \cup {NULL})
      /\ Len(Pending) = Far(front, rear) /\ Len(Pending') = Far(front', rear)
      /\ \A i \in 1..Far(front, rear) : Pending[i] = arr[Spot(front, i)]
      /\ \A i \in 1..Far(front', rear) : Pending'[i] = arr[Spot(front', i)]
  BY <1>1, PendingIs
<1>4. Pending # <<>>
  BY <1>2, <1>3
<1>5. /\ Tail(Pending) \in Seq(Sets \cup {NULL}) /\ Len(Tail(Pending)) = Far(front', rear)
      /\ \A i \in 1..Far(front', rear) : Tail(Pending)[i] = Pending[i + 1]
  BY <1>2, <1>3, <1>4, HeadTailProperties
<1>6. ASSUME NEW i \in 1..Far(front', rear)
      PROVE  Pending'[i] = Tail(Pending)[i]
  BY <1>2, <1>3, <1>5
<1>7. QED  BY <1>3, <1>4, <1>5, <1>6, SeqEqual

\* A queue in which the next place is taken is full, one in which it is not has room.
LEMMA FullIs ==
  ASSUME NEW f \in Indices, NEW r \in Indices
  PROVE  /\ After(r) = f <=> Far(f, r) = Size - 1
         /\ Far(f, r) < Size - 1 \/ Far(f, r) = Size - 1
<1>1. After(r) = (IF r = Size - 1 THEN 0 ELSE r + 1)
  BY AfterIs
<1>2. QED  BY <1>1 DEF Far, Indices

\* Between equal indices there is nothing.
LEMMA NothingPending ==
  ASSUME TypeOK, TypeOK'
  PROVE  /\ front = rear => Pending = <<>>
         /\ front' = rear' => Pending' = <<>>
<1>1. ASSUME NEW i \in Indices
      PROVE  Far(i, i) = 0
  BY DEF Far, Indices
<1>2. front = rear => Far(front, rear) = 0
  BY <1>1 DEF TypeOK
<1>3. front' = rear' => Far(front', rear') = 0
  BY <1>1 DEF TypeOK
<1>4. QED  BY <1>2, <1>3, PendingIs

\* What the pipe has in its hands but has not passed counts as waiting.
LEMMA WaitingIs ==
  ASSUME TypeOK, TypeOK', moves = 0, pipe # "reset2", IInv
  PROVE  /\ Len(waiting) = Far(front, rear) /\ Pending \in Seq(Sets \cup {NULL})
         /\ pipe = "advance" => Pending # <<>>
<1>1. /\ Pending \in Seq(Sets \cup {NULL}) /\ Len(Pending) = Far(front, rear)
      /\ taken \in Sets \cup {NULL}
  BY PendingIs DEF TypeOK
<1>2. CASE pipe # "advance"
  BY <1>1, <1>2 DEF waiting
<1>3. CASE pipe = "advance"
  <2>1. front # rear
    BY <1>3 DEF IInv, InHand
  <2>2. Far(front, rear) # 0
    BY <2>1 DEF Far, TypeOK, Indices
  <2>3. Pending # <<>>
    BY <1>1, <2>2
  <2>4. Tail(Pending) \in Seq(Sets \cup {NULL}) /\ Len(Tail(Pending)) = Len(Pending) - 1
    BY <1>1, <2>3, HeadTailProperties
  <2>5. Len(<<taken>> \o Tail(Pending)) = 1 + Len(Tail(Pending))
    BY <1>1, <2>4, ConcatProperties
  <2>6. Len(Pending) \in Nat
    BY <1>1, LenProperties
  <2>7. waiting = <<taken>> \o Tail(Pending)
    BY <1>3 DEF waiting
  <2>8. QED  BY <1>1, <2>3, <2>4, <2>5, <2>6, <2>7
<1>4. QED  BY <1>2, <1>3

\* A sequence whose head is replaced grows and shrinks like the sequence.
LEMMA FirstOut ==
  ASSUME NEW S, NEW e \in S, NEW s \in Seq(S), s # <<>>
  PROVE  <<e>> \o Tail(s) # <<>> /\ Tail(<<e>> \o Tail(s)) = Tail(s)
<1>1. Tail(s) \in Seq(S)
  BY HeadTailProperties
<1>2. QED  BY <1>1

\* Behind a first element that is still counted another one is appended.
LEMMA LastIn ==
  ASSUME NEW S, NEW e \in S, NEW x \in S, NEW s \in Seq(S), s # <<>>
  PROVE  <<e>> \o Tail(Append(s, x)) = Append(<<e>> \o Tail(s), x)
<1>1. Tail(s) \in Seq(S) /\ Tail(Append(s, x)) = Append(Tail(s), x)
  BY HeadTailProperties, AppendProperties
<1>2. QED  BY <1>1

\* The ring is empty at first.
LEMMA QueueInit == Init => Queue!Init
<1> SUFFICES ASSUME Init PROVE Queue!Init
  OBVIOUS
<1>1. Pending = <<>>
  <2>1. rear = 0 /\ front = 0 /\ 0 \in Indices
    BY DEF Init, Indices
  <2>2. (rear - front) % Size = 0
    BY <2>1, FarIs DEF Far
  <2>3. QED  BY <2>2 DEF Pending
<1>2. waiting = <<>>
  BY <1>1 DEF waiting, Init
<1>3. refused = FALSE
  BY DEF refused, Init
<1>4. QED  BY <1>2, <1>3 DEF Queue!Init

\* Every step of the worker or the pipe puts one set in, takes one out, is refused
\* because the queue is full, or changes nothing of the queue.
LEMMA QueueNext ==
  ASSUME IInv, IInv', Calm, Calm', [Next]_vars
  PROVE  [Queue!Next]_<<waiting, refused>>
<1> USE DEF Worker, Pipe
<1>1. CASE moves # 0
  <2>1. moves' = moves /\ moves \in Nat
    BY DEF IInv, Typed, TypeOK, Next, WorkerStep, PipeStep, Receive, FullFront, FullRear, Store,
       ReadRear, WriteRear, LookEmpty, TakeSlot, ClearSlot, Advance, Use, ResetFront, ResetRear,
       Begin, vars
  <2>2. UNCHANGED <<waiting, refused>>
    BY <1>1, <2>1 DEF waiting, refused
  <2>3. QED  BY <2>2
<1>2. CASE moves = 0
  <2>0. /\ TypeOK /\ TypeOK' /\ moves' = 0
        /\ front \in Indices /\ rear \in Indices /\ seen.front \in Indices
    BY <1>2 DEF IInv, Typed, TypeOK, Next, WorkerStep, PipeStep, Receive, FullFront, FullRear,
       Store, ReadRear, WriteRear, LookEmpty, TakeSlot, ClearSlot, Advance, Use, ResetFront,
       ResetRear, Begin, vars
  <2>1. CASE Receive \/ ReadRear
    BY <2>0, <2>1 DEF Receive, ReadRear, waiting, refused, Pending
  <2>2. CASE FullFront
    <3>1. waiting' = waiting /\ refused = FALSE
      BY <2>2 DEF FullFront, waiting, refused, Pending
    <3>2. seen'.front = front /\ worker' = "full2" /\ rear' = rear
      BY <2>2 DEF FullFront, TypeOK, IInv, Typed
    <3>3. CASE After(rear) # front
      <4>1. refused' = FALSE
        BY <3>2, <3>3 DEF refused
      <4>2. QED  BY <3>1, <4>1
    <3>4. CASE After(rear) = front
      <4>1. refused' = TRUE
        BY <1>2, <2>0, <3>2, <3>4 DEF refused
      <4>2. Len(waiting) = Size - 1
        <5>1. pipe # "reset2"
          BY <1>2, <2>2 DEF Calm, IInv, Latest, FullFront
        <5>2. QED  BY <1>2, <2>0, <3>4, <5>1, WaitingIs, FullIs
      <4>3. QED  BY <3>1, <4>1, <4>2 DEF Queue!Next, Queue!Refuse
    <3>5. QED  BY <3>3, <3>4
  <2>3. CASE FullRear
    BY <2>3 DEF FullRear, waiting, refused, Pending
  <2>4. CASE Store
    <3>1. Pending' = Pending
      BY <2>0, <2>4, StorePending
    <3>2. QED  BY <2>4, <3>1 DEF Store, waiting, refused
  <2>5. CASE WriteRear
    <3>1. /\ seen.rear = rear /\ arr[rear] = set /\ pipe # "reset2" /\ set \in Sets
          /\ After(rear) # front
      BY <1>2, <2>5 DEF WriteRear, Calm, IInv, Latest, Room, Typed, TypeOK, Sets
    <3>2. Pending' = Append(Pending, set)
      BY <2>0, <2>5, <3>1, WriteRearPending
    <3>3. Len(waiting) < Size - 1
      BY <1>2, <2>0, <3>1, WaitingIs, FullIs
    <3>4. waiting' = Append(waiting, set)
      <4>1. CASE pipe # "advance"
        BY <1>2, <2>0, <2>5, <3>1, <3>2, <4>1 DEF WriteRear, waiting
      <4>2. CASE pipe = "advance"
        <5>1. /\ waiting = <<taken>> \o Tail(Pending)
              /\ waiting' = <<taken>> \o Tail(Append(Pending, set))
          BY <1>2, <2>0, <2>5, <3>2, <4>2 DEF WriteRear, waiting
        <5>2. Pending # <<>> /\ Pending \in Seq(Sets \cup {NULL})
          BY <1>2, <2>0, <3>1, <4>2, WaitingIs
        <5>3. taken \in Sets \cup {NULL} /\ set \in Sets \cup {NULL}
          BY <2>0, <3>1 DEF TypeOK
        <5>4. <<taken>> \o Tail(Append(Pending, set)) = Append(<<taken>> \o Tail(Pending), set)
          BY <5>2, <5>3, LastIn, SMTT(30)
        <5>5. QED  BY <5>1, <5>4
      <4>3. QED  BY <4>1, <4>2
    <3>5. refused' = refused
      <4>1. refused = FALSE /\ refused' = FALSE
        BY <2>5 DEF WriteRear, refused
      <4>2. QED  BY <4>1
    <3>6. QED  BY <3>1, <3>3, <3>4, <3>5 DEF Queue!Next, Queue!Put
  <2>6. CASE LookEmpty \/ TakeSlot \/ Use
    BY <2>6 DEF LookEmpty, TakeSlot, Use, waiting, refused, Pending
  <2>7. CASE ClearSlot
    <3>1. front # rear /\ taken = arr[front] /\ pipe = "null" /\ pipe' = "advance"
      BY <2>7 DEF ClearSlot, IInv, InHand
    <3>2. Pending = <<taken>> \o Tail(Pending')
      BY <2>0, <2>7, <3>1, ClearSlotPending
    <3>3. waiting' = waiting
      BY <1>2, <2>0, <2>7, <3>1, <3>2 DEF ClearSlot, waiting
    <3>4. QED  BY <2>7, <3>3 DEF ClearSlot, refused
  <2>8. CASE Advance
    <3>1. front # rear /\ pipe = "advance" /\ pipe' = "use"
      BY <2>8 DEF Advance, IInv, InHand
    <3>2. Pending # <<>> /\ Pending' = Tail(Pending) /\ Pending \in Seq(Sets \cup {NULL})
      BY <2>0, <2>8, <3>1, AdvancePending, PendingIs
    <3>3. waiting = <<taken>> \o Tail(Pending) /\ waiting' = Tail(Pending)
      BY <1>2, <2>0, <3>1, <3>2 DEF waiting
    <3>4. taken \in Sets \cup {NULL}
      BY <2>0 DEF TypeOK
    <3>5. waiting # <<>> /\ waiting' = Tail(waiting)
      BY <3>2, <3>3, <3>4, FirstOut
    <3>6. refused' = refused
      BY <2>8 DEF Advance, refused
    <3>7. QED  BY <3>5, <3>6 DEF Queue!Next, Queue!Take
  <2>9. CASE ResetFront
    <3>1. front = rear /\ pipe = "reset1" /\ pipe' = "reset2"
      BY <1>2, <2>9 DEF ResetFront, Calm
    <3>2. Pending = <<>>
      BY <2>0, <3>1, NothingPending
    <3>3. waiting = <<>> /\ waiting' = <<>>
      BY <3>1, <3>2 DEF waiting
    <3>4. refused' = refused
      BY <1>2, <2>9 DEF ResetFront, refused, IInv, Calm, Latest
    <3>5. QED  BY <3>3, <3>4
  <2>10. CASE ResetRear
    <3>1. front' = 0 /\ rear' = 0 /\ pipe = "reset2" /\ pipe' = "idle"
      BY <1>2, <2>10 DEF ResetRear, IInv, InHand
    <3>2. Pending' = <<>>
      BY <2>0, <3>1, NothingPending
    <3>3. waiting = <<>> /\ waiting' = <<>>
      BY <3>1, <3>2 DEF waiting
    <3>4. refused = FALSE /\ refused' = FALSE
      BY <1>2, <2>10 DEF ResetRear, refused, IInv, Calm, Latest
    <3>5. QED  BY <3>3, <3>4
  <2>11. ASSUME NEW r \in {"job", "move", "destroy"}, Begin(r)
         PROVE  UNCHANGED <<waiting, refused>>
    BY <2>11 DEF Begin, waiting, refused, Pending
  <2>12. CASE UNCHANGED vars
    BY <2>12 DEF vars, waiting, refused, Pending
  <2>13. QED
    BY <2>1, <2>2, <2>3, <2>4, <2>5, <2>6, <2>7, <2>8, <2>9, <2>10, <2>11, <2>12
       DEF Next, WorkerStep, PipeStep
<1>3. QED  BY <1>1, <1>2

\* Where no user moves the ring is a queue of Size - 1 places: what the worker puts in comes
\* out once, in order, and only a full queue refuses.
THEOREM FifoTheorem == Spec => ImplementsFifo
<1>1. Init => Calm
  BY DEF Init, Calm
<1>2. Spec => [](IInv /\ Calm)
  BY <1>1, InvHolds, CalmNext, PTL DEF Spec
<1>3. QED
  BY <1>2, QueueInit, QueueNext, PTL DEF Spec, ImplementsFifo, Queue!Spec

-----------------------------------------------------------------------------
(***************************************************************************)
(* The send queue loses nothing and keeps the order, for any number of     *)
(* producers, nodes and items, until an item is linked late.               *)
(*                                                                         *)
(* The argument: until then the pointers by which nodes are in the queue   *)
(* have stamps that count up (Path), so a stamp names one pointer for      *)
(* good: an enqueuer that compares tail_ with what it read is never        *)
(* fooled, and moves it on only from a node to the one linked behind it    *)
(* (Seen).  tail_ is never more than one behind, and not on the node that  *)
(* Dequeue frees (TailIsNear).  Only the last node and those that are not  *)
(* linked yet point to the queue itself (Ends), so every Link is behind    *)
(* one of them.                                                            *)
(***************************************************************************)

Pointers     == [addr : Int, stamp : Nat]
NodePointers == [addr : Nodes, stamp : Nat]

\* Between the look at tail_ and the attempt to move it; with a node of its own that is not
\* linked; inside Enqueue with an item that is not linked, and with one that is.
Looking   == {"next", "link", "help", "advance"}
Unlinking == {"tail", "next", "link", "help"}
Bringing  == {"alloc"} \cup Unlinking
Brought   == {"advance", "size"}

SendQTypeOK ==
  /\ next \in [Nodes -> Pointers] /\ data \in [Nodes -> Items \cup {NoItem}]
  /\ tail \in NodePointers /\ head \in NodePointers /\ size \in Int
  /\ free \in SUBSET Nodes /\ used \in Nodes /\ foreign \in SUBSET Nodes /\ foreignTaken \in Nat
  /\ pc \in [Producers -> {"idle"} \cup Bringing \cup Brought]
  /\ newNode \in [Producers -> Nodes \cup {0}]
  /\ localTail \in [Producers -> Pointers] /\ localNext \in [Producers -> Pointers]
  /\ item \in [Producers -> Items \cup {NoItem}] /\ begun \in 0..MaxItems
  /\ consumer \in {"idle", "undo", "look", "tail", "take"} /\ found \in Pointers
  /\ done \in SUBSET Items /\ before \in [Items -> SUBSET Items]
  /\ order \in Seq(Items) /\ out \in Seq(Items) /\ chain \in Seq(NodePointers)

\* The stamps of the queue's nodes count up.
Stamps ==
  /\ Len(chain) \in Nat \ {0}
  /\ \A k \in 1..Len(chain) : chain[k].stamp = head.stamp + k - 1

\* The nodes hang together.
Path ==
  /\ head = chain[1] /\ next[Last.addr] = Pointer(This, 0)
  /\ \A k \in 1..(Len(chain) - 1) : next[chain[k].addr] = chain[k + 1]

\* tail_ is on the last node or the one before, and Dequeue does not free it.
TailIsNear ==
  /\ tail = Last \/ (Len(chain) > 1 /\ tail = chain[Len(chain) - 1])
  /\ consumer \in {"tail", "take"} => Len(chain) > 1 /\ found = chain[2]
  /\ consumer = "take" => tail # head

\* What is not linked yet belongs to one producer.
PrivateNodes ==
  \A p \in Producers : pc[p] \in Unlinking =>
    /\ newNode[p] \in Nodes \ (free \cup foreign)
    /\ next[newNode[p]] = Pointer(This, 0) /\ data[newNode[p]] = item[p]
    /\ \A q \in Producers : pc[q] \in Unlinking /\ newNode[q] = newNode[p] => q = p

\* Only the last node and private ones point to this queue.
Ends == \A n \in Nodes : next[n].addr = This => n = Last.addr \/ n \in Private

\* What the pool never handed out is nowhere.
Unused ==
  /\ free \cap foreign = {}
  /\ \A n \in Nodes : n > used =>
       /\ n \notin free \cup foreign \cup Private /\ next[n] = NoPointer
       /\ \A k \in 1..Len(chain) : chain[k].addr # n

\* What an enqueuer saw of tail_ is a pointer of the queue or an old one, and what it would
\* move tail_ to is the next pointer.
Seen ==
  \A p \in Producers : pc[p] \in Looking =>
    /\ localTail[p] \in NodePointers /\ localTail[p].stamp <= tail.stamp
    /\ pc[p] = "link" => localNext[p].addr = This
    /\ pc[p] = "advance" => newNode[p] \in Nodes
    /\ \A k \in 1..Len(chain) : chain[k].stamp = localTail[p].stamp =>
         /\ chain[k] = localTail[p]
         /\ pc[p] = "help" => k < Len(chain) /\ localNext[p] = chain[k + 1]
         /\ pc[p] = "advance" => k < Len(chain) /\ StampedNew(p) = chain[k + 1]

\* What was linked has left or is in the queue.
Content ==
  /\ Len(order) = Len(out) + Len(chain) - 1
  /\ \A k \in 1..Len(out) : out[k] = order[k]
  /\ \A k \in 1..(Len(chain) - 1) : data[chain[k + 1].addr] = order[Len(out) + k]

\* An item is linked by one Enqueue, once.
ItemOnce ==
  /\ \A k \in 1..Len(order) : order[k] <= begun
  /\ \A p \in Producers :
       /\ pc[p] # "idle" => item[p] \in 1..begun
       /\ pc[p] \in Bringing => \A k \in 1..Len(order) : order[k] # item[p]
       /\ pc[p] \in Brought => \E k \in 1..Len(order) : order[k] = item[p]
       /\ \A q \in Producers : pc[p] # "idle" /\ pc[q] # "idle" /\ item[p] = item[q] => p = q
  /\ \A j, k \in 1..Len(order) : order[j] = order[k] => j = k

\* What was done when an Enqueue began was linked before its item.
Before ==
  /\ \A i \in done : \E k \in 1..Len(order) : order[k] = i
  /\ \A i \in Items : before[i] \subseteq done
  /\ \A k \in 1..Len(order) : \A i \in before[order[k]] : \E j \in 1..(k - 1) : order[j] = i

Sound ==
  /\ Stamps /\ Path /\ TailIsNear /\ Owned /\ PrivateNodes /\ Ends /\ Unused
  /\ Seen /\ Content /\ ItemOnce /\ Before

SendQGood == SendQTypeOK /\ Sound

SendQInv == late \in BOOLEAN /\ (~late => SendQGood)

USE QueueAssumption

\* A place in the queue, and the last one.
LEMMA ChainPlaces ==
  ASSUME SendQTypeOK, Stamps
  PROVE  /\ \A k \in 1..Len(chain) : chain[k] \in NodePointers
         /\ Len(chain) \in 1..Len(chain) /\ 1 \in 1..Len(chain) /\ Last \in NodePointers
<1>1. chain \in Seq(NodePointers) /\ Len(chain) \in Nat \ {0}
  BY DEF SendQTypeOK, Stamps
<1>2. \A k \in 1..Len(chain) : chain[k] \in NodePointers
  BY <1>1, ElementOfSeq
<1>3. Len(chain) \in 1..Len(chain) /\ 1 \in 1..Len(chain)
  BY <1>1
<1>4. QED  BY <1>2, <1>3 DEF Last

\* What one more node does to the queue.
LEMMA ChainAppend ==
  ASSUME SendQTypeOK, Stamps, NEW x \in NodePointers, chain' = Append(chain, x)
  PROVE  /\ chain' \in Seq(NodePointers) /\ Len(chain') = Len(chain) + 1 /\ Last' = x
         /\ chain'[Len(chain) + 1] = x
         /\ \A k \in 1..Len(chain) : chain'[k] = chain[k]
  BY AppendProperties DEF SendQTypeOK, Stamps, Last

\* And one less.
LEMMA ChainTail ==
  ASSUME SendQTypeOK, Stamps, Len(chain) > 1, chain' = Tail(chain)
  PROVE  /\ chain' \in Seq(NodePointers) /\ Len(chain') = Len(chain) - 1 /\ Last' = Last
         /\ \A k \in 1..(Len(chain) - 1) : chain'[k] = chain[k + 1]
<1>1. chain \in Seq(NodePointers) /\ chain # <<>> /\ Len(chain) \in Nat
  BY EmptySeq DEF SendQTypeOK, Stamps
<1>2. /\ chain' \in Seq(NodePointers) /\ Len(chain') = Len(chain) - 1
      /\ \A k \in 1..(Len(chain) - 1) : chain'[k] = chain[k + 1]
  BY <1>1, HeadTailProperties
<1>3. Len(chain) - 1 \in 1..(Len(chain) - 1) /\ (Len(chain) - 1) + 1 = Len(chain)
  BY <1>1
<1>4. QED  BY <1>2, <1>3 DEF Last

\* A node stays where it is when an enqueuer only looks.
LEMMA SamePrivate ==
  ASSUME SendQTypeOK, NEW p \in Producers, NEW to \in Unlinking, pc[p] \in Unlinking,
         pc' = [pc EXCEPT ![p] = to], newNode' = newNode
  PROVE  Private' = Private /\ \A q \in Producers : pc'[q] \in Unlinking <=> pc[q] \in Unlinking
<1>1. \A q \in Producers : pc'[q] = IF q = p THEN to ELSE pc[q]
  BY DEF SendQTypeOK
<1>2. \A q \in Producers : pc'[q] \in Unlinking <=> pc[q] \in Unlinking
  BY <1>1
<1>3. Private = {newNode[q] : q \in {r \in Producers : pc[r] \in Unlinking}}
  BY DEF Private, Unlinking
<1>4. Private' = {newNode[q] : q \in {r \in Producers : pc'[r] \in Unlinking}}
  BY DEF Private, Unlinking
<1>5. QED  BY <1>2, <1>3, <1>4

\* Initially the queue has one node, which holds no item.
LEMMA SendQInvInit == SendQInit => SendQInv
<1> SUFFICES ASSUME SendQInit PROVE SendQGood /\ late = FALSE
  BY DEF SendQInv
<1>1. 1 \in Nodes /\ Pointer(1, 0) \in NodePointers /\ NoPointer \in Pointers
      /\ Pointer(This, 0) \in Pointers
  BY DEF Nodes, Pointer, NodePointers, NoPointer, Pointers, This
<1>2. chain = <<Pointer(1, 0)>> /\ Len(chain) = 1 /\ chain[1] = Pointer(1, 0)
      /\ chain \in Seq(NodePointers) /\ Last = Pointer(1, 0)
  BY <1>1 DEF SendQInit, Last
<1>3. order = <<>> /\ out = <<>> /\ Len(order) = 0 /\ Len(out) = 0
      /\ order \in Seq(Items) /\ out \in Seq(Items)
  BY DEF SendQInit
<1>4. Pointer(1, 0).addr = 1 /\ Pointer(1, 0).stamp = 0
  BY DEF Pointer
<1>5. \A p \in Producers : pc[p] = "idle"
  BY DEF SendQInit
<1>6. Private = {}
  BY <1>5 DEF Private
<1>7. SendQTypeOK
  <2>1. /\ next \in [Nodes -> Pointers] /\ data \in [Nodes -> Items \cup {NoItem}]
        /\ tail \in NodePointers /\ head \in NodePointers /\ size \in Int
    BY <1>1 DEF SendQInit
  <2>2. /\ free \in SUBSET Nodes /\ used \in Nodes
        /\ foreign \in SUBSET Nodes /\ foreignTaken \in Nat
        /\ pc \in [Producers -> {"idle"} \cup Bringing \cup Brought]
        /\ newNode \in [Producers -> Nodes \cup {0}]
    BY <1>1 DEF SendQInit
  <2>3. /\ localTail \in [Producers -> Pointers] /\ localNext \in [Producers -> Pointers]
        /\ item \in [Producers -> Items \cup {NoItem}] /\ begun \in 0..MaxItems
    BY <1>1 DEF SendQInit
  <2>4. /\ consumer \in {"idle", "undo", "look", "tail", "take"} /\ found \in Pointers
        /\ done \in SUBSET Items /\ before \in [Items -> SUBSET Items]
    BY <1>1 DEF SendQInit
  <2>5. QED  BY <1>2, <1>3, <2>1, <2>2, <2>3, <2>4 DEF SendQTypeOK
<1>8. Stamps /\ TailIsNear
  BY <1>2, <1>4 DEF SendQInit, Stamps, TailIsNear
<1>9. Path
  BY <1>1, <1>2, <1>4 DEF SendQInit, Path
<1>10. Owned /\ PrivateNodes /\ Seen
  BY <1>2, <1>5, <1>6 DEF SendQInit, Owned, PrivateNodes, Seen, Unlinking, Looking
<1>11. Ends
  <2>1. NoPointer.addr # This  BY DEF NoPointer, Pointer, This
  <2>2. QED  BY <1>2, <1>4, <2>1 DEF SendQInit, Ends
<1>12. Unused
  <2>1. \A n \in Nodes : n > 1 => n # 1  BY DEF Nodes
  <2>2. QED  BY <1>2, <1>4, <1>6, <2>1 DEF SendQInit, Unused
<1>13. Content /\ ItemOnce /\ Before
  BY <1>2, <1>3, <1>5 DEF SendQInit, Content, ItemOnce, Before, Bringing, Unlinking, Brought
<1>14. QED
  BY <1>7, <1>8, <1>9, <1>10, <1>11, <1>12, <1>13 DEF SendQGood, Sound, SendQInit

\* Until an item is linked late, a link is behind the last node, and tail_ is there.
LEMMA LinkedLast ==
  ASSUME SendQGood, NEW p \in Producers, Link(p), next[localTail[p].addr] = localNext[p], ~late'
  PROVE  /\ localTail[p] = Last /\ tail = Last /\ Last \in NodePointers
         /\ newNode[p] \in Nodes /\ StampedNew(p) \in NodePointers
         /\ StampedNew(p).addr = newNode[p] /\ StampedNew(p).stamp = Last.stamp + 1
<1> USE DEF SendQGood, Sound
<1>1. pc[p] = "link" /\ ~LinksLate(p)
  BY DEF Link
<1>2. /\ localTail[p] \in NodePointers /\ localTail[p].stamp <= tail.stamp
      /\ localNext[p].addr = This /\ newNode[p] \in Nodes
  BY <1>1 DEF Seen, Looking, PrivateNodes, Unlinking
<1>3. localTail[p].addr \in Nodes
  BY <1>2 DEF NodePointers
<1>4. localTail[p].addr = Last.addr /\ localTail[p] = Last
  BY <1>1, <1>2, <1>3 DEF Ends, LinksLate
<1>5. Last \in NodePointers /\ Len(chain) \in 1..Len(chain)
  BY ChainPlaces
<1>6. tail = Last
  <2>1. CASE Len(chain) > 1 /\ tail = chain[Len(chain) - 1]
    <3>1. Len(chain) - 1 \in 1..Len(chain) /\ head.stamp \in Nat
      BY <2>1 DEF Stamps, SendQTypeOK, NodePointers
    <3>2. tail.stamp = Last.stamp - 1
      <4>1. chain[Len(chain)].stamp = head.stamp + Len(chain) - 1
        BY <1>5 DEF Stamps
      <4>2. chain[Len(chain) - 1].stamp = head.stamp + (Len(chain) - 1) - 1
        BY <3>1 DEF Stamps
      <4>3. QED  BY <2>1, <3>1, <4>1, <4>2 DEF Last
    <3>3. QED  BY <1>2, <1>4, <1>5, <3>2 DEF NodePointers
  <2>2. QED  BY <2>1 DEF TailIsNear
<1>7. /\ StampedNew(p) \in NodePointers
      /\ StampedNew(p).addr = newNode[p] /\ StampedNew(p).stamp = Last.stamp + 1
  BY <1>2, <1>4, <1>5 DEF StampedNew, Pointer, NodePointers
<1>8. QED  BY <1>2, <1>4, <1>5, <1>6, <1>7

\* Whatever tail_ is moved to is a pointer of the queue.
LEMMA SwapsForward ==
  ASSUME SendQGood, NEW p \in Producers, NEW to,
         pc[p] \in {"help", "advance"}, tail = localTail[p],
         to = IF pc[p] = "help" THEN localNext[p] ELSE StampedNew(p)
  PROVE  Len(chain) > 1 /\ tail = chain[Len(chain) - 1] /\ to = Last /\ to.stamp = tail.stamp + 1
<1> USE DEF SendQGood, Sound
<1>1. Len(chain) \in Nat \ {0} /\ head.stamp \in Nat
  BY DEF Stamps, SendQTypeOK, NodePointers
<1>2. PICK k \in 1..Len(chain) : tail = chain[k] /\ k >= Len(chain) - 1
  <2>1. Len(chain) \in 1..Len(chain) /\ Len(chain) >= Len(chain) - 1
    BY <1>1
  <2>2. Len(chain) > 1 => Len(chain) - 1 \in 1..Len(chain)
    BY <1>1
  <2>3. QED  BY <2>1, <2>2, <1>1 DEF TailIsNear, Last
<1>3. pc[p] \in Looking
  BY DEF Looking
<1>4. k < Len(chain) /\ to = chain[k + 1]
  <2>1. chain[k].stamp = localTail[p].stamp
    BY <1>2
  <2>2. /\ pc[p] = "help" => k < Len(chain) /\ localNext[p] = chain[k + 1]
        /\ pc[p] = "advance" => k < Len(chain) /\ StampedNew(p) = chain[k + 1]
    BY <1>3, <2>1 DEF Seen
  <2>3. CASE pc[p] = "help"
    BY <2>2, <2>3
  <2>4. CASE pc[p] = "advance"
    BY <2>2, <2>4
  <2>5. QED  BY <2>3, <2>4
<1>5. k = Len(chain) - 1 /\ k + 1 = Len(chain) /\ k + 1 \in 1..Len(chain)
  BY <1>1, <1>2, <1>4
<1>6. to.stamp = tail.stamp + 1
  BY <1>1, <1>2, <1>4, <1>5 DEF Stamps
<1>7. QED  BY <1>1, <1>2, <1>4, <1>5, <1>6 DEF Last

\* Every step keeps the ranges.
LEMMA TypeNext == ASSUME SendQGood, [SendQNext]_sendQVars, ~late' PROVE SendQTypeOK'
<1>0. SendQTypeOK
  BY DEF SendQGood, Sound
<1>p. \A a \in Int, s \in Nat : Pointer(a, s) \in Pointers
  BY DEF Pointer, Pointers
<1>n. NoPointer \in Pointers /\ Nodes \subseteq Int /\ 0 \in Int /\ NodePointers \subseteq Pointers
      /\ This \in Int /\ Other \in Int
  BY <1>p DEF NoPointer, Nodes, NodePointers, Pointers, This, Other
<1>1. ASSUME NEW p \in Producers, BeginEnqueue(p)  PROVE SendQTypeOK'
  <2>1. begun' \in Items /\ begun' \in 0..MaxItems
    BY <1>0, <1>1 DEF SendQTypeOK, BeginEnqueue, Items
  <2>2. /\ pc' \in [Producers -> {"idle"} \cup Bringing \cup Brought]
        /\ item' \in [Producers -> Items \cup {NoItem}] /\ before' \in [Items -> SUBSET Items]
    BY <1>0, <1>1, <2>1 DEF SendQTypeOK, BeginEnqueue, Goto, Bringing
  <2>3. QED
    BY <1>0, <1>1, <2>1, <2>2 DEF SendQTypeOK, BeginEnqueue, listVars, queueVars, poolVars,
                                  consumerVars, historyVars
<1>2. ASSUME NEW p \in Producers, AllocNode(p)  PROVE SendQTypeOK'
  <2>1. PICK n \in Nodes :
          /\ Alloc(n) /\ newNode' = [newNode EXCEPT ![p] = n]
          /\ next' = [next EXCEPT ![n] = Pointer(This, 0)]
          /\ data' = [data EXCEPT ![n] = item[p]]
    BY <1>2 DEF AllocNode
  <2>2. free' \in SUBSET Nodes /\ used' \in Nodes
    BY <1>0, <2>1 DEF SendQTypeOK, Alloc, Nodes
  <2>3. /\ pc' \in [Producers -> {"idle"} \cup Bringing \cup Brought]
        /\ newNode' \in [Producers -> Nodes \cup {0}]
        /\ next' \in [Nodes -> Pointers] /\ data' \in [Nodes -> Items \cup {NoItem}]
    BY <1>0, <1>2, <1>n, <1>p, <2>1 DEF SendQTypeOK, AllocNode, Goto, Bringing, Unlinking
  <2>4. QED
    BY <1>0, <1>2, <2>2, <2>3 DEF SendQTypeOK, AllocNode, queueVars, consumerVars, itemVars
<1>3. ASSUME NEW p \in Producers, ReadTail(p) \/ ReadNext(p)  PROVE SendQTypeOK'
  <2>1. pc' \in [Producers -> {"idle"} \cup Bringing \cup Brought]
    BY <1>0, <1>3 DEF SendQTypeOK, ReadTail, ReadNext, Goto, Bringing, Unlinking
  <2>2. localTail' \in [Producers -> Pointers]
    BY <1>0, <1>3, <1>n DEF SendQTypeOK, ReadTail, ReadNext
  <2>3. localNext' \in [Producers -> Pointers]
    <3>1. ASSUME ReadNext(p) PROVE next[localTail[p].addr] \in Pointers
      <4>1. localTail[p] \in NodePointers
        BY <3>1 DEF SendQGood, Sound, Seen, Looking, ReadNext
      <4>2. QED  BY <1>0, <4>1 DEF SendQTypeOK, NodePointers
    <3>2. QED  BY <1>0, <1>3, <3>1 DEF SendQTypeOK, ReadTail, ReadNext
  <2>4. QED
    BY <1>0, <1>3, <2>1, <2>2, <2>3 DEF SendQTypeOK, ReadTail, ReadNext, listVars, queueVars,
      poolVars, consumerVars, itemVars
<1>4. ASSUME NEW p \in Producers, Link(p)  PROVE SendQTypeOK'
  <2>1. CASE next[localTail[p].addr] = localNext[p]
    <3>1. /\ Last \in NodePointers /\ localTail[p] = Last
          /\ StampedNew(p) \in NodePointers /\ StampedNew(p) \in Pointers
      BY <1>4, <2>1, <1>n, LinkedLast
    <3>2. /\ next' \in [Nodes -> Pointers]
          /\ pc' \in [Producers -> {"idle"} \cup Bringing \cup Brought]
      <4>1. /\ next' = [next EXCEPT ![localTail[p].addr] = StampedNew(p)]
            /\ pc' = [pc EXCEPT ![p] = "advance"]
        BY <1>4, <2>1 DEF Link, Goto
      <4>2. QED  BY <1>0, <3>1, <4>1 DEF SendQTypeOK, Brought
    <3>3. item[p] \in Items
      BY <1>0, <1>4 DEF SendQTypeOK, Link, SendQGood, Sound, ItemOnce, Items
    <3>4. order' \in Seq(Items) /\ chain' \in Seq(NodePointers)
      <4>1. order' = Append(order, item[p]) /\ chain' = Append(chain, StampedNew(p))
        BY <1>4, <2>1 DEF Link, Record
      <4>2. QED  BY <1>0, <3>1, <3>3, <4>1, AppendProperties DEF SendQTypeOK
    <3>5. QED
      BY <1>0, <1>4, <2>1, <3>2, <3>4 DEF SendQTypeOK, Link, queueVars, poolVars, consumerVars
  <2>2. CASE next[localTail[p].addr] # localNext[p]
    <3>1. pc' \in [Producers -> {"idle"} \cup Bringing \cup Brought]
      BY <1>0, <1>4, <2>2 DEF SendQTypeOK, Link, Goto, Bringing, Unlinking
    <3>2. QED
      BY <1>0, <1>4, <2>2, <3>1
        DEF SendQTypeOK, Link, queueVars, poolVars, consumerVars, historyVars
  <2>3. QED  BY <2>1, <2>2
<1>5. ASSUME NEW p \in Producers, AdvanceTail(p) \/ Help(p)  PROVE SendQTypeOK'
  <2>1. pc' \in [Producers -> {"idle"} \cup Bringing \cup Brought]
    BY <1>0, <1>5 DEF SendQTypeOK, AdvanceTail, Help, Goto, Bringing, Unlinking, Brought
  <2>2. tail' \in NodePointers
    <3>1. CASE tail = localTail[p]
      <4>1. pc[p] \in {"help", "advance"}
            /\ tail' = IF pc[p] = "help" THEN localNext[p] ELSE StampedNew(p)
        BY <1>5, <3>1 DEF AdvanceTail, Help, Goto, SwapTail
      <4>2. tail' = Last
        BY <3>1, <4>1, SwapsForward
      <4>3. QED  BY <4>2, ChainPlaces DEF SendQGood, Sound
    <3>2. CASE tail # localTail[p]
      BY <1>0, <1>5, <3>2 DEF AdvanceTail, Help, SwapTail, SendQTypeOK
    <3>3. QED  BY <3>1, <3>2
  <2>3. QED
    BY <1>0, <1>5, <2>1, <2>2
      DEF SendQTypeOK, AdvanceTail, Help, listVars, poolVars, consumerVars, itemVars
<1>6. ASSUME NEW p \in Producers, IncrementSize(p)  PROVE SendQTypeOK'
  <2>1. item[p] \in Items
    BY <1>0, <1>6 DEF SendQTypeOK, IncrementSize, Goto, SendQGood, Sound, ItemOnce, Items
  <2>2. /\ pc' \in [Producers -> {"idle"} \cup Bringing \cup Brought] /\ size' \in Int
        /\ newNode' \in [Producers -> Nodes \cup {0}] /\ done' \in SUBSET Items
        /\ localTail' \in [Producers -> Pointers] /\ localNext' \in [Producers -> Pointers]
    BY <1>0, <1>6, <1>n, <2>1 DEF SendQTypeOK, IncrementSize, Goto
  <2>3. QED
    BY <1>0, <1>6, <2>2
      DEF SendQTypeOK, IncrementSize, listVars, poolVars, consumerVars, historyVars
<1>7. ASSUME DecrementSize \/ UndoDecrement  PROVE SendQTypeOK'
  BY <1>0, <1>7 DEF SendQTypeOK, DecrementSize, UndoDecrement, listVars, poolVars, producerVars,
                    itemVars
<1>8. ASSUME ReadHead  PROVE SendQTypeOK'
  <2>1. found' \in Pointers /\ consumer' \in {"look", "tail"}
    BY <1>0, <1>8 DEF SendQTypeOK, ReadHead, NodePointers
  <2>2. QED
    BY <1>0, <1>8, <2>1
      DEF SendQTypeOK, ReadHead, listVars, queueVars, poolVars, producerVars, itemVars
<1>9. ASSUME MoveTail  PROVE SendQTypeOK'
  <2>1. found \in NodePointers
    <3>1. found = chain[2] /\ Len(chain) > 1
      BY <1>9 DEF SendQGood, Sound, TailIsNear, MoveTail
    <3>2. 2 \in 1..Len(chain)
      BY <3>1 DEF SendQGood, Sound, Stamps
    <3>3. QED  BY <3>1, <3>2, ChainPlaces DEF SendQGood, Sound
  <2>2. tail' \in NodePointers
    BY <1>0, <1>9, <2>1 DEF SendQTypeOK, MoveTail
  <2>3. QED
    BY <1>0, <1>9, <2>2 DEF SendQTypeOK, MoveTail, listVars, poolVars, producerVars, itemVars
<1>10. ASSUME TakeData  PROVE SendQTypeOK'
  <2>1. found = chain[2] /\ Len(chain) > 1 /\ Len(chain) \in Nat
    BY <1>10 DEF SendQGood, Sound, TailIsNear, TakeData, Stamps
  <2>2. found \in NodePointers
    <3>1. 2 \in 1..Len(chain)  BY <2>1
    <3>2. QED  BY <2>1, <3>1, ChainPlaces DEF SendQGood, Sound
  <2>3. data[found.addr] \in Items
    <3>1. 1 \in 1..(Len(chain) - 1) /\ Len(out) \in Nat /\ Len(out) + 1 \in 1..Len(order)
      BY <1>0, <2>1, LenProperties DEF SendQTypeOK, SendQGood, Sound, Content
    <3>2. Content
      BY DEF SendQGood, Sound
    <3>3. data[chain[1 + 1].addr] = order[Len(out) + 1]
      BY <3>1, <3>2 DEF Content
    <3>4. data[found.addr] = order[Len(out) + 1]
      BY <2>1, <3>3
    <3>5. QED  BY <1>0, <3>1, <3>4, ElementOfSeq DEF SendQTypeOK
  <2>4. out' \in Seq(Items)
    BY <1>0, <1>10, <2>3, AppendProperties DEF SendQTypeOK, TakeData
  <2>5. chain' \in Seq(NodePointers)
    BY <1>10, <2>1, ChainTail DEF SendQGood, Sound, TakeData
  <2>6. head' \in NodePointers /\ free' \in SUBSET Nodes /\ found' \in Pointers
    BY <1>0, <1>10, <1>n, <2>2 DEF SendQTypeOK, TakeData, NodePointers
  <2>7. QED
    BY <1>0, <1>10, <2>4, <2>5, <2>6 DEF SendQTypeOK, TakeData, listVars, producerVars
<1>11. ASSUME OtherEnqueues  PROVE SendQTypeOK'
  <2>1. PICK n \in Nodes :
          /\ Alloc(n) /\ foreign' = foreign \cup {n}
          /\ next' = [next EXCEPT ![n] = Pointer(Other, 0)]
          /\ data' = [data EXCEPT ![n] = NoItem]
    BY <1>11 DEF OtherEnqueues
  <2>2. free' \in SUBSET Nodes /\ used' \in Nodes /\ foreign' \in SUBSET Nodes
    BY <1>0, <2>1 DEF SendQTypeOK, Alloc, Nodes
  <2>3. next' \in [Nodes -> Pointers] /\ data' \in [Nodes -> Items \cup {NoItem}]
    BY <1>0, <1>n, <1>p, <2>1 DEF SendQTypeOK
  <2>4. foreignTaken' \in Nat
    BY <1>0, <1>11 DEF SendQTypeOK, OtherEnqueues
  <2>5. QED
    BY <1>0, <1>11, <2>2, <2>3, <2>4 DEF SendQTypeOK, OtherEnqueues, queueVars, producerVars,
      consumerVars, itemVars
<1>12. ASSUME OtherDequeues  PROVE SendQTypeOK'
  <2>1. PICK n \in foreign :
          /\ free' = free \cup {n} /\ foreign' = foreign \ {n}
          /\ next' = [next EXCEPT ![n] = NoPointer]
    BY <1>12 DEF OtherDequeues
  <2>2. /\ free' \in SUBSET Nodes /\ foreign' \in SUBSET Nodes /\ next' \in [Nodes -> Pointers]
    BY <1>0, <1>n, <2>1 DEF SendQTypeOK
  <2>3. QED
    BY <1>0, <1>12, <2>2
      DEF SendQTypeOK, OtherDequeues, queueVars, producerVars, consumerVars, itemVars
<1>13. ASSUME UNCHANGED sendQVars  PROVE SendQTypeOK'
  BY <1>0, <1>13
    DEF SendQTypeOK, sendQVars, listVars, queueVars, poolVars, producerVars, consumerVars,
                     itemVars
<1>14. QED
  BY <1>1, <1>2, <1>3, <1>4, <1>5, <1>6, <1>7, <1>8, <1>9, <1>10, <1>11, <1>12, <1>13
     DEF SendQNext, EnqueueStep, Dequeue

\* What a step leaves alone says the same of it.
LEMMA SameBefore == ASSUME Before, UNCHANGED <<done, before, order>> PROVE Before'
<1>1. done' = done /\ before' = before /\ order' = order
  OBVIOUS
<1>2. (\A i \in done : \E k \in 1..Len(order) : order[k] = i)'
  BY <1>1 DEF Before
<1>3. (\A i \in Items : before[i] \subseteq done)'
  BY <1>1 DEF Before, Items
<1>4. (\A k \in 1..Len(order) : \A i \in before[order[k]] : \E j \in 1..(k - 1) : order[j] = i)'
  BY <1>1 DEF Before
<1>5. QED
  BY <1>2, <1>3, <1>4 DEF Before

\* A change of a producer's step, producer by producer.
LEMMA GotoEach ==
  ASSUME SendQTypeOK, NEW p \in Producers, NEW from, NEW to, Goto(p, from, to)
  PROVE  pc[p] = from /\ pc'[p] = to /\ \A q \in Producers : q # p => pc'[q] = pc[q]
  BY DEF SendQTypeOK, Goto

\* An Enqueue begins: its item is new, and what is done has been linked.
LEMMA BeginEnqueueKeeps ==
  ASSUME SendQGood, NEW p \in Producers, BeginEnqueue(p)
  PROVE  Sound'
<1> USE DEF SendQGood, Sound
<1> DEFINE to == IF size >= QUEUE_MAX_SIZE THEN "idle" ELSE "alloc"
<1>1. /\ pc[p] = "idle" /\ pc'[p] = to /\ \A q \in Producers : q # p => pc'[q] = pc[q]
  <2>1. Goto(p, "idle", to)  BY DEF BeginEnqueue
  <2>2. QED  BY <2>1, GotoEach
<1>2. /\ UNCHANGED <<next, data, tail, head, size, free, used, foreign, newNode, localTail,
                     localNext, consumer, found, out, done, order, chain>>
      /\ Last' = Last
  BY DEF BeginEnqueue, listVars, queueVars, poolVars, consumerVars, historyVars, Last
<1>3. \A q \in Producers : /\ pc'[q] \in Unlinking <=> pc[q] \in Unlinking
                           /\ pc'[q] \in Looking <=> pc[q] \in Looking
                           /\ pc'[q] \in Looking => pc'[q] = pc[q]
  BY <1>1 DEF Unlinking, Looking
<1>4. Private' = Private
  <2>1. Private = {newNode[q] : q \in {r \in Producers : pc[r] \in Unlinking}}
    BY DEF Private, Unlinking
  <2>2. Private' = {newNode[q] : q \in {r \in Producers : pc'[r] \in Unlinking}}
    BY <1>2 DEF Private, Unlinking
  <2>3. QED  BY <1>3, <2>1, <2>2
<1>5. /\ begun' = begun + 1 /\ begun' \in Items /\ begun \in Nat /\ item'[p] = begun'
      /\ \A q \in Producers : q # p => item'[q] = item[q]
      /\ \A i \in Items : before'[i] = IF i = begun' THEN done ELSE before[i]
  BY DEF BeginEnqueue, SendQTypeOK, Items
<1>6. Stamps' /\ Path' /\ TailIsNear' /\ Content'
  BY <1>2 DEF Stamps, Path, TailIsNear, Content
<1>7. Owned' /\ Ends' /\ Unused'
  BY <1>2, <1>4 DEF Owned, Ends, Unused
<1>8. PrivateNodes'
  BY <1>1, <1>2, <1>3, <1>5 DEF PrivateNodes, Unlinking
<1>9. Seen'
  BY <1>2, <1>3 DEF Seen, StampedNew
<1>10. ItemOnce'
  <2>1. \A k \in 1..Len(order) : order[k] \in Int
    BY ElementOfSeq DEF SendQTypeOK, Items
  <2>2. \A k \in 1..Len(order) : order[k] <= begun' /\ order[k] # item'[p]
    BY <1>5, <2>1 DEF ItemOnce
  <2>3. \A q \in Producers \ {p} : pc[q] # "idle" => item[q] \in 1..begun' /\ item[q] # item'[p]
    BY <1>5 DEF ItemOnce
  <2>4. pc'[p] \notin Brought /\ item'[p] \in 1..begun'
    BY <1>1, <1>5 DEF Brought
  <2>5. QED
    BY <1>1, <1>2, <1>5, <2>2, <2>3, <2>4 DEF ItemOnce
<1>11. Before'
  <2>1. \A k \in 1..Len(order) : order[k] # begun' /\ order[k] \in Items
    <3>1. \A k \in 1..Len(order) : order[k] \in Items  BY ElementOfSeq DEF SendQTypeOK
    <3>2. QED  BY <1>5, <3>1 DEF ItemOnce, Items
  <2>2. \A i \in done' : \E k \in 1..Len(order') : order'[k] = i
    BY <1>2 DEF Before
  <2>3. \A i \in Items : before'[i] \subseteq done'
    BY <1>2, <1>5 DEF Before
  <2>4. ASSUME NEW k \in 1..Len(order'), NEW i \in before'[order'[k]]
        PROVE  \E j \in 1..(k - 1) : order'[j] = i
    <3>1. order' = order /\ i \in before[order[k]]
      BY <1>2, <1>5, <2>1, <2>4
    <3>2. QED  BY <3>1 DEF Before
  <2>5. QED  BY <2>2, <2>3, <2>4 DEF Before
<1>12. QED
  BY <1>6, <1>7, <1>8, <1>9, <1>10, <1>11

\* What an enqueuer knows of tail_ is true when it reads it.
LEMMA ReadTailKeeps ==
  ASSUME SendQGood, NEW p \in Producers, ReadTail(p)
  PROVE  Sound'
<1> USE DEF SendQGood, Sound
<1>1. pc[p] = "tail" /\ pc'[p] = "next" /\ \A q \in Producers : q # p => pc'[q] = pc[q]
  BY GotoEach DEF ReadTail
<1>2. /\ UNCHANGED <<next, data, tail, head, size, free, used, foreign, newNode, localNext, item,
                     begun, consumer, found, out, done, before, order, chain>>
      /\ Last' = Last
  BY DEF ReadTail, listVars, queueVars, poolVars, consumerVars, itemVars, Last
<1>3. localTail'[p] = tail /\ \A q \in Producers : q # p => localTail'[q] = localTail[q]
  BY DEF ReadTail, SendQTypeOK
<1>4. Private' = Private /\ \A q \in Producers : pc'[q] \in Unlinking <=> pc[q] \in Unlinking
  BY <1>1, <1>2, SamePrivate DEF ReadTail, Goto, Unlinking
<1>5. Stamps' /\ Path' /\ TailIsNear' /\ Content'
  BY <1>2 DEF Stamps, Path, TailIsNear, Content
<1>b. Before'
  BY <1>2, SameBefore
<1>6. Owned' /\ Ends' /\ Unused'
  BY <1>2, <1>4 DEF Owned, Ends, Unused
<1>7. PrivateNodes'
  BY <1>2, <1>4 DEF PrivateNodes
<1>8. ItemOnce'
  BY <1>1, <1>2 DEF ItemOnce, Bringing, Unlinking, Brought
<1>9. Seen'
  <2>1. \A q \in Producers : q # p =>
          UNCHANGED <<pc[q], localTail[q], StampedNew(q), newNode[q], localNext[q]>>
    BY <1>1, <1>2, <1>3 DEF StampedNew
  <2>2. tail \in NodePointers /\ tail.stamp <= tail.stamp
    BY DEF SendQTypeOK, NodePointers
  <2>3. \A k \in 1..Len(chain) : chain[k].stamp = tail.stamp => chain[k] = tail
    <3>1. PICK j \in 1..Len(chain) : tail = chain[j]
      <4>1. Len(chain) \in 1..Len(chain) /\ (Len(chain) > 1 => Len(chain) - 1 \in 1..Len(chain))
        BY DEF Stamps
      <4>2. QED  BY <4>1 DEF TailIsNear, Last
    <3>2. \A k \in 1..Len(chain) : chain[k].stamp = chain[j].stamp => k = j
      BY DEF Stamps, SendQTypeOK, NodePointers
    <3>3. QED  BY <3>1, <3>2
  <2>4. QED
    BY <1>1, <1>2, <1>3, <2>1, <2>2, <2>3 DEF Seen
<1>10. QED
  BY <1>5, <1>b, <1>6, <1>7, <1>8, <1>9

\* A node of the queue that points to another one points to the one behind it.
LEMMA ReadNextKeeps ==
  ASSUME SendQGood, NEW p \in Producers, ReadNext(p)
  PROVE  Sound'
<1> USE DEF SendQGood, Sound
<1> DEFINE n  == next[localTail[p].addr]
           to == IF n.addr = This THEN "link" ELSE "help"
<1>1. pc[p] = "next" /\ pc'[p] = to /\ \A q \in Producers : q # p => pc'[q] = pc[q]
  <2>1. Goto(p, "next", to)  BY DEF ReadNext
  <2>2. QED  BY <2>1, GotoEach
<1>2. /\ UNCHANGED <<next, data, tail, head, size, free, used, foreign, newNode, localTail, item,
                     begun, consumer, found, out, done, before, order, chain>>
      /\ Last' = Last
  BY DEF ReadNext, listVars, queueVars, poolVars, consumerVars, itemVars, Last
<1>3. localNext'[p] = n /\ \A q \in Producers : q # p => localNext'[q] = localNext[q]
  BY DEF ReadNext, SendQTypeOK
<1>4. Private' = Private /\ \A q \in Producers : pc'[q] \in Unlinking <=> pc[q] \in Unlinking
  BY <1>1, <1>2, SamePrivate DEF ReadNext, Goto, Unlinking
<1>5. Stamps' /\ Path' /\ TailIsNear' /\ Content'
  BY <1>2 DEF Stamps, Path, TailIsNear, Content
<1>b. Before'
  BY <1>2, SameBefore
<1>6. Owned' /\ Ends' /\ Unused'
  BY <1>2, <1>4 DEF Owned, Ends, Unused
<1>7. PrivateNodes'
  BY <1>2, <1>4 DEF PrivateNodes
<1>8. ItemOnce'
  BY <1>1, <1>2 DEF ItemOnce, Bringing, Unlinking, Brought
<1>9. Seen'
  <2>1. \A q \in Producers : q # p =>
          UNCHANGED <<pc[q], localTail[q], StampedNew(q), newNode[q], localNext[q]>>
    BY <1>1, <1>2, <1>3 DEF StampedNew
  <2>2. /\ localTail[p] \in NodePointers /\ localTail[p].stamp <= tail.stamp
        /\ \A k \in 1..Len(chain) : chain[k].stamp = localTail[p].stamp => chain[k] = localTail[p]
    BY <1>1 DEF Seen, Looking
  <2>3. ASSUME n.addr # This, NEW k \in 1..Len(chain), chain[k] = localTail[p]
        PROVE  k < Len(chain) /\ n = chain[k + 1]
    <3>1. next[Last.addr].addr = This  BY DEF Path, Pointer
    <3>2. k # Len(chain)  BY <2>3, <3>1 DEF Last
    <3>3. k < Len(chain) /\ k \in 1..(Len(chain) - 1)  BY <3>2 DEF Stamps
    <3>4. QED  BY <2>3, <3>3 DEF Path
  <2>4. pc'[p] # "advance"  BY <1>1
  <2>5. QED
    BY <1>1, <1>2, <1>3, <2>1, <2>2, <2>3, <2>4 DEF Seen
<1>10. QED
  BY <1>5, <1>b, <1>6, <1>7, <1>8, <1>9

\* tail_ moves from a node to the one behind it, whoever moves it.
LEMMA TailMovesOn ==
  ASSUME SendQGood, SendQTypeOK', tail' \in {tail, Last}, chain' = chain, Len(chain) > 1
  PROVE  /\ tail'.stamp >= tail.stamp
         /\ tail' # tail => tail' # chain[1]
         /\ tail' = Last' \/ (Len(chain') > 1 /\ tail' = chain'[Len(chain') - 1])
<1> USE DEF SendQGood, Sound
<1>1. Len(chain) \in 1..Len(chain) /\ Len(chain) - 1 \in 1..Len(chain) /\ 1 \in 1..Len(chain)
      /\ Len(chain) \in Nat /\ head.stamp \in Nat
  <2>1. head \in NodePointers  BY DEF SendQTypeOK
  <2>2. Len(chain) \in Nat  BY DEF Stamps
  <2>3. \A n \in Nat : n > 1 => n \in 1..n /\ n - 1 \in 1..n /\ 1 \in 1..n  OBVIOUS
  <2>4. QED  BY <2>1, <2>2, <2>3 DEF NodePointers
<1>2. Last' = Last  BY DEF Last
<1>3. /\ chain[Len(chain)].stamp = head.stamp + Len(chain) - 1
      /\ chain[Len(chain) - 1].stamp = head.stamp + (Len(chain) - 1) - 1
      /\ chain[1].stamp = head.stamp + 1 - 1
  BY <1>1 DEF Stamps
<1>4. Last.stamp # chain[1].stamp /\ Last.stamp >= tail.stamp
  BY <1>1, <1>3 DEF TailIsNear, Last
<1>5. tail \in NodePointers /\ Last.stamp \in Nat
  <2>1. tail \in NodePointers /\ chain \in Seq(NodePointers)  BY DEF SendQTypeOK
  <2>2. chain[Len(chain)] \in NodePointers  BY <1>1, <2>1
  <2>3. QED  BY <2>1, <2>2 DEF Last, NodePointers
<1>6. CASE tail' = tail
  BY <1>2, <1>5, <1>6 DEF TailIsNear, NodePointers
<1>7. CASE tail' = Last
  BY <1>2, <1>4, <1>7
<1>8. QED  BY <1>6, <1>7

\* Moving tail_ from what the enqueuer read to what it found behind it.
LEMMA SwapKeeps ==
  ASSUME SendQGood, SendQTypeOK', NEW p \in Producers, AdvanceTail(p) \/ Help(p)
  PROVE  Sound'
<1> USE DEF SendQGood, Sound
<1> DEFINE to == IF pc[p] = "help" THEN "tail" ELSE "size"
<1>1. /\ pc[p] \in {"help", "advance"} /\ pc'[p] = to
      /\ \A q \in Producers : q # p => pc'[q] = pc[q]
  <2>1. CASE AdvanceTail(p)
    BY <2>1, GotoEach DEF AdvanceTail
  <2>2. CASE Help(p)
    BY <2>2, GotoEach DEF Help
  <2>3. QED  BY <2>1, <2>2
<1>2. /\ UNCHANGED <<next, data, head, size, free, used, foreign, newNode, localTail, localNext,
                     item, begun, consumer, found, out, done, before, order, chain>>
      /\ Last' = Last
  BY DEF AdvanceTail, Help, listVars, poolVars, consumerVars, itemVars, Last
<1>3. \/ tail' = tail
      \/ Len(chain) > 1 /\ tail' = Last
  <2>1. CASE tail = localTail[p]
    <3>1. tail' = IF pc[p] = "help" THEN localNext[p] ELSE StampedNew(p)
      BY <1>1, <2>1 DEF AdvanceTail, Help, Goto, SwapTail
    <3>2. QED  BY <1>1, <2>1, <3>1, SwapsForward
  <2>2. CASE tail # localTail[p]
    BY <2>2 DEF AdvanceTail, Help, SwapTail
  <2>3. QED  BY <2>1, <2>2
<1>4. /\ tail'.stamp >= tail.stamp /\ (tail' # tail => tail' # head)
      /\ (tail' = Last' \/ (Len(chain') > 1 /\ tail' = chain'[Len(chain') - 1]))
  <2>1. CASE tail' = tail
    BY <1>2, <2>1 DEF TailIsNear, SendQTypeOK, NodePointers
  <2>2. CASE Len(chain) > 1 /\ tail' = Last
    BY <1>2, <2>2, TailMovesOn DEF Path
  <2>3. QED  BY <1>3, <2>1, <2>2
<1>5. \A q \in Producers : pc'[q] \in Unlinking <=> pc[q] \in Unlinking
  BY <1>1 DEF Unlinking
<1>6. Private' = Private
  <2>1. Private = {newNode[q] : q \in {r \in Producers : pc[r] \in Unlinking}}
    BY DEF Private, Unlinking
  <2>2. Private' = {newNode[q] : q \in {r \in Producers : pc'[r] \in Unlinking}}
    BY <1>2 DEF Private, Unlinking
  <2>3. QED  BY <1>5, <2>1, <2>2
<1>7. Stamps' /\ Path' /\ Content'
  BY <1>2 DEF Stamps, Path, Content
<1>8. TailIsNear'
  BY <1>2, <1>4 DEF TailIsNear
<1>9. Owned' /\ Ends' /\ Unused'
  BY <1>2, <1>6 DEF Owned, Ends, Unused
<1>10. PrivateNodes'
  BY <1>2, <1>5 DEF PrivateNodes
<1>11. ItemOnce'
  BY <1>1, <1>2 DEF ItemOnce, Bringing, Unlinking, Brought
<1>12. Before'
  BY <1>2, SameBefore
<1>13. Seen'
  <2>1. pc'[p] \notin Looking
    BY <1>1 DEF Looking
  <2>2. ASSUME NEW q \in Producers, q # p, pc[q] \in Looking
        PROVE  localTail[q] \in NodePointers /\ localTail[q].stamp <= tail'.stamp
    <3>1. localTail[q] \in NodePointers /\ localTail[q].stamp <= tail.stamp
      BY <2>2 DEF Seen
    <3>2. tail \in NodePointers /\ tail' \in NodePointers
      BY DEF SendQTypeOK
    <3>3. \A a, b, c \in Nat : a <= b /\ c >= b => a <= c
      OBVIOUS
    <3>4. QED  BY <1>4, <3>1, <3>2, <3>3 DEF NodePointers
  <2>3. \A q \in Producers : StampedNew(q)' = StampedNew(q)
    BY <1>2 DEF StampedNew
  <2>4. QED
    BY <1>1, <1>2, <2>1, <2>2, <2>3 DEF Seen
<1>14. QED
  BY <1>7, <1>8, <1>9, <1>10, <1>11, <1>12, <1>13

\* An Enqueue returns when its item has been linked.
LEMMA IncrementSizeKeeps ==
  ASSUME SendQGood, NEW p \in Producers, IncrementSize(p)
  PROVE  Sound'
<1> USE DEF SendQGood, Sound
<1>1. pc[p] = "size" /\ pc'[p] = "idle" /\ \A q \in Producers : q # p => pc'[q] = pc[q]
  BY GotoEach DEF IncrementSize
<1>2. /\ UNCHANGED <<next, data, tail, head, free, used, foreign, item, begun, consumer, found,
                     out, before, order, chain>>
      /\ Last' = Last /\ done' = done \cup {item[p]}
  BY DEF IncrementSize, listVars, poolVars, consumerVars, historyVars, Last
<1>3. \A q \in Producers : q # p => UNCHANGED <<newNode[q], localTail[q], localNext[q]>>
  BY DEF IncrementSize, SendQTypeOK
<1>4. pc[p] \notin Unlinking /\ pc'[p] \notin Unlinking /\ pc'[p] \notin Looking
  BY <1>1 DEF Unlinking, Looking
<1>5. Private' = Private
  <2>1. Private = {newNode[q] : q \in {r \in Producers : pc[r] \in Unlinking}}
    BY DEF Private, Unlinking
  <2>2. Private' = {newNode'[q] : q \in {r \in Producers : pc'[r] \in Unlinking}}
    BY DEF Private, Unlinking
  <2>3. QED  BY <1>1, <1>3, <1>4, <2>1, <2>2
<1>6. Stamps' /\ Path' /\ Content' /\ TailIsNear'
  BY <1>2 DEF Stamps, Path, Content, TailIsNear
<1>7. Owned' /\ Ends' /\ Unused'
  BY <1>2, <1>5 DEF Owned, Ends, Unused
<1>8. PrivateNodes'
  BY <1>1, <1>2, <1>3, <1>4 DEF PrivateNodes
<1>9. ItemOnce'
  BY <1>1, <1>2 DEF ItemOnce, Bringing, Unlinking, Brought
<1>10. Before'
  <2>1. \E k \in 1..Len(order) : order[k] = item[p]
    BY <1>1 DEF ItemOnce, Brought
  <2>2. \A i \in done' : \E k \in 1..Len(order') : order'[k] = i
    BY <1>2, <2>1 DEF Before
  <2>3. \A i \in Items : before'[i] \subseteq done'
    BY <1>2 DEF Before
  <2>4. \A k \in 1..Len(order') : \A i \in before'[order'[k]] :
          \E j \in 1..(k - 1) : order'[j] = i
    BY <1>2 DEF Before
  <2>5. QED  BY <2>2, <2>3, <2>4 DEF Before
<1>11. Seen'
  <2>1. \A q \in Producers : q # p => StampedNew(q)' = StampedNew(q)
    BY <1>3 DEF StampedNew
  <2>2. QED
    BY <1>1, <1>2, <1>3, <1>4, <2>1 DEF Seen
<1>12. QED
  BY <1>6, <1>7, <1>8, <1>9, <1>10, <1>11

\* Dequeue until it takes the item: it moves tail_ off the node it is going to free.
LEMMA LookingKeeps ==
  ASSUME SendQGood, SendQTypeOK', DecrementSize \/ UndoDecrement \/ ReadHead \/ MoveTail
  PROVE  Sound'
<1> USE DEF SendQGood, Sound
<1>1. /\ UNCHANGED <<next, data, head, free, used, foreign, pc, newNode, localTail, localNext,
                     item, begun, out, done, before, order, chain>>
      /\ Last' = Last /\ Private' = Private
  <2>1. /\ UNCHANGED <<head, out>> /\ UNCHANGED <<listVars, poolVars, producerVars, itemVars>>
    BY DEF DecrementSize, UndoDecrement, ReadHead, MoveTail, queueVars
  <2>2. /\ UNCHANGED <<next, data, head, free, used, foreign, pc, newNode, localTail, localNext>>
        /\ UNCHANGED <<item, begun, out, done, before, order, chain>>
    BY <2>1 DEF listVars, poolVars, producerVars, itemVars
  <2>3. Last' = Last /\ Private' = Private
    BY <2>2 DEF Last, Private
  <2>4. QED  BY <2>2, <2>3
<1>2. Len(chain) \in Nat \ {0} /\ head.stamp \in Nat
  BY DEF Stamps, SendQTypeOK, NodePointers
<1>3. TailIsNear' /\ tail'.stamp >= tail.stamp
  <2>1. CASE DecrementSize \/ UndoDecrement
    <3>1. tail' = tail /\ consumer' \notin {"tail", "take"}
      BY <2>1 DEF DecrementSize, UndoDecrement
    <3>2. QED  BY <1>1, <3>1 DEF TailIsNear, SendQTypeOK, NodePointers
  <2>2. CASE ReadHead
    <3>1. tail' = tail /\ found' = next[head.addr] /\ consumer' # "take"
          /\ (consumer' = "tail" => found'.addr # This)
      BY <2>2 DEF ReadHead, queueVars
    <3>2. ASSUME consumer' = "tail" PROVE Len(chain) > 1 /\ found' = chain[2]
      <4>1. next[Last.addr].addr = This  BY DEF Path, Pointer
      <4>2. Len(chain) # 1  BY <3>1, <3>2, <4>1 DEF Path, Last
      <4>3. \A l \in Nat \ {0, 1} : l > 1 /\ 1 \in 1..(l - 1)  OBVIOUS
      <4>4. Len(chain) > 1 /\ 1 \in 1..(Len(chain) - 1)  BY <1>2, <4>2, <4>3
      <4>5. QED  BY <3>1, <4>4 DEF Path
    <3>3. QED  BY <1>1, <3>1, <3>2 DEF TailIsNear, SendQTypeOK, NodePointers
  <2>3. CASE MoveTail
    <3>1. /\ consumer = "tail" /\ consumer' = "take" /\ found' = found
          /\ tail' = IF tail = head THEN found ELSE tail
      BY <2>3 DEF MoveTail
    <3>2. Len(chain) > 1 /\ found = chain[2]
      BY <3>1 DEF TailIsNear
    <3>3. tail = head => Len(chain) = 2
      <4>1. Len(chain) \in 1..Len(chain) /\ Len(chain) - 1 \in 1..Len(chain)
        BY <1>2, <3>2
      <4>2. /\ chain[Len(chain)].stamp = head.stamp + Len(chain) - 1
            /\ chain[Len(chain) - 1].stamp = head.stamp + (Len(chain) - 1) - 1
        BY <4>1 DEF Stamps
      <4>3. CASE tail = chain[Len(chain)]
        BY <1>2, <3>2, <4>2, <4>3
      <4>4. CASE tail = chain[Len(chain) - 1]
        <5>1. ASSUME tail = head PROVE chain[Len(chain) - 1].stamp = head.stamp
          BY <4>4, <5>1
        <5>2. \A h, l \in Nat : h = h + (l - 1) - 1 => l = 2  OBVIOUS
        <5>3. Len(chain) \in Nat /\ head.stamp \in Nat
          BY <1>2
        <5>4. QED  BY <4>2, <5>1, <5>2, <5>3
      <4>5. QED  BY <4>3, <4>4 DEF TailIsNear, Last
    <3>4. tail' \in {tail, Last} /\ (tail = head => tail' = Last)
      BY <3>1, <3>2, <3>3 DEF Last
    <3>5. /\ tail'.stamp >= tail.stamp /\ (tail' # tail => tail' # chain[1])
          /\ (tail' = Last' \/ (Len(chain') > 1 /\ tail' = chain'[Len(chain') - 1]))
      BY <1>1, <3>2, <3>4, TailMovesOn
    <3>6. tail = head => tail' # tail
      <4>1. 2 \in 1..Len(chain) /\ 1 \in 1..Len(chain)  BY <1>2, <3>2
      <4>2. chain[2].stamp # chain[1].stamp  BY <1>2, <4>1 DEF Stamps
      <4>3. QED  BY <3>1, <3>2, <4>2 DEF Path
    <3>7. tail' # head
      BY <3>1, <3>5, <3>6 DEF Path
    <3>8. QED  BY <1>1, <3>1, <3>2, <3>5, <3>7 DEF TailIsNear
  <2>4. QED  BY <2>1, <2>2, <2>3
<1>4. Stamps' /\ Path' /\ Content'
  BY <1>1 DEF Stamps, Path, Content
<1>5. Owned' /\ Ends' /\ Unused' /\ PrivateNodes'
  BY <1>1 DEF Owned, Ends, Unused, PrivateNodes
<1>6. ItemOnce'
  BY <1>1 DEF ItemOnce
<1>7. Before'
  BY <1>1, SameBefore
<1>8. Seen'
  <2>1. ASSUME NEW q \in Producers, pc[q] \in Looking
        PROVE  localTail[q] \in NodePointers /\ localTail[q].stamp <= tail'.stamp
    BY <1>3, <2>1 DEF Seen, SendQTypeOK, NodePointers
  <2>2. \A q \in Producers : StampedNew(q)' = StampedNew(q)
    BY <1>1 DEF StampedNew
  <2>3. QED
    BY <1>1, <2>1, <2>2 DEF Seen
<1>9. QED
  BY <1>3, <1>4, <1>5, <1>6, <1>7, <1>8

\* A node the pool hands out is nobody's.
LEMMA FreshNode ==
  ASSUME SendQGood, NEW n \in Nodes, Alloc(n)
  PROVE  /\ n \notin foreign \cup Private /\ free' = free \ {n}
         /\ \A k \in 1..Len(chain) : chain[k].addr # n /\ chain[k].addr \in Nodes
         /\ \A p \in Producers : pc[p] \in Unlinking => newNode[p] # n
         /\ \A m \in Nodes : m > used' => m > used /\ m # n
<1> USE DEF SendQGood, Sound
<1>1. used \in Nodes /\ used \in Int /\ n \in Int /\ \A m \in Nodes : m \in Int
  BY DEF SendQTypeOK, Nodes
<1>2. /\ free' = free \ {n} /\ (n \in free \/ n = used + 1)
      /\ used' = IF n \in free THEN used ELSE used + 1
  <2>1. n \in free \cup ({used + 1} \cap Nodes)  BY DEF Alloc
  <2>2. n \in free \/ n = used + 1  BY <2>1
  <2>3. QED  BY <2>2 DEF Alloc
<1>3. \A p \in Producers : pc[p] \in Unlinking => newNode[p] \in Private
  BY DEF Private, Unlinking
<1>4. \A m \in Private : \E p \in Producers : pc[p] \in Unlinking /\ newNode[p] = m
  BY DEF Private, Unlinking
<1>5. \A k \in 1..Len(chain) : chain[k].addr \in Nodes
  BY ChainPlaces DEF NodePointers
<1>6. DOMAIN chain = 1..Len(chain)
  BY DEF SendQTypeOK
<1>7. CASE n \in free
  <2>1. n \notin foreign  BY <1>7 DEF Unused
  <2>2. n \notin Private  BY <1>4, <1>7 DEF PrivateNodes
  <2>3. \A k \in 1..Len(chain) : chain[k].addr # n  BY <1>6, <1>7 DEF Owned
  <2>4. \A m \in Nodes : m > used' => m > used /\ m # n
    <3>1. n <= used  BY <1>1, <1>7 DEF Unused
    <3>2. used' = used  BY <1>2, <1>7
    <3>3. QED  BY <1>1, <3>1, <3>2
  <2>5. QED  BY <1>2, <1>3, <1>5, <2>1, <2>2, <2>3, <2>4
<1>8. CASE n \notin free
  <2>0. n = used + 1 /\ used' = used + 1  BY <1>2, <1>8
  <2>1. n = used + 1 /\ n > used  BY <1>1, <2>0
  <2>2. n \notin foreign /\ n \notin Private /\ \A k \in 1..Len(chain) : chain[k].addr # n
    BY <2>1 DEF Unused
  <2>3. \A m \in Nodes : m > used' => m > used /\ m # n
    BY <1>1, <2>0
  <2>4. QED  BY <1>2, <1>3, <1>5, <2>2, <2>3
<1>9. QED  BY <1>7, <1>8

\* The queue does not notice what happens to a node that is not in it.
LEMMA ElsewherePath ==
  ASSUME SendQGood, NEW n \in Nodes, NEW x, next' = [next EXCEPT ![n] = x],
         \A k \in 1..Len(chain) : chain[k].addr # n,
         UNCHANGED <<head, chain>>
  PROVE  Path' /\ \A m \in Nodes : m # n => next'[m] = next[m]
<1> USE DEF SendQGood, Sound
<1>1. \A m \in Nodes : m # n => next'[m] = next[m]
  BY DEF SendQTypeOK
<1>2. \A k \in 1..Len(chain) : next'[chain[k].addr] = next[chain[k].addr]
  BY <1>1, ChainPlaces DEF NodePointers
<1>3. Len(chain) \in 1..Len(chain) /\ Len(chain) \in Nat
  BY DEF Stamps
<1>4. next'[Last'.addr] = Pointer(This, 0)
  BY <1>2, <1>3 DEF Path, Last
<1>5. \A k \in 1..(Len(chain) - 1) : next'[chain[k].addr] = chain[k + 1]
  <2>1. \A k \in 1..(Len(chain) - 1) : k \in 1..Len(chain)  BY <1>3
  <2>2. QED  BY <1>2, <2>1 DEF Path
<1>6. QED  BY <1>1, <1>4, <1>5 DEF Path

\* Nor does it what it carries.
LEMMA ElsewhereContent ==
  ASSUME SendQGood, NEW n \in Nodes, NEW x, data' = [data EXCEPT ![n] = x],
         \A k \in 1..Len(chain) : chain[k].addr # n,
         UNCHANGED <<out, order, chain>>
  PROVE  Content' /\ \A m \in Nodes : m # n => data'[m] = data[m]
<1> USE DEF SendQGood, Sound
<1>1. \A m \in Nodes : m # n => data'[m] = data[m]
  BY DEF SendQTypeOK
<1>2. \A k \in 1..(Len(chain) - 1) : k + 1 \in 1..Len(chain)
  BY DEF Stamps
<1>3. \A k \in 1..(Len(chain) - 1) : data'[chain[k + 1].addr] = data[chain[k + 1].addr]
  BY <1>1, <1>2, ChainPlaces DEF NodePointers
<1>4. QED  BY <1>1, <1>3 DEF Content

\* A node taken from the pool is the enqueuer's own.
LEMMA AllocNodeKeeps ==
  ASSUME SendQGood, SendQTypeOK', NEW p \in Producers, AllocNode(p)
  PROVE  Sound'
<1> USE DEF SendQGood, Sound
<1>1. pc[p] = "alloc" /\ pc'[p] = "tail" /\ \A q \in Producers : q # p => pc'[q] = pc[q]
  BY GotoEach DEF AllocNode
<1>2. PICK n \in Nodes :
        /\ Alloc(n) /\ newNode' = [newNode EXCEPT ![p] = n]
        /\ next' = [next EXCEPT ![n] = Pointer(This, 0)]
        /\ data' = [data EXCEPT ![n] = item[p]]
  BY DEF AllocNode
<1>3. /\ UNCHANGED <<tail, head, foreign, localTail, localNext, item, begun, consumer, found, out,
                     done, before, order, chain>>
      /\ Last' = Last
  BY DEF AllocNode, queueVars, consumerVars, itemVars, Last
<1>4. /\ n \notin foreign \cup Private /\ free' = free \ {n}
      /\ \A k \in 1..Len(chain) : chain[k].addr # n /\ chain[k].addr \in Nodes
      /\ \A q \in Producers : pc[q] \in Unlinking => newNode[q] # n
      /\ \A m \in Nodes : m > used' => m > used /\ m # n
  BY <1>2, FreshNode
<1>5. newNode'[p] = n /\ \A q \in Producers : q # p => newNode'[q] = newNode[q]
  BY <1>2 DEF SendQTypeOK
<1>6. next'[n] = Pointer(This, 0) /\ data'[n] = item[p]
  BY <1>2 DEF SendQTypeOK
<1>7. pc[p] \notin Unlinking /\ pc'[p] \in Unlinking /\ pc'[p] \notin Looking
  BY <1>1 DEF Unlinking, Looking
<1>8. Private' = Private \cup {n}
  <2>1. Private = {newNode[q] : q \in {r \in Producers : pc[r] \in Unlinking}}
    BY DEF Private, Unlinking
  <2>2. Private' = {newNode'[q] : q \in {r \in Producers : pc'[r] \in Unlinking}}
    BY DEF Private, Unlinking
  <2>3. QED  BY <1>1, <1>5, <1>7, <2>1, <2>2
<1>9. Stamps' /\ TailIsNear'
  BY <1>3 DEF Stamps, TailIsNear
<1>10. Path' /\ \A m \in Nodes : m # n => next'[m] = next[m]
  BY <1>2, <1>3, <1>4, ElsewherePath
<1>11. Content' /\ \A m \in Nodes : m # n => data'[m] = data[m]
  BY <1>2, <1>3, <1>4, ElsewhereContent
<1>12. Owned'
  <2>1. DOMAIN chain = 1..Len(chain)  BY DEF SendQTypeOK
  <2>2. QED  BY <1>3, <1>4, <1>8, <2>1 DEF Owned
<1>13. PrivateNodes'
  <2>1. n \in Nodes \ (free' \cup foreign')
    BY <1>3, <1>4
  <2>2. ASSUME NEW q \in Producers, q # p, pc'[q] \in Unlinking
        PROVE  /\ newNode'[q] \in Nodes \ (free' \cup foreign') /\ newNode'[q] # n
               /\ next'[newNode'[q]] = Pointer(This, 0) /\ data'[newNode'[q]] = item'[q]
    <3>1. pc[q] \in Unlinking /\ newNode'[q] = newNode[q]  BY <1>1, <1>5, <2>2
    <3>2. newNode[q] \in Nodes \ (free \cup foreign) /\ newNode[q] # n
      BY <1>4, <3>1 DEF PrivateNodes
    <3>3. QED  BY <1>3, <1>4, <1>10, <1>11, <3>1, <3>2 DEF PrivateNodes
  <2>3. ASSUME NEW q \in Producers, NEW r \in Producers, pc'[q] \in Unlinking, pc'[r] \in Unlinking,
               newNode'[q] = newNode'[r]
        PROVE  q = r
    <3>1. CASE q = p \/ r = p
      BY <1>5, <2>2, <2>3, <3>1
    <3>2. CASE q # p /\ r # p
      BY <1>1, <1>5, <2>3, <3>2 DEF PrivateNodes
    <3>3. QED  BY <3>1, <3>2
  <2>4. QED  BY <1>3, <1>5, <1>6, <2>1, <2>2, <2>3 DEF PrivateNodes
<1>14. Ends'
  BY <1>3, <1>8, <1>10 DEF Ends
<1>15. Unused'
  BY <1>3, <1>4, <1>8, <1>10 DEF Unused
<1>16. ItemOnce'
  BY <1>1, <1>3 DEF ItemOnce, Bringing, Unlinking, Brought
<1>17. Before'
  BY <1>3, SameBefore
<1>18. Seen'
  <2>1. \A q \in Producers : q # p => StampedNew(q)' = StampedNew(q)
    BY <1>3, <1>5 DEF StampedNew
  <2>2. QED  BY <1>1, <1>3, <1>5, <1>7, <2>1 DEF Seen
<1>19. QED
  BY <1>9, <1>10, <1>11, <1>12, <1>13, <1>14, <1>15, <1>16, <1>17, <1>18

\* Other queues take nodes that are nobody's, and give back their own.
LEMMA OthersKeep ==
  ASSUME SendQGood, SendQTypeOK', OtherEnqueues \/ OtherDequeues
  PROVE  Sound'
<1> USE DEF SendQGood, Sound
<1>1. /\ UNCHANGED <<tail, head, pc, newNode, localTail, localNext, item>>
      /\ UNCHANGED <<begun, consumer, found, out, done, before, order, chain>>
  BY DEF OtherEnqueues, OtherDequeues, queueVars, producerVars, consumerVars, itemVars
<1>2. Last' = Last /\ Private' = Private
  BY <1>1 DEF Last, Private
<1>3. DOMAIN chain = 1..Len(chain)
  BY DEF SendQTypeOK
<1>4. \A q \in Producers : pc[q] \in Unlinking => newNode[q] \in Private
  BY DEF Private, Unlinking
<1>p. \A m \in Private : \E q \in Producers : pc[q] \in Unlinking /\ newNode[q] = m
  BY DEF Private, Unlinking
<1>5. PICK n \in Nodes, x \in Pointers :
        /\ next' = [next EXCEPT ![n] = x] /\ x.addr # This
        /\ n \notin Private /\ \A k \in 1..Len(chain) : chain[k].addr # n
        /\ free' \cup foreign' \subseteq free \cup foreign \cup {n}
        /\ free' \cap foreign' = {} /\ (n > used' => x = NoPointer /\ n \notin free' \cup foreign')
        /\ \A m \in Nodes : m > used' => m > used
        /\ (data' = data \/ data' = [data EXCEPT ![n] = NoItem])
  <2>1. CASE OtherEnqueues
    <3>1. PICK n \in Nodes :
            /\ Alloc(n) /\ foreign' = foreign \cup {n}
            /\ next' = [next EXCEPT ![n] = Pointer(Other, 0)]
            /\ data' = [data EXCEPT ![n] = NoItem]
      BY <2>1 DEF OtherEnqueues
    <3>2. /\ n \notin foreign \cup Private /\ free' = free \ {n}
          /\ \A k \in 1..Len(chain) : chain[k].addr # n
          /\ \A m \in Nodes : m > used' => m > used /\ m # n
      BY <3>1, FreshNode
    <3>3. Pointer(Other, 0).addr # This /\ Pointer(Other, 0) \in Pointers
      BY DEF Pointer, Pointers, Other, This
    <3>4. free' \cap foreign' = {} /\ free' \cup foreign' \subseteq free \cup foreign \cup {n}
      BY <3>1, <3>2 DEF Unused
    <3>5. ~(n > used')  BY <3>2
    <3>6. QED  BY <3>1, <3>2, <3>3, <3>4, <3>5
  <2>2. CASE OtherDequeues
    <3>1. PICK n \in foreign :
            /\ free' = free \cup {n} /\ foreign' = foreign \ {n}
            /\ next' = [next EXCEPT ![n] = NoPointer]
      BY <2>2 DEF OtherDequeues
    <3>2. n \in Nodes /\ data' = data /\ used' = used
      BY <2>2, <3>1 DEF OtherDequeues, SendQTypeOK
    <3>3. NoPointer.addr # This /\ NoPointer \in Pointers  BY DEF NoPointer, Pointer, Pointers, This
    <3>4. n \notin Private /\ \A k \in 1..Len(chain) : chain[k].addr # n
      BY <1>3, <1>p, <3>1 DEF PrivateNodes, Owned
    <3>5. free' \cap foreign' = {} /\ free' \cup foreign' \subseteq free \cup foreign \cup {n}
      BY <3>1 DEF Unused
    <3>6. ~(n > used')  BY <3>1, <3>2 DEF Unused
    <3>7. QED  BY <3>1, <3>2, <3>3, <3>4, <3>5, <3>6
  <2>3. QED  BY <2>1, <2>2
<1>6. Path' /\ \A m \in Nodes : m # n => next'[m] = next[m]
  BY <1>1, <1>5, ElsewherePath
<1>7. Content' /\ \A m \in Nodes : m # n => data'[m] = data[m]
  <2>1. CASE data' = data
    BY <1>1, <2>1 DEF Content
  <2>2. CASE data' = [data EXCEPT ![n] = NoItem]
    BY <1>1, <1>5, <2>2, ElsewhereContent
  <2>3. QED  BY <1>5, <2>1, <2>2
<1>8. next'[n] = x
  BY <1>5 DEF SendQTypeOK
<1>9. Stamps' /\ TailIsNear'
  BY <1>1, <1>2 DEF Stamps, TailIsNear
<1>10. Owned'
  BY <1>1, <1>2, <1>3, <1>5 DEF Owned
<1>11. PrivateNodes'
  <2>1. ASSUME NEW q \in Producers, pc[q] \in Unlinking
        PROVE  /\ newNode[q] \in Nodes \ (free' \cup foreign')
               /\ next'[newNode[q]] = Pointer(This, 0) /\ data'[newNode[q]] = item[q]
    <3>1. newNode[q] # n /\ newNode[q] \in Nodes \ (free \cup foreign)
      BY <1>4, <1>5, <2>1 DEF PrivateNodes
    <3>2. QED  BY <1>5, <1>6, <1>7, <2>1, <3>1 DEF PrivateNodes
  <2>2. QED  BY <1>1, <2>1 DEF PrivateNodes
<1>12. Ends'
  BY <1>2, <1>5, <1>6, <1>8 DEF Ends
<1>13. Unused'
  <2>1. ASSUME NEW m \in Nodes, m > used'
        PROVE  /\ m \notin free' \cup foreign' \cup Private' /\ next'[m] = NoPointer
               /\ \A k \in 1..Len(chain') : chain'[k].addr # m
    BY <1>1, <1>2, <1>5, <1>6, <1>8, <2>1 DEF Unused
  <2>2. QED  BY <1>5, <2>1 DEF Unused
<1>14. ItemOnce'
  BY <1>1 DEF ItemOnce
<1>15. Before'
  BY <1>1, SameBefore
<1>16. Seen'
  <2>1. \A q \in Producers : StampedNew(q)' = StampedNew(q)
    BY <1>1 DEF StampedNew
  <2>2. QED  BY <1>1, <2>1 DEF Seen
<1>17. QED
  BY <1>6, <1>7, <1>9, <1>10, <1>11, <1>12, <1>13, <1>14, <1>15, <1>16

\* Somebody else was first: the enqueuer starts over.
LEMMA LinkRefusedKeeps ==
  ASSUME SendQGood, NEW p \in Producers, Link(p), next[localTail[p].addr] # localNext[p]
  PROVE  Sound'
<1> USE DEF SendQGood, Sound
<1>1. pc[p] = "link" /\ pc'[p] = "tail" /\ \A q \in Producers : q # p => pc'[q] = pc[q]
  BY GotoEach DEF Link
<1>2. /\ UNCHANGED <<next, data, tail, head, free, used, foreign, newNode, localTail, localNext>>
      /\ UNCHANGED <<item, begun, consumer, found, out, done, before, order, chain>>
  BY DEF Link, queueVars, poolVars, consumerVars, historyVars
<1>3. Last' = Last
  BY <1>2 DEF Last
<1>4. Private' = Private /\ \A q \in Producers : pc'[q] \in Unlinking <=> pc[q] \in Unlinking
  <2>1. pc' = [pc EXCEPT ![p] = "tail"]  BY DEF Link, Goto
  <2>2. QED  BY <1>1, <1>2, <2>1, SamePrivate DEF Unlinking
<1>5. Stamps' /\ Path' /\ TailIsNear' /\ Content'
  BY <1>2, <1>3 DEF Stamps, Path, TailIsNear, Content
<1>6. Owned' /\ Ends' /\ Unused'
  BY <1>2, <1>3, <1>4 DEF Owned, Ends, Unused
<1>7. PrivateNodes'
  BY <1>2, <1>4 DEF PrivateNodes
<1>8. ItemOnce'
  BY <1>1, <1>2 DEF ItemOnce, Bringing, Unlinking, Brought
<1>9. Before'
  BY <1>2, SameBefore
<1>10. Seen'
  <2>1. \A q \in Producers : StampedNew(q)' = StampedNew(q)
    BY <1>2 DEF StampedNew
  <2>2. pc'[p] \notin Looking  BY <1>1 DEF Looking
  <2>3. QED  BY <1>1, <1>2, <2>1, <2>2 DEF Seen
<1>11. QED
  BY <1>5, <1>6, <1>7, <1>8, <1>9, <1>10

\* A node is linked behind the last one, and becomes the last one.
LEMMA LinkKeeps ==
  ASSUME SendQGood, SendQTypeOK', NEW p \in Producers, Link(p),
         next[localTail[p].addr] = localNext[p], ~late'
  PROVE  Sound'
<1> USE DEF SendQGood, Sound
<1> DEFINE L == Len(chain)
           x == StampedNew(p)
<1>1. pc[p] = "link" /\ pc'[p] = "advance" /\ \A q \in Producers : q # p => pc'[q] = pc[q]
  BY GotoEach DEF Link
<1>2. /\ UNCHANGED <<data, tail, head, free, used, foreign, newNode, localTail, localNext>>
      /\ UNCHANGED <<item, begun, consumer, found, out, done, before>>
  BY DEF Link, queueVars, poolVars, consumerVars
<1>3. /\ next' = [next EXCEPT ![localTail[p].addr] = x]
      /\ order' = Append(order, item[p]) /\ chain' = Append(chain, x)
  BY DEF Link, Record
<1>4. /\ localTail[p] = Last /\ tail = Last /\ Last \in NodePointers
      /\ newNode[p] \in Nodes /\ x \in NodePointers
      /\ x.addr = newNode[p] /\ x.stamp = Last.stamp + 1
  BY LinkedLast
<1>5. /\ Len(chain') = L + 1 /\ Last' = x /\ chain'[L + 1] = x
      /\ \A k \in 1..L : chain'[k] = chain[k]
  BY <1>3, <1>4, ChainAppend
<1>6. L \in Nat \ {0} /\ L \in 1..L /\ 1 \in 1..L /\ head.stamp \in Nat /\ chain[L] = Last
  BY ChainPlaces DEF Stamps, SendQTypeOK, NodePointers, Last
<1>7. \A k \in 1..(L + 1) : k \in 1..L \/ k = L + 1
  BY <1>6
<1>8. DOMAIN chain = 1..L /\ DOMAIN chain' = 1..(L + 1)
  BY <1>5 DEF SendQTypeOK
<1>9. pc[p] \in Unlinking /\ pc'[p] \notin Unlinking
  BY <1>1 DEF Unlinking
<1>10. /\ newNode[p] \notin free \cup foreign /\ next[newNode[p]] = Pointer(This, 0)
       /\ data[newNode[p]] = item[p] /\ newNode[p] \in Private
       /\ \A k \in 1..L : chain[k].addr # newNode[p]
  <2>1. newNode[p] \in Private  BY <1>9 DEF Private, Unlinking
  <2>2. QED  BY <1>8, <1>9, <2>1 DEF PrivateNodes, Owned
<1>11. Private' = Private \ {newNode[p]}
  <2>1. Private = {newNode[q] : q \in {r \in Producers : pc[r] \in Unlinking}}
    BY DEF Private, Unlinking
  <2>2. Private' = {newNode[q] : q \in {r \in Producers : pc'[r] \in Unlinking}}
    BY <1>2 DEF Private, Unlinking
  <2>3. {r \in Producers : pc'[r] \in Unlinking} = {r \in Producers : pc[r] \in Unlinking} \ {p}
    BY <1>1, <1>9
  <2>4. \A q \in Producers : pc[q] \in Unlinking /\ q # p => newNode[q] # newNode[p]
    BY <1>9 DEF PrivateNodes
  <2>5. QED  BY <1>9, <2>1, <2>2, <2>3, <2>4
<1>12. next'[Last.addr] = x /\ \A m \in Nodes : m # Last.addr => next'[m] = next[m]
  BY <1>3, <1>4 DEF SendQTypeOK, NodePointers
<1>13. Stamps'
  <2>1. Last.stamp = head.stamp + L - 1  BY <1>6 DEF Stamps
  <2>2. x.stamp = head.stamp + (L + 1) - 1  BY <1>4, <1>6, <2>1
  <2>3. \A k \in 1..(L + 1) : chain'[k].stamp = head.stamp + k - 1
    BY <1>5, <1>7, <2>2 DEF Stamps
  <2>4. QED  BY <1>2, <1>5, <1>6, <2>3 DEF Stamps
<1>14. Path'
  <2>1. head' = chain'[1]  BY <1>2, <1>5, <1>6 DEF Path
  <2>2. next'[Last'.addr] = Pointer(This, 0)
    <3>1. newNode[p] # Last.addr  BY <1>6, <1>10
    <3>2. QED  BY <1>4, <1>5, <1>10, <1>12, <3>1
  <2>3. ASSUME NEW k \in 1..L PROVE next'[chain'[k].addr] = chain'[k + 1]
    <3>1. CASE k = L
      BY <1>5, <1>6, <1>12, <3>1
    <3>2. CASE k # L
      <4>1. k \in 1..(L - 1) /\ k + 1 \in 1..L  BY <1>6, <3>2
      <4>2. chain[k].addr # Last.addr /\ chain[k].addr \in Nodes
        BY <1>6, <1>8, <3>2, ChainPlaces DEF Owned, NodePointers
      <4>3. next'[chain[k].addr] = chain[k + 1]  BY <1>12, <4>1, <4>2 DEF Path
      <4>4. QED  BY <1>5, <4>1, <4>3
    <3>3. QED  BY <3>1, <3>2
  <2>4. (L + 1) - 1 = L  BY <1>6
  <2>5. QED  BY <1>5, <2>1, <2>2, <2>3, <2>4 DEF Path
<1>15. TailIsNear'
  <2>1. (L + 1) - 1 = L /\ L + 1 > 1  BY <1>6
  <2>2. tail' = chain'[Len(chain') - 1] /\ Len(chain') > 1
    BY <1>2, <1>4, <1>5, <1>6, <2>1
  <2>3. L > 1 => chain'[2] = chain[2]
    <3>1. L > 1 => 2 \in 1..L  BY <1>6
    <3>2. QED  BY <1>5, <3>1
  <2>4. QED  BY <1>2, <2>2, <2>3 DEF TailIsNear
<1>16. Owned'
  <2>1. ASSUME NEW k \in 1..(L + 1)
        PROVE  /\ chain'[k].addr \notin free' \cup foreign' \cup Private'
               /\ \A j \in 1..(L + 1) : chain'[j].addr = chain'[k].addr => j = k
    <3>1. CASE k \in 1..L
      <4>1. chain[k].addr \notin free \cup foreign \cup Private
        BY <1>8, <3>1 DEF Owned
      <4>2. \A j \in 1..L : chain[j].addr = chain[k].addr => j = k
        BY <1>8, <3>1 DEF Owned
      <4>3. chain[k].addr # newNode[p] /\ chain'[k] = chain[k]
        BY <1>5, <1>10, <3>1
      <4>4. ASSUME NEW j \in 1..(L + 1), chain'[j].addr = chain'[k].addr PROVE j = k
        BY <1>4, <1>5, <1>7, <4>2, <4>3, <4>4
      <4>5. QED  BY <1>2, <1>11, <4>1, <4>3, <4>4
    <3>2. CASE k = L + 1
      <4>1. chain'[k].addr = newNode[p]
        BY <1>4, <1>5, <3>2
      <4>2. newNode[p] \notin free' \cup foreign' \cup Private'
        BY <1>2, <1>10, <1>11
      <4>3. ASSUME NEW j \in 1..(L + 1), chain'[j].addr = newNode[p] PROVE j = k
        BY <1>5, <1>7, <1>10, <3>2, <4>3
      <4>4. QED  BY <4>1, <4>2, <4>3
    <3>3. QED  BY <1>7, <3>1, <3>2
  <2>2. QED  BY <1>8, <2>1 DEF Owned
<1>17. PrivateNodes'
  <2>1. ASSUME NEW q \in Producers, pc'[q] \in Unlinking
        PROVE  pc[q] \in Unlinking /\ newNode[q] # Last.addr /\ newNode[q] \in Nodes
    <3>1. pc[q] \in Unlinking  BY <1>1, <1>9, <2>1
    <3>2. newNode[q] \in Private  BY <3>1 DEF Private, Unlinking
    <3>3. QED  BY <1>6, <1>8, <3>1, <3>2 DEF Owned, PrivateNodes
  <2>2. QED  BY <1>2, <1>12, <2>1 DEF PrivateNodes
<1>18. Ends'
  <2>1. x.addr # This  BY <1>4 DEF This, Nodes
  <2>2. ASSUME NEW n \in Nodes, next'[n].addr = This
        PROVE  n = newNode[p] \/ n \in Private \ {newNode[p]}
    <3>1. n # Last.addr /\ next[n].addr = This  BY <1>12, <2>1, <2>2
    <3>2. QED  BY <3>1 DEF Ends
  <2>3. QED  BY <1>4, <1>5, <1>11, <2>2 DEF Ends
<1>19. Unused'
  <2>1. ASSUME NEW n \in Nodes, n > used
        PROVE  /\ n \notin free \cup foreign \cup Private' /\ next'[n] = NoPointer
               /\ \A k \in 1..(L + 1) : chain'[k].addr # n
    <3>1. n \notin Private /\ next[n] = NoPointer /\ \A k \in 1..L : chain[k].addr # n
      BY <2>1 DEF Unused
    <3>2. n # newNode[p] /\ n # Last.addr
      BY <1>6, <1>10, <3>1
    <3>3. QED  BY <1>4, <1>5, <1>7, <1>11, <1>12, <2>1, <3>1, <3>2 DEF Unused
  <2>2. QED  BY <1>2, <1>5, <2>1 DEF Unused
<1>20. item[p] \in Items /\ order \in Seq(Items) /\ Len(order) \in Nat
  BY <1>1 DEF ItemOnce, SendQTypeOK, Items
<1>21. /\ Len(order') = Len(order) + 1 /\ order'[Len(order) + 1] = item[p]
       /\ \A k \in 1..Len(order) : order'[k] = order[k]
  BY <1>3, <1>20, AppendProperties
<1>22. \A k \in 1..(Len(order) + 1) : k \in 1..Len(order) \/ k = Len(order) + 1
  BY <1>20
<1>23. Content'
  <2>1. Len(out) \in Nat /\ Len(order) = Len(out) + L - 1  BY DEF Content, SendQTypeOK
  <2>2. Len(order') = Len(out) + (L + 1) - 1
    BY <1>6, <1>20, <1>21, <2>1
  <2>3. \A k \in 1..Len(out) : k \in 1..Len(order)
    BY <1>6, <2>1
  <2>4. \A k \in 1..Len(out) : out[k] = order'[k]
    BY <1>21, <2>3 DEF Content
  <2>5. ASSUME NEW k \in 1..L PROVE data[chain'[k + 1].addr] = order'[Len(out) + k]
    <3>1. CASE k = L
      <4>1. Len(out) + k = Len(order) + 1  BY <1>6, <2>1, <3>1
      <4>2. QED  BY <1>4, <1>5, <1>10, <1>21, <3>1, <4>1
    <3>2. CASE k # L
      <4>1. k \in 1..(L - 1) /\ k + 1 \in 1..L /\ Len(out) + k \in 1..Len(order)
        BY <1>6, <2>1, <3>2
      <4>2. QED  BY <1>5, <1>21, <4>1 DEF Content
    <3>3. QED  BY <3>1, <3>2
  <2>6. (L + 1) - 1 = L  BY <1>6
  <2>7. QED  BY <1>2, <1>5, <2>2, <2>4, <2>5, <2>6 DEF Content
<1>24. ItemOnce'
  <2>1. pc[p] \in Bringing /\ pc[p] # "idle" /\ pc'[p] \notin Bringing
    BY <1>1 DEF Bringing, Unlinking
  <2>2. \A k \in 1..Len(order) : order[k] # item[p]
    BY <2>1 DEF ItemOnce
  <2>3. \A k \in 1..Len(order') : order'[k] <= begun
    <3>1. item[p] <= begun  BY <2>1 DEF ItemOnce
    <3>2. QED  BY <1>21, <1>22, <3>1 DEF ItemOnce
  <2>4. \A j, k \in 1..Len(order') : order'[j] = order'[k] => j = k
    BY <1>21, <1>22, <2>2 DEF ItemOnce
  <2>5. ASSUME NEW q \in Producers, pc'[q] \in Bringing
        PROVE  \A k \in 1..Len(order') : order'[k] # item[q]
    <3>1. q # p /\ pc[q] = pc'[q] /\ pc[q] # "idle"
      BY <1>1, <2>1, <2>5 DEF Bringing, Unlinking
    <3>2. item[q] # item[p]
      BY <2>1, <3>1 DEF ItemOnce
    <3>3. QED  BY <1>21, <1>22, <2>5, <3>1, <3>2 DEF ItemOnce
  <2>6. ASSUME NEW q \in Producers, pc'[q] \in Brought
        PROVE  \E k \in 1..Len(order') : order'[k] = item[q]
    <3>1. CASE q = p
      <4>1. Len(order) + 1 \in 1..Len(order')  BY <1>20, <1>21
      <4>2. QED  BY <1>21, <3>1, <4>1
    <3>2. CASE q # p
      <4>1. PICK k \in 1..Len(order) : order[k] = item[q]
        BY <1>1, <2>6, <3>2 DEF ItemOnce
      <4>2. k \in 1..Len(order')  BY <1>20, <1>21
      <4>3. QED  BY <1>21, <4>1, <4>2
    <3>3. QED  BY <3>1, <3>2
  <2>7. \A q \in Producers : pc'[q] # "idle" => pc[q] # "idle"
    BY <1>1
  <2>8. QED  BY <1>2, <2>3, <2>4, <2>5, <2>6, <2>7 DEF ItemOnce
<1>25. Before'
  <2>1. ASSUME NEW i \in done' PROVE \E k \in 1..Len(order) : order[k] = i
    BY <1>2, <2>1 DEF Before
  <2>2. \A k \in 1..Len(order) : k \in 1..Len(order')
    BY <1>20, <1>21
  <2>3. \A i \in done' : \E k \in 1..Len(order') : order'[k] = i
    BY <1>21, <2>1, <2>2
  <2>4. \A i \in Items : before'[i] \subseteq done'
    BY <1>2 DEF Before
  <2>5. ASSUME NEW k \in 1..Len(order'), NEW i \in before'[order'[k]]
        PROVE  \E j \in 1..(k - 1) : order'[j] = i
    <3>1. CASE k \in 1..Len(order)
      <4>1. i \in before[order[k]]  BY <1>2, <1>21, <2>5, <3>1
      <4>2. PICK j \in 1..(k - 1) : order[j] = i  BY <3>1, <4>1 DEF Before
      <4>3. j \in 1..Len(order)  BY <1>20, <3>1
      <4>4. QED  BY <1>21, <4>2, <4>3
    <3>2. CASE k = Len(order) + 1
      <4>1. i \in done'  BY <1>2, <1>20, <1>21, <2>4, <2>5, <3>2
      <4>2. PICK j \in 1..Len(order) : order[j] = i  BY <2>1, <4>1
      <4>3. j \in 1..(k - 1)  BY <1>20, <3>2
      <4>4. QED  BY <1>21, <4>2, <4>3
    <3>3. QED  BY <1>21, <1>22, <3>1, <3>2
  <2>6. QED  BY <2>3, <2>4, <2>5 DEF Before
<1>26. Seen'
  <2>1. \A q \in Producers : StampedNew(q)' = StampedNew(q) /\ localTail'[q] = localTail[q]
                             /\ localNext'[q] = localNext[q] /\ newNode'[q] = newNode[q]
    BY <1>2 DEF StampedNew
  <2>2. \A q \in Producers : q # p => pc'[q] = pc[q]
    BY <1>1
  <2>3. ASSUME NEW q \in Producers, pc'[q] \in Looking
        PROVE  /\ pc[q] \in Looking /\ localTail[q].stamp < x.stamp
    <3>1. pc[q] \in Looking  BY <1>1, <2>3 DEF Looking
    <3>2. localTail[q] \in NodePointers /\ localTail[q].stamp <= tail.stamp
      BY <3>1 DEF Seen
    <3>3. QED  BY <1>4, <3>1, <3>2 DEF NodePointers
  <2>4. ASSUME NEW q \in Producers, q # p, pc'[q] \in Looking, NEW k \in 1..(L + 1),
               chain'[k].stamp = localTail[q].stamp
        PROVE  /\ k \in 1..L /\ chain'[k] = chain[k] /\ chain[k] = localTail[q]
               /\ pc[q] = "help" => k < L /\ localNext[q] = chain'[k + 1]
               /\ pc[q] = "advance" => k < L /\ StampedNew(q) = chain'[k + 1]
    <3>1. k # L + 1
      <4>1. x.stamp \in Nat /\ localTail[q].stamp \in Nat
        BY <1>4, <2>3, <2>4 DEF Seen, NodePointers
      <4>2. QED  BY <1>5, <2>3, <2>4, <4>1
    <3>2. k \in 1..L /\ chain'[k] = chain[k]  BY <1>5, <1>7, <3>1
    <3>3. k < L => chain'[k + 1] = chain[k + 1]
      <4>1. k < L => k + 1 \in 1..L  BY <1>6, <3>2
      <4>2. QED  BY <1>5, <4>1
    <3>4. pc[q] \in Looking /\ chain[k].stamp = localTail[q].stamp
      BY <2>3, <2>4, <3>2
    <3>5. QED  BY <3>2, <3>3, <3>4 DEF Seen
  <2>5. ASSUME NEW k \in 1..(L + 1), chain'[k].stamp = localTail[p].stamp
        PROVE  k = L /\ chain'[k] = localTail[p] /\ x = chain'[k + 1]
    <3>1. /\ chain'[L].stamp = head.stamp + L - 1 /\ chain'[k].stamp = head.stamp + k - 1
          /\ chain'[L] = localTail[p]
      BY <1>2, <1>4, <1>5, <1>6, <1>13, <2>5 DEF Stamps
    <3>2. \A h \in Nat, l, m \in Int : h + l - 1 = h + m - 1 => l = m  OBVIOUS
    <3>3. head.stamp + L - 1 = head.stamp + k - 1
      BY <2>5, <3>1
    <3>4. k = L
      <4>1. k \in Int /\ L \in Int  BY <1>6
      <4>2. QED  BY <1>6, <3>2, <3>3, <4>1
    <3>5. QED  BY <1>5, <3>1, <3>4
  <2>6. localTail[p] \in NodePointers /\ localTail[p].stamp <= tail.stamp /\ newNode[p] \in Nodes
    BY <1>1, <1>4 DEF Seen, Looking
  <2>7. ASSUME NEW q \in Producers, pc'[q] \in Looking
        PROVE  /\ localTail'[q] \in NodePointers /\ localTail'[q].stamp <= tail'.stamp
               /\ pc'[q] = "link" => localNext'[q].addr = This
               /\ pc'[q] = "advance" => newNode'[q] \in Nodes
    BY <1>1, <1>2, <2>3, <2>6, <2>7 DEF Seen
  <2>8. ASSUME NEW q \in Producers, pc'[q] \in Looking, NEW k \in 1..Len(chain'),
               chain'[k].stamp = localTail'[q].stamp
        PROVE  /\ chain'[k] = localTail'[q]
               /\ pc'[q] = "help" => k < Len(chain') /\ localNext'[q] = chain'[k + 1]
               /\ pc'[q] = "advance" => k < Len(chain') /\ StampedNew(q)' = chain'[k + 1]
    <3>1. L < Len(chain') /\ Len(chain') \in Nat /\ k \in 1..(L + 1) /\ k \in Nat
      BY <1>5, <1>6
    <3>2. CASE q = p
      BY <1>1, <2>1, <2>5, <2>8, <3>1, <3>2
    <3>3. CASE q # p
      <4>1. /\ k \in 1..L /\ chain'[k] = localTail[q]
            /\ pc[q] = "help" => k < L /\ localNext[q] = chain'[k + 1]
            /\ pc[q] = "advance" => k < L /\ StampedNew(q) = chain'[k + 1]
        BY <2>1, <2>4, <2>8, <3>1, <3>3
      <4>2. k < L => k < Len(chain')  BY <1>6, <3>1
      <4>3. QED  BY <2>1, <2>2, <3>3, <4>1, <4>2
    <3>4. QED  BY <3>2, <3>3
  <2>9. QED  BY <2>7, <2>8 DEF Seen
<1>27. QED
  BY <1>13, <1>14, <1>15, <1>16, <1>17, <1>18, <1>19, <1>23, <1>24, <1>25, <1>26

\* The first node leaves the queue, and the item of the next one is handed out.
LEMMA TakeDataKeeps ==
  ASSUME SendQGood, SendQTypeOK', TakeData
  PROVE  Sound'
<1> USE DEF SendQGood, Sound
<1> DEFINE L == Len(chain)
<1>1. /\ UNCHANGED <<next, data, tail, foreign, used, pc, newNode, localTail, localNext, item>>
      /\ UNCHANGED <<begun, done, before, order>>
  BY DEF TakeData, listVars, producerVars
<1>2. /\ consumer = "take" /\ consumer' = "idle" /\ head' = found
      /\ free' = free \cup {head.addr} /\ chain' = Tail(chain)
      /\ out' = Append(out, data[found.addr])
  BY DEF TakeData
<1>3. L > 1 /\ found = chain[2] /\ tail # head /\ L \in Nat /\ head.stamp \in Nat
  BY <1>2 DEF TailIsNear, Stamps, SendQTypeOK, NodePointers
<1>4. /\ Len(chain') = L - 1 /\ Last' = Last
      /\ \A k \in 1..(L - 1) : chain'[k] = chain[k + 1]
  BY <1>2, <1>3, ChainTail
<1>5. /\ \A k \in 1..(L - 1) : k \in 1..L /\ k + 1 \in 1..L
      /\ 1 \in 1..L /\ 2 \in 1..L /\ L \in 1..L /\ 1 \in 1..(L - 1)
  BY <1>3
<1>6. DOMAIN chain = 1..L /\ DOMAIN chain' = 1..(L - 1)
  BY <1>4 DEF SendQTypeOK
<1>7. head = chain[1] /\ head'.stamp = head.stamp + 1 /\ chain[L] = Last
  BY <1>2, <1>3, <1>5 DEF Path, Stamps, Last
<1>8. Private' = Private
  BY <1>1 DEF Private
<1>9. Stamps'
  <2>1. ASSUME NEW k \in 1..(L - 1) PROVE chain'[k].stamp = (head.stamp + 1) + k - 1
    <3>1. chain'[k].stamp = head.stamp + (k + 1) - 1  BY <1>4, <1>5 DEF Stamps
    <3>2. \A h \in Nat : h + (k + 1) - 1 = (h + 1) + k - 1  OBVIOUS
    <3>3. QED  BY <1>3, <3>1, <3>2
  <2>2. L - 1 \in Nat \ {0}  BY <1>3
  <2>3. QED  BY <1>4, <1>7, <2>1, <2>2 DEF Stamps
<1>10. Path'
  <2>1. head' = chain'[1]  BY <1>2, <1>3, <1>4, <1>5
  <2>2. ASSUME NEW k \in 1..((L - 1) - 1) PROVE next'[chain'[k].addr] = chain'[k + 1]
    <3>1. k \in 1..(L - 1) /\ k + 1 \in 1..(L - 1)  BY <1>3
    <3>2. next[chain[k + 1].addr] = chain[(k + 1) + 1]  BY <3>1 DEF Path
    <3>3. QED  BY <1>1, <1>4, <3>1, <3>2
  <2>3. QED  BY <1>1, <1>4, <2>1, <2>2 DEF Path
<1>11. TailIsNear'
  <2>1. CASE tail = Last
    BY <1>1, <1>2, <1>4, <2>1 DEF TailIsNear
  <2>2. CASE tail = chain[L - 1]
    <3>1. L - 1 # 1  BY <1>3, <1>7, <2>2
    <3>2. L - 1 > 1 /\ (L - 1) - 1 \in 1..(L - 1) /\ ((L - 1) - 1) + 1 = L - 1
      <4>1. \A l \in Nat : l > 1 /\ l - 1 # 1 =>
              l - 1 > 1 /\ (l - 1) - 1 \in 1..(l - 1) /\ ((l - 1) - 1) + 1 = l - 1
        OBVIOUS
      <4>2. QED  BY <1>3, <3>1, <4>1
    <3>3. tail = chain'[(L - 1) - 1]  BY <1>4, <2>2, <3>2
    <3>4. QED  BY <1>1, <1>2, <1>4, <3>2, <3>3 DEF TailIsNear
  <2>3. QED  BY <2>1, <2>2 DEF TailIsNear
<1>12. Owned'
  <2>1. ASSUME NEW k \in 1..(L - 1)
        PROVE  /\ chain'[k].addr \notin free' \cup foreign' \cup Private'
               /\ \A j \in 1..(L - 1) : chain'[j].addr = chain'[k].addr => j = k
    <3>1. /\ chain[k + 1].addr \notin free \cup foreign \cup Private
          /\ \A j \in 1..L : chain[j].addr = chain[k + 1].addr => j = k + 1
      BY <1>5, <1>6 DEF Owned
    <3>2. k + 1 # 1 /\ k \in Int /\ \A j \in 1..(L - 1) : j + 1 = k + 1 => j = k
      BY <1>3
    <3>3. chain[k + 1].addr # head.addr  BY <1>5, <1>7, <3>1, <3>2
    <3>4. QED  BY <1>1, <1>2, <1>4, <1>5, <1>8, <3>1, <3>2, <3>3
  <2>2. QED  BY <1>6, <2>1 DEF Owned
<1>13. head.addr \in Nodes /\ head.addr \notin foreign \cup Private
  BY <1>5, <1>6, <1>7 DEF Owned, SendQTypeOK, NodePointers
<1>14. PrivateNodes'
  <2>1. \A q \in Producers : pc[q] \in Unlinking => newNode[q] # head.addr
    <3>1. \A q \in Producers : pc[q] \in Unlinking => newNode[q] \in Private
      BY DEF Private, Unlinking
    <3>2. QED  BY <1>13, <3>1
  <2>2. QED  BY <1>1, <1>2, <2>1 DEF PrivateNodes
<1>15. Ends'
  BY <1>1, <1>4, <1>8 DEF Ends
<1>16. Unused'
  <2>1. ~(head.addr > used)
    BY <1>5, <1>7, <1>13 DEF Unused
  <2>2. free' \cap foreign' = {}
    BY <1>1, <1>2, <1>13 DEF Unused
  <2>3. ASSUME NEW n \in Nodes, n > used
        PROVE  /\ n \notin free' \cup foreign' \cup Private' /\ next'[n] = NoPointer
               /\ \A k \in 1..Len(chain') : chain'[k].addr # n
    BY <1>1, <1>2, <1>4, <1>5, <1>8, <2>1, <2>3 DEF Unused
  <2>4. QED  BY <1>1, <2>2, <2>3 DEF Unused
<1>17. Content'
  <2>1. /\ Len(out) \in Nat /\ Len(order) = Len(out) + L - 1
        /\ data[found.addr] = order[Len(out) + 1]
    <3>1. Len(out) \in Nat /\ L - 1 \in Nat
      <4>1. out \in Seq(Items)  BY DEF SendQTypeOK
      <4>2. QED  BY <1>3, <4>1
    <3>2. Len(order) = Len(out) + L - 1  BY DEF Content
    <3>3. data[chain[1 + 1].addr] = order[Len(out) + 1]  BY <1>5 DEF Content
    <3>4. QED  BY <1>3, <3>1, <3>2, <3>3
  <2>2. Len(out) + 1 \in 1..Len(order) /\ order \in Seq(Items)
    <3>1. order \in Seq(Items)  BY DEF SendQTypeOK
    <3>2. \A a, b, c \in Nat : b > 1 /\ c = a + b - 1 => a + 1 \in 1..c  OBVIOUS
    <3>3. QED  BY <1>3, <2>1, <3>1, <3>2
  <2>3. data[found.addr] \in Items /\ out \in Seq(Items)
    BY <2>1, <2>2, ElementOfSeq DEF SendQTypeOK
  <2>4. /\ Len(out') = Len(out) + 1 /\ out'[Len(out) + 1] = order[Len(out) + 1]
        /\ \A k \in 1..Len(out) : out'[k] = out[k]
    BY <1>2, <2>1, <2>3, AppendProperties
  <2>5. Len(order') = Len(out') + Len(chain') - 1
    BY <1>1, <1>3, <1>4, <2>1, <2>4
  <2>6. \A k \in 1..Len(out') : out'[k] = order'[k]
    <3>1. \A k \in 1..(Len(out) + 1) : k \in 1..Len(out) \/ k = Len(out) + 1  BY <2>1
    <3>2. QED  BY <1>1, <2>4, <3>1 DEF Content
  <2>7. ASSUME NEW k \in 1..((L - 1) - 1)
        PROVE  data'[chain'[k + 1].addr] = order'[(Len(out) + 1) + k]
    <3>1. k + 1 \in 1..(L - 1) /\ Len(out) + (k + 1) = (Len(out) + 1) + k  BY <1>3, <2>1
    <3>2. data[chain[(k + 1) + 1].addr] = order[Len(out) + (k + 1)]  BY <3>1 DEF Content
    <3>3. QED  BY <1>1, <1>4, <3>1, <3>2
  <2>8. QED  BY <1>4, <2>4, <2>5, <2>6, <2>7 DEF Content
<1>18. ItemOnce'
  BY <1>1 DEF ItemOnce
<1>19. Before'
  BY <1>1, SameBefore
<1>20. Seen'
  <2>1. \A q \in Producers : StampedNew(q)' = StampedNew(q)
    BY <1>1 DEF StampedNew
  <2>2. ASSUME NEW q \in Producers, pc[q] \in Looking, NEW k \in 1..(L - 1),
               chain'[k].stamp = localTail[q].stamp
        PROVE  /\ chain'[k] = localTail[q]
               /\ pc[q] = "help" => k < L - 1 /\ localNext[q] = chain'[k + 1]
               /\ pc[q] = "advance" => k < L - 1 /\ StampedNew(q) = chain'[k + 1]
    <3>1. k + 1 \in 1..L /\ chain[k + 1].stamp = localTail[q].stamp
      BY <1>4, <1>5, <2>2
    <3>2. /\ chain[k + 1] = localTail[q]
          /\ pc[q] = "help" => k + 1 < L /\ localNext[q] = chain[(k + 1) + 1]
          /\ pc[q] = "advance" => k + 1 < L /\ StampedNew(q) = chain[(k + 1) + 1]
      BY <2>2, <3>1 DEF Seen
    <3>3. k + 1 < L => k < L - 1 /\ k + 1 \in 1..(L - 1)
      BY <1>3
    <3>4. QED  BY <1>4, <3>2, <3>3
  <2>3. QED  BY <1>1, <1>4, <2>1, <2>2 DEF Seen
<1>21. QED
  BY <1>9, <1>10, <1>11, <1>12, <1>14, <1>15, <1>16, <1>17, <1>18, <1>19, <1>20

\* Every step keeps the invariant until an item is linked late.
LEMMA SendQInvNext == SendQInv /\ [SendQNext]_sendQVars => SendQInv'
<1> SUFFICES ASSUME SendQInv, [SendQNext]_sendQVars
             PROVE  SendQInv'
  OBVIOUS
<1>1. late' \in BOOLEAN /\ (~late' => ~late)
  <2>1. CASE \E p \in Producers : Link(p)
    <3>1. PICK p \in Producers : late' = (late \/ LinksLate(p)) \/ late' = late
      BY <2>1 DEF Link, historyVars
    <3>2. LinksLate(p) \in BOOLEAN
      BY DEF LinksLate
    <3>3. QED  BY <3>1, <3>2 DEF SendQInv
  <2>2. CASE UNCHANGED late
    BY <2>2 DEF SendQInv
  <2>3. (\E p \in Producers : Link(p)) \/ UNCHANGED late
    BY
      DEF SendQNext, EnqueueStep, Dequeue, BeginEnqueue, AllocNode, ReadTail, ReadNext, AdvanceTail,
       Help, IncrementSize, DecrementSize, UndoDecrement, ReadHead, MoveTail, TakeData,
       OtherEnqueues, OtherDequeues, itemVars, historyVars, sendQVars
  <2>4. QED  BY <2>1, <2>2, <2>3
<1> SUFFICES ASSUME ~late' PROVE SendQGood'
  BY <1>1 DEF SendQInv
<1>2. SendQGood
  BY <1>1 DEF SendQInv
<1>3. SendQTypeOK'
  BY <1>2, TypeNext
<1>4. ASSUME NEW p \in Producers, BeginEnqueue(p)  PROVE Sound'
  BY <1>2, <1>4, BeginEnqueueKeeps
<1>5. ASSUME NEW p \in Producers, AllocNode(p)  PROVE Sound'
  BY <1>2, <1>3, <1>5, AllocNodeKeeps
<1>6. ASSUME NEW p \in Producers, ReadTail(p) \/ ReadNext(p)  PROVE Sound'
  BY <1>2, <1>6, ReadTailKeeps, ReadNextKeeps
<1>7. ASSUME NEW p \in Producers, Link(p)  PROVE Sound'
  BY <1>2, <1>3, <1>7, LinkKeeps, LinkRefusedKeeps
<1>8. ASSUME NEW p \in Producers, AdvanceTail(p) \/ Help(p)  PROVE Sound'
  BY <1>2, <1>3, <1>8, SwapKeeps
<1>9. ASSUME NEW p \in Producers, IncrementSize(p)  PROVE Sound'
  BY <1>2, <1>9, IncrementSizeKeeps
<1>10. ASSUME DecrementSize \/ UndoDecrement \/ ReadHead \/ MoveTail  PROVE Sound'
  BY <1>2, <1>3, <1>10, LookingKeeps
<1>11. ASSUME TakeData  PROVE Sound'
  BY <1>2, <1>3, <1>11, TakeDataKeeps
<1>12. ASSUME OtherEnqueues \/ OtherDequeues  PROVE Sound'
  BY <1>2, <1>3, <1>12, OthersKeep
<1>13. ASSUME UNCHANGED sendQVars  PROVE Sound'
  <2>1. UNCHANGED <<next, data, tail, head, free, used, foreign, pc, newNode, localTail, localNext>>
    BY <1>13 DEF sendQVars, listVars, queueVars, poolVars, producerVars
  <2>2. UNCHANGED <<item, begun, consumer, found, out, done, before, order, chain>>
    BY <1>13 DEF sendQVars, producerVars, consumerVars, itemVars
  <2>3. Last' = Last /\ Private' = Private /\ \A q \in Producers : StampedNew(q)' = StampedNew(q)
    BY <2>1, <2>2 DEF Last, Private, StampedNew
  <2>a. Sound
    BY <1>2 DEF SendQGood
  <2>4. Stamps' /\ Path' /\ TailIsNear'
    BY <2>a, <2>1, <2>2, <2>3 DEF Sound, Stamps, Path, TailIsNear
  <2>b. Content'
    BY <2>a, <2>1, <2>2 DEF Sound, Content
  <2>c. ItemOnce'
    BY <2>a, <2>1, <2>2 DEF Sound, ItemOnce
  <2>5. Owned' /\ Ends'
    BY <2>a, <2>1, <2>2, <2>3 DEF Sound, Owned, Ends
  <2>d. Unused'
    BY <2>a, <2>1, <2>2, <2>3 DEF Sound, Unused
  <2>e. PrivateNodes'
    BY <2>a, <2>1, <2>2, <2>3 DEF Sound, PrivateNodes
  <2>6. Seen'
    BY <2>a, <2>1, <2>2, <2>3 DEF Sound, Seen
  <2>7. Before'
    BY <1>2, <2>2, SameBefore DEF SendQGood, Sound
  <2>8. QED  BY <2>b, <2>c, <2>d, <2>e, <2>4, <2>5, <2>6, <2>7 DEF Sound
<1>14. Sound'
  BY <1>4, <1>5, <1>6, <1>7, <1>8, <1>9, <1>10, <1>11, <1>12, <1>13
     DEF SendQNext, EnqueueStep, Dequeue
<1>15. QED
  BY <1>3, <1>14 DEF SendQGood

\* The invariant holds in every behaviour.
THEOREM InvariantHolds == SendQSpec => []SendQInv
  BY SendQInvInit, SendQInvNext, PTL DEF SendQSpec

\* Until an item is linked late, every item that was linked has left the queue or is in it,
\* once and in the order of the links, no node of the queue is anybody else's, and tail_ is
\* on the last node or the one before (LockFreeEnqQueue.h:93-121, 143-166).
THEOREM NothingLostHolds == SendQSpec => []NothingLost
<1>1. SendQInv => NothingLost
  <2> SUFFICES ASSUME SendQInv, ~late PROVE Linked /\ Owned /\ order = out \o Queued
    BY DEF NothingLost
  <2>1. SendQTypeOK /\ Stamps /\ Path /\ TailIsNear /\ Owned /\ Content
    BY DEF SendQInv, SendQGood, Sound
  <2>2. Linked
    BY <2>1 DEF Linked, Path, TailIsNear
  <2>3. order = out \o Queued
    <3>1. /\ Len(chain) - 1 \in Nat /\ Len(out) \in Nat
          /\ order \in Seq(Items) /\ out \in Seq(Items)
      BY <2>1 DEF SendQTypeOK, Stamps
    <3>2. \A k \in 1..(Len(chain) - 1) : Len(out) + k \in 1..Len(order)
      BY <2>1, <3>1 DEF Content, Stamps
    <3>3. \A k \in 1..(Len(chain) - 1) : data[chain[k + 1].addr] \in Items
      BY <2>1, <3>1, <3>2, ElementOfSeq DEF Content
    <3>4. /\ Queued \in Seq(Items) /\ Len(Queued) = Len(chain) - 1
          /\ \A k \in 1..(Len(chain) - 1) : Queued[k] = order[Len(out) + k]
      BY <2>1, <3>1, <3>3 DEF Queued, Content
    <3>5. /\ out \o Queued \in Seq(Items) /\ Len(out \o Queued) = Len(order)
          /\ \A k \in 1..Len(order) : (out \o Queued)[k] = order[k]
      <4>1. Len(out) + Len(Queued) = Len(order)
        BY <2>1, <3>1, <3>4 DEF Content, Stamps
      <4>2. /\ out \o Queued \in Seq(Items) /\ Len(out \o Queued) = Len(out) + Len(Queued)
            /\ \A k \in 1..(Len(out) + Len(Queued)) :
                 (out \o Queued)[k] = IF k <= Len(out) THEN out[k] ELSE Queued[k - Len(out)]
        BY <3>1, <3>4, ConcatProperties
      <4>3. ASSUME NEW k \in 1..Len(order) PROVE (out \o Queued)[k] = order[k]
        <5>1. CASE k <= Len(out)
          BY <2>1, <3>1, <4>1, <4>2, <5>1 DEF Content
        <5>2. CASE ~(k <= Len(out))
          <6>1. k - Len(out) \in 1..(Len(chain) - 1) /\ Len(out) + (k - Len(out)) = k
            BY <3>1, <3>4, <4>1, <5>2
          <6>2. QED  BY <3>4, <4>1, <4>2, <5>2, <6>1
        <5>3. QED  BY <5>1, <5>2
      <4>4. QED  BY <4>1, <4>2, <4>3
    <3>6. QED  BY <3>1, <3>5, SeqEqual
  <2>4. QED  BY <2>1, <2>2, <2>3
<1>2. QED
  BY <1>1, InvariantHolds, PTL

\* Until an item is linked late, what was enqueued before another Enqueue began does not
\* leave after it.
THEOREM OrderKeptHolds == SendQSpec => []OrderKept
<1>1. SendQInv => OrderKept
  <2> SUFFICES ASSUME SendQInv, ~late, NEW k \in DOMAIN out, NEW i \in before[out[k]]
               PROVE  i \in {out[j] : j \in 1..(k - 1)}
    BY DEF OrderKept
  <2>1. SendQTypeOK /\ Stamps /\ Content /\ Before
    BY DEF SendQInv, SendQGood, Sound
  <2>2. k \in 1..Len(out) /\ Len(out) \in Nat /\ Len(out) <= Len(order) /\ Len(order) \in Nat
    BY <2>1 DEF SendQTypeOK, Stamps, Content
  <2>3. k \in 1..Len(order) /\ out[k] = order[k]
    BY <2>1, <2>2 DEF Content
  <2>4. PICK j \in 1..(k - 1) : order[j] = i
    BY <2>1, <2>3 DEF Before
  <2>5. j \in 1..Len(out)
    BY <2>2
  <2>6. QED  BY <2>1, <2>4, <2>5 DEF Content
<1>2. QED
  BY <1>1, InvariantHolds, PTL
=============================================================================
