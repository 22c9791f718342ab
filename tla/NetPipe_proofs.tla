---------------------------- MODULE NetPipe_proofs ----------------------------
(***************************************************************************)
(* Proofs about NetPipe, for every finite number of slots, pipes and       *)
(* workers and every bound.                                                *)
(*                                                                         *)
(* The argument: a session that moves is counted for the move, so it       *)
(* cannot die between the two pipes, and one that does not move has its    *)
(* user in the map of curPipe_.  So whoever gives the last reference back  *)
(* finds a pipe to tell, once; that pipe has the user when it gets to the  *)
(* request, and what it takes from any other queue is a user as the sender *)
(* left it.  The slot is destroyed by that pipe only, after everybody      *)
(* else has let go.                                                        *)
(***************************************************************************)
EXTENDS NetPipe, FiniteSetTheorems, SequenceTheorems, TLAPS

\* What is in a queue.
Of(q)   == {q[i] : i \in DOMAIN q}
Once(q) == \A i, j \in DOMAIN q : q[i] = q[j] => i = j

\* Where a thread has a counted reference to the session in its hands.
Holding == {"request", "recvPost", "onRecv", "back", "found", "cancel"}
Holders(s) == {t \in Threads : pc[t] \in Holding /\ at[t][1] = s}

\* A session is counted once for each thread that has a reference to it, for its
\* outstanding receive and for its move, and dead when nobody has one.
Counted == \A s \in Slots :
  /\ refs[s]
       = Cardinality(Holders(s)) + (IF recv[s] THEN 1 ELSE 0) + (IF moving[s] THEN 1 ELSE 0)
  /\ dead[s] <=> refs[s] = 0

\* x has its slot.
Current(x) == x[1] \notin free /\ id[x[1]] = x

\* One thread at a time has what was received for a session, or is about to receive.
Receives == {"request", "recvPost", "onRecv"}
Receiving == \A t \in Threads : pc[t] \in Receives =>
  /\ ~recv[at[t][1]]
  /\ \A u \in Threads : pc[u] \in Receives /\ at[u][1] = at[t][1] => u = t

\* What a thread has in hand has its slot, and only a pipe handles messages and moves.
InHand == \A t \in Threads :
  /\ pc[t] # "loop" => at[t] \in Sessions /\ Current(at[t])
  /\ pc[t] = "request" => t = Acceptor
  /\ pc[t] \in {"recvPost", "onRecv"} => t \notin Pipes
  /\ pc[t] \in {"entered", "moveEnd", "msg", "found", "failed", "cancel"} => t \in Pipes
  /\ t \notin Pipes => then[t] = "loop"
  /\ pc[t] = "destroy" => then[t] = "loop"
  /\ then[t] = "moveEnd" \/ pc[t] = "moveEnd" => t \notin AuthPipes

\* A slot that nobody has is clean; one that is in use has a session, and the jobs of it.
Clean == \A s \in Slots :
  /\ s \in free => curPipe[s] = None /\ jobQ[s] = <<>> /\ refs[s] = 0
  /\ s \notin free => id[s] \in issued /\ id[s][1] = s
  /\ Of(jobQ[s]) \subseteq {id[s]}
Stamped == \A x \in issued : x[2] <= stamp

\* The user of a map has the session's slot, and has entered the pipe or is about to.
Filed(p, x) ==
  /\ x \in DOMAIN user /\ user[x].pipe = p /\ Current(x)
  /\ pc[p] = "entered" /\ at[p] = x => moving[x[1]] /\ destPipe[x[1]] = p
  /\ ~(pc[p] = "entered" /\ at[p] = x) =>
       curPipe[x[1]] = p /\ (moving[x[1]] => p \in AuthPipes /\ user[x].moving)
Mapped == \A p \in Pipes : \A x \in userMap[p] : Filed(p, x)

\* A pipe handles its own users.
Own == \A p \in Pipes :
  /\ pc[p] \in {"entered", "moveEnd", "msg", "failed", "found", "cancel", "back", "release"}
       => at[p] \in userMap[p]
  /\ visit[p] \subseteq userMap[p]
  /\ visit[p] # {} => phase[p] = "msgs"

\* A user that is in no map is on the way to one.
OnTheWay == \A x \in DOMAIN user :
  x \in userMap[user[x].pipe] \/ \E p \in Pipes : x \in Of(moveInQ[p])

\* A session that does not move has its user in its pipe.
Settled == \A s \in Slots :
  ~dead[s] /\ ~moving[s] => curPipe[s] \in Pipes /\ id[s] \in userMap[curPipe[s]]

\* What is in the queues is there once, and as its owner left it.
Requesting == pc[Acceptor] = "request" =>
  /\ moving[at[Acceptor][1]] /\ curPipe[at[Acceptor][1]] = None
  /\ destPipe[at[Acceptor][1]] \in AuthPipes
  /\ at[Acceptor] \notin DOMAIN user /\ \A p \in Pipes : at[Acceptor] \notin Of(joinQ[p])
Joins(p, x) ==
  /\ p \in AuthPipes /\ x \in Sessions /\ Current(x) /\ x \notin DOMAIN user
  /\ moving[x[1]] /\ curPipe[x[1]] = None /\ destPipe[x[1]] = p
MovesOut(p, x) ==
  /\ p \in AuthPipes /\ x \in userMap[p]
  /\ moving[x[1]] /\ curPipe[x[1]] = p /\ destPipe[x[1]] \in GamePipes
MovesIn(p, x) ==
  /\ p \in GamePipes /\ x \in DOMAIN user /\ Current(x)
  /\ moving[x[1]] /\ destPipe[x[1]] = p /\ \A r \in Pipes : x \notin userMap[r]
Leaves(p, x) ==
  /\ x \in userMap[p] /\ dead[x[1]]
  /\ \A t \in Threads : pc[t] = "release" => at[t] # x
Joining   == \A p \in Pipes : Once(joinQ[p]) /\ \A x \in Of(joinQ[p]) : Joins(p, x)
MovingOut == \A p \in Pipes : Once(moveOutQ[p]) /\ \A x \in Of(moveOutQ[p]) : MovesOut(p, x)
MovingIn  == \A p \in Pipes : Once(moveInQ[p]) /\ \A x \in Of(moveInQ[p]) : MovesIn(p, x)
Leaving   == \A p \in Pipes : Once(leaveQ[p]) /\ \A x \in Of(leaveQ[p]) : Leaves(p, x)

\* The last one that gave its reference back tells the pipe, and the pipe destroys.
Ending ==
  /\ \A t \in Threads : pc[t] = "release" =>
       /\ dead[at[t][1]] /\ curPipe[at[t][1]] \in Pipes
       /\ at[t] \in userMap[curPipe[at[t][1]]]
  /\ \A t \in Threads : pc[t] = "destroy" =>
       dead[at[t][1]] /\ at[t] \notin DOMAIN user
  /\ \A t, u \in Threads :
       pc[t] \in {"release", "destroy"} /\ pc[u] \in {"release", "destroy"} /\ at[t] = at[u]
         => t = u

\* TypeOK, one variable at a time.
Types ==
  /\ free \subseteq Slots /\ stamp \in 0..MaxStamp /\ issued \subseteq Sessions
  /\ id \in [Slots -> Sessions \cup {None}] /\ refs \in [Slots -> Nat]
  /\ dead \in [Slots -> BOOLEAN] /\ canceled \in [Slots -> BOOLEAN]
  /\ recv \in [Slots -> BOOLEAN] /\ moving \in [Slots -> BOOLEAN]
  /\ curPipe \in [Slots -> Pipes \cup {None}] /\ destPipe \in [Slots -> Pipes \cup {None}]
  /\ jobQ \in [Slots -> Seq(Sessions)]
  /\ user \in [DOMAIN user -> [pipe : Pipes, moving : BOOLEAN]]
  /\ DOMAIN user \subseteq Sessions
  /\ userMap \in [Pipes -> SUBSET Sessions] /\ visit \in [Pipes -> SUBSET Sessions]
  /\ joinQ \in [Pipes -> Seq(Sessions)] /\ moveInQ \in [Pipes -> Seq(Sessions)]
  /\ moveOutQ \in [Pipes -> Seq(Sessions)] /\ leaveQ \in [Pipes -> Seq(Sessions)]
  /\ phase \in [Pipes -> Phases] /\ pc \in [Threads -> PCs]
  /\ at \in [Threads -> Sessions \cup {None}]
  /\ then \in [Threads -> {"loop", "msg", "moveEnd"}]

IInv ==
  /\ Types /\ NeverErrorQuit /\ Counted /\ Receiving /\ InHand /\ Clean /\ Stamped
  /\ Mapped /\ Own /\ OnTheWay
  /\ Settled /\ Requesting /\ Joining /\ MovingOut /\ MovingIn /\ Leaving /\ Ending

USE PipeAssumption
    DEF countVars, sessionVars, moveVars, arrayVars, userVars, queueVars, frameVars, threadVars

-----------------------------------------------------------------------------
(***************************************************************************)
(* Sessions, queues and counts.                                            *)
(***************************************************************************)
\* A session is a slot and a stamp.
LEMMA SlotIs ==
  ASSUME NEW x \in Sessions
  PROVE  x[1] \in Slots /\ x[2] \in 1..MaxStamp /\ x = <<x[1], x[2]>>
  BY DEF Sessions

\* What is put into a queue is in it, and what is taken out is not.
LEMMA OfAppend ==
  ASSUME NEW S, NEW q \in Seq(S), NEW x \in S
  PROVE  /\ Append(q, x) \in Seq(S) /\ Of(Append(q, x)) = Of(q) \cup {x}
         /\ Once(q) /\ x \notin Of(q) => Once(Append(q, x))
<1>1. /\ Append(q, x) \in Seq(S) /\ Len(q) \in Nat /\ DOMAIN q = 1..Len(q)
      /\ DOMAIN Append(q, x) = 1..(Len(q) + 1) /\ Append(q, x)[Len(q) + 1] = x
      /\ \A i \in 1..Len(q) : Append(q, x)[i] = q[i]
  BY AppendProperties, LenProperties
<1>2. Of(Append(q, x)) \subseteq Of(q) \cup {x}
  BY <1>1 DEF Of
<1>3. x \in Of(Append(q, x))
  BY <1>1 DEF Of
<1>4. ASSUME NEW i \in 1..Len(q)
      PROVE  q[i] \in Of(Append(q, x))
  <2>1. i \in 1..(Len(q) + 1) /\ Append(q, x)[i] = q[i]
    BY <1>1
  <2>2. QED  BY <1>1, <2>1 DEF Of
<1>5. Of(q) \subseteq Of(Append(q, x))
  BY <1>1, <1>4 DEF Of
<1>6. ASSUME Once(q), x \notin Of(q)
      PROVE  Once(Append(q, x))
  BY <1>1, <1>6 DEF Once, Of
<1>7. QED  BY <1>1, <1>2, <1>3, <1>5, <1>6

\* What is taken is the head, and if it was there once it is there no more.
LEMMA OfTail ==
  ASSUME NEW S, NEW q \in Seq(S), q # <<>>
  PROVE  /\ Head(q) \in S /\ Tail(q) \in Seq(S)
         /\ Head(q) \in Of(q) /\ Of(q) = Of(Tail(q)) \cup {Head(q)}
         /\ Once(q) => Once(Tail(q)) /\ Head(q) \notin Of(Tail(q))
<1>1. /\ Head(q) \in S /\ Tail(q) \in Seq(S) /\ Head(q) = q[1] /\ Len(q) \in Nat \ {0}
      /\ DOMAIN q = 1..Len(q) /\ DOMAIN Tail(q) = 1..(Len(q) - 1)
      /\ \A i \in 1..(Len(q) - 1) : Tail(q)[i] = q[i + 1]
  BY HeadTailProperties, LenProperties
<1>2. Head(q) \in Of(q)
  BY <1>1 DEF Of
<1>3. ASSUME NEW y \in Of(Tail(q))
      PROVE  y \in Of(q)
  <2>1. PICK i \in 1..(Len(q) - 1) : y = Tail(q)[i]
    BY <1>1, <1>3 DEF Of
  <2>2. i + 1 \in 1..Len(q) /\ y = q[i + 1]
    BY <1>1, <2>1
  <2>3. QED  BY <1>1, <2>2 DEF Of
<1>4. ASSUME NEW y \in Of(q), y # Head(q)
      PROVE  y \in Of(Tail(q))
  <2>1. PICK i \in 1..Len(q) : y = q[i]
    BY <1>1, <1>4 DEF Of
  <2>2. i - 1 \in 1..(Len(q) - 1) /\ y = Tail(q)[i - 1]
    BY <1>1, <1>4, <2>1
  <2>3. QED  BY <1>1, <2>2 DEF Of
<1>5. ASSUME Once(q)
      PROVE  Once(Tail(q)) /\ Head(q) \notin Of(Tail(q))
  <2>1. Once(Tail(q))
    BY <1>1, <1>5 DEF Once
  <2>2. Head(q) \notin Of(Tail(q))
    BY <1>1, <1>5 DEF Once, Of
  <2>3. QED  BY <2>1, <2>2
<1>6. QED  BY <1>1, <1>2, <1>3, <1>4, <1>5

\* m is the queues q with x put at the end of the one of p, and with the head of the one of
\* p taken.
Enqueued(m, I, q, p, x) ==
  /\ m \in [I -> Seq(Sessions)] /\ Of(m[p]) = Of(q[p]) \cup {x}
  /\ Once(q[p]) /\ x \notin Of(q[p]) => Once(m[p])
  /\ \A r \in I : r # p => m[r] = q[r]
Dequeued(m, I, q, p) ==
  /\ m \in [I -> Seq(Sessions)] /\ Head(q[p]) \in Sessions
  /\ Head(q[p]) \in Of(q[p]) /\ Of(q[p]) = Of(m[p]) \cup {Head(q[p])}
  /\ Once(q[p]) => Once(m[p]) /\ Head(q[p]) \notin Of(m[p])
  /\ \A r \in I : r # p => m[r] = q[r]

\* Enqueue changes one queue, and Dequeue does.
LEMMA EnqueueIs ==
  ASSUME NEW I \in {Pipes, Slots}, NEW q \in [I -> Seq(Sessions)], NEW p \in I,
         NEW x \in Sessions
  PROVE  Enqueued(Enqueue(q, p, x), I, q, p, x)
<1>1. q[p] \in Seq(Sessions)
  OBVIOUS
<1>2. Enqueue(q, p, x)[p] = Append(q[p], x)
  BY DEF Enqueue
<1>3. Append(q[p], x) \in Seq(Sessions)
  BY <1>1, OfAppend
<1>4. /\ Enqueue(q, p, x) \in [I -> Seq(Sessions)]
      /\ \A r \in I : r # p => Enqueue(q, p, x)[r] = q[r]
  BY <1>3 DEF Enqueue
<1>5. /\ Of(Append(q[p], x)) = Of(q[p]) \cup {x}
      /\ Once(q[p]) /\ x \notin Of(q[p]) => Once(Append(q[p], x))
  BY <1>1, OfAppend
<1>6. QED  BY <1>2, <1>4, <1>5 DEF Enqueued

\* What Dequeue does, at the queue and at the others.
LEMMA DequeueIs ==
  ASSUME NEW I \in {Pipes, Slots}, NEW q \in [I -> Seq(Sessions)], NEW p \in I, q[p] # <<>>
  PROVE  Dequeued(Dequeue(q, p), I, q, p)
<1>1. q[p] \in Seq(Sessions)
  OBVIOUS
<1>2. Dequeue(q, p)[p] = Tail(q[p])
  BY DEF Dequeue
<1>3. Tail(q[p]) \in Seq(Sessions)
  BY <1>1, OfTail
<1>4. /\ Dequeue(q, p) \in [I -> Seq(Sessions)]
      /\ \A r \in I : r # p => Dequeue(q, p)[r] = q[r]
  BY <1>3 DEF Dequeue
<1>5. /\ Head(q[p]) \in Sessions
      /\ Head(q[p]) \in Of(q[p]) /\ Of(q[p]) = Of(Tail(q[p])) \cup {Head(q[p])}
      /\ Once(q[p]) => Once(Tail(q[p])) /\ Head(q[p]) \notin Of(Tail(q[p]))
  BY <1>1, OfTail
<1>6. QED  BY <1>2, <1>4, <1>5 DEF Dequeued

\* Changing whether one thread is in a finite set moves its size by that thread.
LEMMA MoveOne ==
  ASSUME NEW S, NEW T, NEW t, IsFiniteSet(S), S \ {t} = T \ {t}
  PROVE  Cardinality(T) = Cardinality(S) - (IF t \in S THEN 1 ELSE 0)
                                         + (IF t \in T THEN 1 ELSE 0)
<1>1. /\ IsFiniteSet(S \ {t})
      /\ Cardinality(S \ {t}) = Cardinality(S) - (IF t \in S THEN 1 ELSE 0)
      /\ Cardinality(S) \in Nat
  BY FS_RemoveElement, FS_CardinalityType
<1>2. Cardinality((T \ {t}) \cup {t}) = Cardinality(S \ {t}) + 1
  BY <1>1, FS_AddElement
<1>3. CASE t \in T
  <2>1. T = (T \ {t}) \cup {t}  BY <1>3
  <2>2. QED                     BY <1>1, <1>2, <1>3, <2>1
<1>4. CASE t \notin T
  <2>1. T = S \ {t}             BY <1>4
  <2>2. QED                     BY <1>1, <1>4, <2>1
<1>5. QED  BY <1>3, <1>4

\* The holders of a session are finitely many.
LEMMA HoldersFinite ==
  ASSUME NEW s
  PROVE  IsFiniteSet(Holders(s)) /\ Cardinality(Holders(s)) \in Nat
<1>1. Holders(s) \in SUBSET Threads
  BY DEF Holders
<1>2. QED  BY <1>1, FS_Subset, FS_CardinalityType

\* One thread's step changes the holders of a session by that thread.
LEMMA HoldersMove ==
  ASSUME NEW t \in Threads, NEW s,
         \A u \in Threads : u # t => pc'[u] = pc[u] /\ at'[u] = at[u]
  PROVE  /\ Cardinality(Holders(s)) \in Nat
         /\ Cardinality(Holders(s)') = Cardinality(Holders(s))
              - (IF pc[t] \in Holding /\ at[t][1] = s THEN 1 ELSE 0)
              + (IF pc'[t] \in Holding /\ at'[t][1] = s THEN 1 ELSE 0)
         /\ pc[t] \in Holding /\ at[t][1] = s => Cardinality(Holders(s)) > 0
<1>1. IsFiniteSet(Holders(s)) /\ Cardinality(Holders(s)) \in Nat
  BY HoldersFinite
<1>2. Holders(s) \ {t} = Holders(s)' \ {t}
  BY DEF Holders
<1>3. /\ t \in Holders(s) <=> pc[t] \in Holding /\ at[t][1] = s
      /\ t \in Holders(s)' <=> pc'[t] \in Holding /\ at'[t][1] = s
  BY DEF Holders
<1>4. Cardinality(Holders(s)') = Cardinality(Holders(s))
         - (IF t \in Holders(s) THEN 1 ELSE 0) + (IF t \in Holders(s)' THEN 1 ELSE 0)
  BY <1>1, <1>2, MoveOne
<1>5. t \in Holders(s) => Cardinality(Holders(s)) > 0
  BY <1>1, FS_EmptySet
<1>6. QED  BY <1>1, <1>3, <1>4, <1>5

\* Types is TypeOK.
LEMMA TypesIs == (TypeOK <=> Types) /\ (TypeOK' <=> Types')
<1>1. TypeOK <=> Types
  BY DEF TypeOK, Types
<1>2. TypeOK' <=> Types'
  BY DEF TypeOK, Types
<1>3. QED  BY <1>1, <1>2

\* A user lives while its session has the slot.
LEMMA UsersCurrent ==
  ASSUME Types, Mapped, OnTheWay, MovingIn, NEW x \in DOMAIN user
  PROVE  x \in Sessions /\ Current(x)
<1>1. x \in Sessions /\ user[x].pipe \in Pipes
  BY DEF Types
<1>2. QED  BY <1>1 DEF OnTheWay, Mapped, Filed, MovingIn, MovesIn

\* There is nothing in an empty queue.
LEMMA OfEmpty == Of(<<>>) = {}
  BY DEF Of

\* A step of one thread keeps the counts if it moves a session's count as it moves
\* what is counted.
Counts(s) == refs[s] - (IF recv[s] THEN 1 ELSE 0) - (IF moving[s] THEN 1 ELSE 0)
Holds(t, s) == IF pc[t] \in Holding /\ at[t][1] = s THEN 1 ELSE 0

\* A step of one thread moves the count of a slot and what the thread holds alike.
LEMMA CountStep ==
  ASSUME NEW t \in Threads, Counted,
         \A u \in Threads : u # t => pc'[u] = pc[u] /\ at'[u] = at[u],
         \A r \in Slots : /\ refs[r] \in Nat /\ refs'[r] \in Nat
                          /\ Counts(r)' - Holds(t, r)' = Counts(r) - Holds(t, r)
                          /\ dead'[r] <=> refs'[r] = 0
  PROVE  Counted'
<1>1. SUFFICES ASSUME NEW r \in Slots
      PROVE  refs'[r] = Cardinality(Holders(r)') + (IF recv'[r] THEN 1 ELSE 0)
                          + (IF moving'[r] THEN 1 ELSE 0)
  BY DEF Counted
<1>2. /\ Cardinality(Holders(r)) \in Nat
      /\ Cardinality(Holders(r)') = Cardinality(Holders(r)) - Holds(t, r) + Holds(t, r)'
  BY HoldersMove DEF Holds
<1>3. Counts(r) = Cardinality(Holders(r))
  BY <1>2 DEF Counted, Counts
<1>4. Holds(t, r) \in {0, 1} /\ Holds(t, r)' \in {0, 1}
  BY DEF Holds
<1>5. Counts(r)' = Cardinality(Holders(r)')
  <2>1. Counts(r)' \in Int /\ Counts(r) \in Int
    BY DEF Counts
  <2>2. QED  BY <1>2, <1>3, <1>4, <2>1
<1>6. QED  BY <1>2, <1>4, <1>5 DEF Counts

\* What somebody holds or receives for is counted, and the last one to give back is
\* alone.
LEMMA CountedOnce ==
  ASSUME Types, Counted, NEW s \in Slots
  PROVE  /\ recv[s] \/ moving[s] => refs[s] > 0 /\ ~dead[s]
         /\ \A t \in Threads : pc[t] \in Holding /\ at[t][1] = s =>
              /\ refs[s] > 0 /\ ~dead[s]
              /\ refs[s] = 1 => ~recv[s] /\ ~moving[s]
<1>1. IsFiniteSet(Holders(s)) /\ Cardinality(Holders(s)) \in Nat
  BY HoldersFinite
<1>2. refs[s] \in Nat /\ (dead[s] <=> refs[s] = 0)
  BY DEF Types, Counted
<1>3. refs[s]
        = Cardinality(Holders(s)) + (IF recv[s] THEN 1 ELSE 0) + (IF moving[s] THEN 1 ELSE 0)
  BY DEF Counted
<1>4. ASSUME NEW t \in Threads, pc[t] \in Holding /\ at[t][1] = s
      PROVE  Cardinality(Holders(s)) > 0
  <2>1. Holders(s) # {}
    BY <1>4 DEF Holders
  <2>2. QED  BY <1>1, <2>1, FS_EmptySet
<1>5. QED  BY <1>1, <1>2, <1>3, <1>4

\* Nobody has anything of a session that is dead: it is in no queue but the one it
\* leaves by.
LEMMA DeadIs ==
  ASSUME Types, Counted, NEW s \in Slots, dead[s]
  PROVE  /\ refs[s] = 0 /\ ~recv[s] /\ ~moving[s]
         /\ \A t \in Threads : at[t][1] = s => pc[t] \notin Holding
<1>1. refs[s] = 0
  BY DEF Counted
<1>2. QED  BY <1>1, CountedOnce

-----------------------------------------------------------------------------
(***************************************************************************)
(* Every action keeps the invariant.                                       *)
(***************************************************************************)
\* The slot was free: nobody has anything of the session before.
LEMMA AcceptKeepsInv ==
  ASSUME NEW s \in Slots, NEW p \in AuthPipes, IInv, Accept(s, p)
  PROVE  IInv'
<1>0. /\ Types /\ Counted /\ Receiving /\ InHand /\ Clean /\ Stamped /\ Mapped /\ Own
      /\ OnTheWay /\ Settled /\ Requesting /\ Joining /\ MovingOut /\ MovingIn /\ Leaving
      /\ Ending /\ NeverErrorQuit
  BY DEF IInv
<1>t. Pipes \subseteq Threads /\ Acceptor \notin Pipes /\ Acceptor \in Threads
  BY DEF Threads, Pipes
<1>u. \A y \in DOMAIN user : y \in Sessions /\ Current(y)
  BY <1>0, UsersCurrent
<1>x. /\ <<s, stamp + 1>> \in Sessions /\ <<s, stamp + 1>>[1] = s
      /\ <<s, stamp + 1>>[2] = stamp + 1 /\ p \in Pipes /\ stamp + 1 \in 0..MaxStamp
  BY <1>0 DEF Types, Sessions, Pipes, Goto, Take, Accept
<1>f. /\ s \in free /\ refs[s] = 0 /\ ~recv[s] /\ ~moving[s]
      /\ \A t \in Threads : at[t][1] = s => pc[t] \notin Holding
  <2>1. s \in free /\ refs[s] = 0 /\ dead[s]
    BY <1>0 DEF Clean, Counted, Goto, Take, Accept
  <2>2. QED  BY <1>0, <2>1, DeadIs
<1>e. /\ free' = free \ {s} /\ pc'[Acceptor] = "request" /\ at'[Acceptor] = <<s, stamp + 1>>
      /\ UNCHANGED <<recv, curPipe, jobQ, userVars, queueVars, frameVars>>
      /\ \A r \in Slots : r # s =>
           /\ id'[r] = id[r] /\ dead'[r] = dead[r] /\ moving'[r] = moving[r]
           /\ destPipe'[r] = destPipe[r]
      /\ \A u \in Threads : u # Acceptor => pc'[u] = pc[u] /\ at'[u] = at[u] /\ then'[u] = then[u]
  BY <1>0, <1>t DEF Types, Goto, Take, Accept
<1>k. \A y \in Sessions : Current(y) => y[1] # s /\ y[1] \in Slots
  BY <1>f, SlotIs DEF Current
<1> USE DEF Goto, Take, Accept
<1>1. Types'
  BY <1>0, <1>t, <1>x, SlotIs DEF Types, PCs, Phases
<1>2. Counted'
  <2>1. \A u \in Threads : u # Acceptor => pc'[u] = pc[u] /\ at'[u] = at[u]
    BY <1>0, <1>t DEF Types
  <2>2. ASSUME NEW r \in Slots
        PROVE  /\ refs[r] \in Nat /\ refs'[r] \in Nat
               /\ Counts(r)' - Holds(Acceptor, r)' = Counts(r) - Holds(Acceptor, r)
               /\ dead'[r] <=> refs'[r] = 0
    BY <1>0, <1>t, <1>x, SlotIs, <1>f, SMTT(30) DEF Types, InHand, Holding, Counts, Holds, Counted,
       Current
  <2>3. QED  BY <1>0, <1>t, <2>1, <2>2, CountStep
<1>3. Receiving'
  BY <1>0, <1>t, <1>x, SlotIs, <1>f DEF Types, Receiving, Current, Receives, Holding
<1>4. InHand'
  BY <1>0, <1>t, <1>x, SlotIs DEF Types, InHand, Current, NeverErrorQuit
<1>5. Clean'
  BY <1>0, <1>t, <1>x, SlotIs, OfEmpty DEF Types, Clean, Current, InHand
<1>6. Stamped'
  BY <1>0, <1>t, <1>x, SlotIs DEF Types, Stamped, Current
<1>7. Mapped'
  <2> HIDE DEF Goto, Take, Accept
  <2>1. ASSUME NEW r \in Pipes, NEW y \in userMap'[r]
        PROVE  Filed(r, y)'
    <3>1. Filed(r, y) /\ y \in Sessions /\ r \in Threads /\ r # Acceptor
      BY <1>0, <1>t, <1>u, <1>e DEF Mapped, Filed
    <3>2. y[1] # s /\ y[1] \in Slots
      BY <1>k, <3>1 DEF Filed
    <3>3. QED  BY <1>e, <3>1, <3>2 DEF Filed, Current
  <2>2. QED  BY <2>1 DEF Mapped
<1>8. Own'
  BY <1>0, <1>t, <1>x, SlotIs DEF Types, Own, Current
<1>9. OnTheWay'
  BY <1>0, <1>t, <1>x, SlotIs DEF Types, OnTheWay, Current
<1>10. Settled'
  BY <1>0, <1>t, <1>x, SlotIs DEF Types, Settled, Current
<1>11. Requesting'
  BY <1>0, <1>t, <1>x, SlotIs, <1>u DEF Types, Requesting, Current, Joining, Joins, Clean
<1>12. Joining'
  <2>1. ASSUME NEW r \in Pipes
        PROVE  Once(joinQ'[r])
    BY <1>0, <1>e DEF Joining
  <2>2. ASSUME NEW r \in Pipes, NEW y \in Of(joinQ'[r])
        PROVE  Joins(r, y)'
    <3> HIDE DEF Goto, Take, Accept
    <3>1. Joins(r, y)
      BY <1>0, <1>e DEF Joining
    <3>2. y[1] # s /\ y[1] \in Slots
      BY <1>k, <3>1 DEF Joins
    <3>3. QED  BY <1>e, <3>1, <3>2 DEF Joins, Current
  <2> HIDE DEF Goto, Take, Accept
  <2>3. QED  BY <2>1, <2>2 DEF Joining
<1>13. MovingOut'
  <2>1. ASSUME NEW r \in Pipes
        PROVE  Once(moveOutQ'[r])
    BY <1>0, <1>e DEF MovingOut
  <2>2. ASSUME NEW r \in Pipes, NEW y \in Of(moveOutQ'[r])
        PROVE  MovesOut(r, y)'
    <3> HIDE DEF Goto, Take, Accept
    <3>1. MovesOut(r, y)
      BY <1>0, <1>e DEF MovingOut
    <3>2. y \in Sessions /\ Current(y)
      BY <1>0, <1>u, <3>1 DEF MovesOut, Mapped, Filed
    <3>3. y[1] # s /\ y[1] \in Slots
      BY <1>k, <3>2
    <3>4. QED  BY <1>e, <3>1, <3>3 DEF MovesOut
  <2> HIDE DEF Goto, Take, Accept
  <2>3. QED  BY <2>1, <2>2 DEF MovingOut
<1>14. MovingIn'
  <2>1. ASSUME NEW r \in Pipes
        PROVE  Once(moveInQ'[r])
    BY <1>0 DEF MovingIn
  <2>2. ASSUME NEW r \in Pipes, NEW y \in Of(moveInQ'[r])
        PROVE  MovesIn(r, y)'
    <3>1. MovesIn(r, y)
      BY <1>0 DEF MovingIn
    <3>2. y \in Sessions /\ y[1] \in Slots /\ y[1] # s
      BY <1>u, <1>f, <3>1, SlotIs DEF MovesIn, Current
    <3>3. QED  BY <1>0, <3>1, <3>2 DEF MovesIn, Current, Types
  <2> HIDE DEF Goto, Take, Accept
  <2>3. QED  BY <2>1, <2>2 DEF MovingIn
<1>15. Leaving'
  <2>1. ASSUME NEW r \in Pipes
        PROVE  Once(leaveQ'[r])
    BY <1>0, <1>e DEF Leaving
  <2>2. ASSUME NEW r \in Pipes, NEW y \in Of(leaveQ'[r])
        PROVE  Leaves(r, y)'
    <3> HIDE DEF Goto, Take, Accept
    <3>1. Leaves(r, y)
      BY <1>0, <1>e DEF Leaving
    <3>2. y \in Sessions /\ Current(y)
      BY <1>0, <1>u, <3>1 DEF Leaves, Mapped, Filed
    <3>3. y[1] # s /\ y[1] \in Slots
      BY <1>k, <3>2
    <3>4. \A u \in Threads : pc'[u] = "release" => pc[u] = "release" /\ at'[u] = at[u]
      BY <1>e
    <3>5. QED  BY <1>e, <3>1, <3>3, <3>4 DEF Leaves
  <2> HIDE DEF Goto, Take, Accept
  <2>3. QED  BY <2>1, <2>2 DEF Leaving
<1>16. Ending'
  <2>1. ASSUME NEW u \in Threads, pc'[u] \in {"release", "destroy"}
        PROVE  pc'[u] = pc[u] /\ at'[u] = at[u] /\ at[u][1] \in Slots /\ at[u][1] # s
    <3>1. pc'[u] = pc[u] /\ at'[u] = at[u]
      BY <1>0, <1>t, <2>1 DEF Types
    <3>2. QED  BY <1>0, <1>f, <2>1, <3>1, SlotIs DEF InHand, Current
  <2>2. /\ UNCHANGED <<user, userMap, curPipe>>
        /\ \A r \in Slots : r # s => dead'[r] = dead[r]
    BY <1>0 DEF Types
  <2> HIDE DEF Goto, Take, Accept
  <2>7. ASSUME NEW u \in Threads, pc'[u] = "release"
        PROVE  /\ dead'[at'[u][1]] /\ curPipe'[at'[u][1]] \in Pipes
               /\ at'[u] \in userMap'[curPipe'[at'[u][1]]]
    BY <1>0, <2>1, <2>2, <2>7 DEF Ending
  <2>8. ASSUME NEW u \in Threads, pc'[u] = "destroy"
        PROVE  dead'[at'[u][1]] /\ at'[u] \notin DOMAIN user'
    BY <1>0, <2>1, <2>2, <2>8 DEF Ending
  <2>9. ASSUME NEW u \in Threads, NEW v \in Threads, at'[u] = at'[v],
               pc'[u] \in {"release", "destroy"}, pc'[v] \in {"release", "destroy"}
        PROVE  u = v
    BY <1>0, <2>1, <2>9 DEF Ending
  <2> HIDE DEF Goto, Take, Accept
  <2>10. QED  BY <2>7, <2>8, <2>9 DEF Ending
<1>17. NeverErrorQuit'
  BY <1>0, <1>t, <1>x, SlotIs DEF Types, NeverErrorQuit, Current
<1> HIDE DEF Goto, Take, Accept
<1>18. QED
  BY <1>1, <1>2, <1>3, <1>4, <1>5, <1>6, <1>7, <1>8, <1>9, <1>10, <1>11, <1>12, <1>13, <1>14,
     <1>15, <1>16, <1>17 DEF IInv

\* The session is on the move to its first pipe and in no queue yet.
LEMMA RequestEnterKeepsInv ==
  ASSUME IInv, RequestEnter
  PROVE  IInv'
<1>0. /\ Types /\ Counted /\ Receiving /\ InHand /\ Clean /\ Stamped /\ Mapped /\ Own
      /\ OnTheWay /\ Settled /\ Requesting /\ Joining /\ MovingOut /\ MovingIn /\ Leaving
      /\ Ending /\ NeverErrorQuit
  BY DEF IInv
<1>t. Pipes \subseteq Threads /\ Acceptor \notin Pipes /\ Acceptor \in Threads
  BY DEF Threads, Pipes
<1>u. \A y \in DOMAIN user : y \in Sessions /\ Current(y)
  BY <1>0, UsersCurrent
<1>x. /\ at[Acceptor] \in Sessions /\ destPipe[at[Acceptor][1]] \in Pipes
      /\ Current(at[Acceptor])
  BY <1>0, <1>t DEF InHand, Requesting, Pipes, Goto, Take, RequestEnter
<1>h. /\ joinQ' = Enqueue(joinQ, destPipe[at[Acceptor][1]], at[Acceptor])
      /\ joinQ \in [Pipes -> Seq(Sessions)] /\ destPipe[at[Acceptor][1]] \in Pipes
      /\ at[Acceptor] \in Sessions
  BY <1>0, <1>x DEF Types, Goto, Take, RequestEnter
<1>q. /\ joinQ' \in [Pipes -> Seq(Sessions)]
      /\ Of(joinQ'[destPipe[at[Acceptor][1]]])
           = Of(joinQ[destPipe[at[Acceptor][1]]]) \cup {at[Acceptor]}
      /\ Once(joinQ[destPipe[at[Acceptor][1]]])
           /\ at[Acceptor] \notin Of(joinQ[destPipe[at[Acceptor][1]]])
           => Once(joinQ'[destPipe[at[Acceptor][1]]])
      /\ \A r \in Pipes : r # destPipe[at[Acceptor][1]] => joinQ'[r] = joinQ[r]
  <2>1. Enqueued(joinQ', Pipes, joinQ, destPipe[at[Acceptor][1]], at[Acceptor])
    BY <1>h, EnqueueIs
  <2>2. QED  BY <2>1 DEF Enqueued
<1> USE DEF Goto, Take, RequestEnter
<1>1. Types'
  BY <1>0, <1>t, <1>x, <1>q, SlotIs DEF Types, PCs, Phases
<1>2. Counted'
  <2>1. \A u \in Threads : u # Acceptor => pc'[u] = pc[u] /\ at'[u] = at[u]
    BY <1>0, <1>t DEF Types
  <2>2. ASSUME NEW r \in Slots
        PROVE  /\ refs[r] \in Nat /\ refs'[r] \in Nat
               /\ Counts(r)' - Holds(Acceptor, r)' = Counts(r) - Holds(Acceptor, r)
               /\ dead'[r] <=> refs'[r] = 0
    BY <1>0, <1>t, <1>x, <1>q, SlotIs DEF Types, InHand, Holding, Counts, Holds, Counted,
       Current
  <2>3. QED  BY <1>0, <1>t, <2>1, <2>2, CountStep
<1>3. Receiving'
  BY <1>0, <1>t, <1>x, <1>q, SlotIs DEF Types, Receiving, Current, Receives
<1>4. InHand'
  BY <1>0, <1>t, <1>x, <1>q, SlotIs DEF Types, InHand, Current, NeverErrorQuit
<1>5. Clean'
  BY <1>0, <1>t, <1>x, <1>q, SlotIs DEF Types, Clean, Current
<1>6. Stamped'
  BY <1>0, <1>t, <1>x, <1>q, SlotIs DEF Types, Stamped, Current
<1>7. Mapped'
  <2>1. UNCHANGED <<free, id, user, userMap, curPipe, destPipe, moving>>
    OBVIOUS
  <2>2. \A r \in Pipes : at'[r] = at[r] /\ (pc'[r] = "entered" <=> pc[r] = "entered")
    BY <1>0, <1>t DEF Types
  <2> HIDE DEF Goto, Take, RequestEnter
  <2>3. QED  BY <1>0, <2>1, <2>2 DEF Mapped, Filed, Current
<1>8. Own'
  BY <1>0, <1>t, <1>x, <1>q, SlotIs DEF Types, Own, Current
<1>9. OnTheWay'
  BY <1>0, <1>t, <1>x, <1>q, SlotIs DEF Types, OnTheWay, Current
<1>10. Settled'
  BY <1>0, <1>t, <1>x, <1>q, SlotIs DEF Types, Settled, Current
<1>11. Requesting'
  BY <1>0, <1>t, <1>x, <1>q, SlotIs DEF Types, Requesting, Current
<1>12. Joining'
  <2>1. ASSUME NEW r \in Pipes
        PROVE  Once(joinQ'[r])
    BY <1>0, <1>x, <1>q DEF Joining, Requesting
  <2>2. ASSUME NEW r \in Pipes, NEW y \in Of(joinQ'[r])
        PROVE  Joins(r, y)'
    <3>1. CASE r = destPipe[at[Acceptor][1]] /\ y = at[Acceptor]
      BY <1>0, <1>x, <3>1 DEF Requesting, Joins, Current
    <3>2. CASE y \in Of(joinQ[r])
      <4>1. Joins(r, y)
        BY <1>0, <3>2 DEF Joining
      <4>2. QED  BY <4>1 DEF Joins, Current
    <3>3. QED  BY <1>q, <3>1, <3>2
  <2> HIDE DEF Goto, Take, RequestEnter
  <2>3. QED  BY <2>1, <2>2 DEF Joining
<1>13. MovingOut'
  BY <1>0, <1>t, <1>x, <1>q, SlotIs DEF Types, MovingOut, Current, MovesOut
<1>14. MovingIn'
  BY <1>0, <1>t, <1>x, <1>q, SlotIs DEF Types, MovingIn, Current, MovesIn
<1>15. Leaving'
  BY <1>0, <1>t, <1>x, <1>q, SlotIs DEF Types, Leaving, Current, Leaves
<1>16. Ending'
  BY <1>0, <1>t, <1>x, <1>q, SlotIs DEF Types, Ending, Current
<1>17. NeverErrorQuit'
  BY <1>0, <1>t, <1>x, <1>q, SlotIs DEF Types, NeverErrorQuit, Current
<1> HIDE DEF Goto, Take, RequestEnter
<1>18. QED
  BY <1>1, <1>2, <1>3, <1>4, <1>5, <1>6, <1>7, <1>8, <1>9, <1>10, <1>11, <1>12, <1>13, <1>14,
     <1>15, <1>16, <1>17 DEF IInv

\* The outstanding receive becomes the worker's reference.
LEMMA TakeReceiveKeepsInv ==
  ASSUME NEW w \in Workers, NEW s \in Slots, IInv, TakeReceive(w, s)
  PROVE  IInv'
<1>0. /\ Types /\ Counted /\ Receiving /\ InHand /\ Clean /\ Stamped /\ Mapped /\ Own
      /\ OnTheWay /\ Settled /\ Requesting /\ Joining /\ MovingOut /\ MovingIn /\ Leaving
      /\ Ending /\ NeverErrorQuit
  BY DEF IInv
<1>t. Pipes \subseteq Threads /\ Acceptor \notin Pipes /\ w \in Threads /\ w \notin Pipes
  BY DEF Threads, Pipes
<1>u. \A y \in DOMAIN user : y \in Sessions /\ Current(y)
  BY <1>0, UsersCurrent
<1>x. s \notin free /\ id[s] \in Sessions /\ id[s][1] = s
  <2>1. refs[s] # 0
    BY <1>0, CountedOnce DEF Types, Goto, Take, TakeReceive
  <2>2. QED  BY <1>0, <2>1 DEF Types, Clean
<1> USE DEF Goto, Take, TakeReceive
<1>1. Types'
  BY <1>0, <1>t, <1>x DEF Types, PCs, Phases
<1>2. Counted'
  <2>1. \A u \in Threads : u # w => pc'[u] = pc[u] /\ at'[u] = at[u]
    BY <1>0, <1>t DEF Types
  <2>2. ASSUME NEW r \in Slots
        PROVE  /\ refs[r] \in Nat /\ refs'[r] \in Nat
               /\ Counts(r)' - Holds(w, r)' = Counts(r) - Holds(w, r)
               /\ dead'[r] <=> refs'[r] = 0
    BY <1>0, <1>t, <1>x DEF Types, InHand, Holding, Counts, Holds, Counted, Current
  <2>3. QED  BY <1>0, <1>t, <2>1, <2>2, CountStep
<1>3. Receiving'
  BY <1>0, <1>t, <1>x DEF Types, Receiving, Current, Receives
<1>4. InHand'
  BY <1>0, <1>t, <1>x DEF Types, InHand, Current, NeverErrorQuit
<1>5. Clean'
  BY <1>0, <1>t, <1>x DEF Types, Clean, Current
<1>6. Stamped'
  BY <1>0, <1>t, <1>x DEF Types, Stamped, Current
<1>7. Mapped'
  BY <1>0, <1>t, <1>x DEF Types, Mapped, Current, Filed
<1>8. Own'
  BY <1>0, <1>t, <1>x DEF Types, Own, Current
<1>9. OnTheWay'
  BY <1>0, <1>t, <1>x DEF Types, OnTheWay, Current
<1>10. Settled'
  BY <1>0, <1>t, <1>x DEF Types, Settled, Current
<1>11. Requesting'
  BY <1>0, <1>t, <1>x DEF Types, Requesting, Current
<1>12. Joining'
  BY <1>0, <1>t, <1>x DEF Types, Joining, Current, Joins
<1>13. MovingOut'
  BY <1>0, <1>t, <1>x DEF Types, MovingOut, Current, MovesOut
<1>14. MovingIn'
  BY <1>0, <1>t, <1>x DEF Types, MovingIn, Current, MovesIn
<1>15. Leaving'
  BY <1>0, <1>t, <1>x DEF Types, Leaving, Current, Leaves
<1>16. Ending'
  BY <1>0, <1>t, <1>x DEF Types, Ending, Current
<1>17. NeverErrorQuit'
  BY <1>0, <1>t, <1>x DEF Types, NeverErrorQuit, Current
<1> HIDE DEF Goto, Take, TakeReceive
<1>18. QED
  BY <1>1, <1>2, <1>3, <1>4, <1>5, <1>6, <1>7, <1>8, <1>9, <1>10, <1>11, <1>12, <1>13, <1>14,
     <1>15, <1>16, <1>17 DEF IInv

\* What is received goes to the jobs of the session that has the slot.
LEMMA OnRecvKeepsInv ==
  ASSUME NEW w \in Workers, IInv, OnRecv(w)
  PROVE  IInv'
<1>0. /\ Types /\ Counted /\ Receiving /\ InHand /\ Clean /\ Stamped /\ Mapped /\ Own
      /\ OnTheWay /\ Settled /\ Requesting /\ Joining /\ MovingOut /\ MovingIn /\ Leaving
      /\ Ending /\ NeverErrorQuit
  BY DEF IInv
<1>t. Pipes \subseteq Threads /\ Acceptor \notin Pipes /\ w \in Threads /\ w \notin Pipes
  BY DEF Threads, Pipes
<1>u. \A y \in DOMAIN user : y \in Sessions /\ Current(y)
  BY <1>0, UsersCurrent
<1>x. /\ at[w] \in Sessions /\ at[w][1] \in Slots /\ Current(at[w])
      /\ at[w][1] \notin free /\ id[at[w][1]] = at[w]
  BY <1>0, <1>t, SlotIs DEF InHand, Current, Goto, Take, OnRecv
<1>h. /\ jobQ' = Enqueue(jobQ, at[w][1], at[w])
      /\ jobQ \in [Slots -> Seq(Sessions)] /\ at[w][1] \in Slots /\ at[w] \in Sessions
  BY <1>0, <1>x DEF Types, Goto, Take, OnRecv
<1>q. /\ jobQ' \in [Slots -> Seq(Sessions)]
      /\ Of(jobQ'[at[w][1]]) = Of(jobQ[at[w][1]]) \cup {at[w]}
      /\ Once(jobQ[at[w][1]]) /\ at[w] \notin Of(jobQ[at[w][1]]) => Once(jobQ'[at[w][1]])
      /\ \A r \in Slots : r # at[w][1] => jobQ'[r] = jobQ[r]
  <2>1. Enqueued(jobQ', Slots, jobQ, at[w][1], at[w])
    BY <1>h, EnqueueIs
  <2>2. QED  BY <2>1 DEF Enqueued
<1> USE DEF Goto, Take, OnRecv
<1>1. Types'
  BY <1>0, <1>t, <1>x, <1>q DEF Types, PCs, Phases
<1>2. Counted'
  <2>1. \A u \in Threads : u # w => pc'[u] = pc[u] /\ at'[u] = at[u]
    BY <1>0, <1>t DEF Types
  <2>2. ASSUME NEW r \in Slots
        PROVE  /\ refs[r] \in Nat /\ refs'[r] \in Nat
               /\ Counts(r)' - Holds(w, r)' = Counts(r) - Holds(w, r)
               /\ dead'[r] <=> refs'[r] = 0
    BY <1>0, <1>t, <1>x, <1>q DEF Types, InHand, Holding, Counts, Holds, Counted, Current
  <2>3. QED  BY <1>0, <1>t, <2>1, <2>2, CountStep
<1>3. Receiving'
  BY <1>0, <1>t, <1>x, <1>q DEF Types, Receiving, Current, Receives
<1>4. InHand'
  BY <1>0, <1>t, <1>x, <1>q DEF Types, InHand, Current, NeverErrorQuit
<1>5. Clean'
  <2>1. UNCHANGED <<free, curPipe, refs, id, issued>>
    OBVIOUS
  <2> HIDE DEF Goto, Take, OnRecv
  <2>2. ASSUME NEW r \in Slots
        PROVE  (r \in free => jobQ'[r] = <<>>) /\ Of(jobQ'[r]) \subseteq {id[r]}
    <3>1. CASE r = at[w][1]
      BY <1>0, <1>x, <1>q, <3>1 DEF Clean
    <3>2. CASE r # at[w][1]
      BY <1>0, <1>q, <3>2 DEF Clean
    <3>3. QED  BY <3>1, <3>2
  <2>3. QED  BY <1>0, <2>1, <2>2 DEF Clean
<1>6. Stamped'
  BY <1>0, <1>t, <1>x, <1>q DEF Types, Stamped, Current
<1>7. Mapped'
  BY <1>0, <1>t, <1>x, <1>q DEF Types, Mapped, Current, Filed
<1>8. Own'
  BY <1>0, <1>t, <1>x, <1>q DEF Types, Own, Current
<1>9. OnTheWay'
  BY <1>0, <1>t, <1>x, <1>q DEF Types, OnTheWay, Current
<1>10. Settled'
  BY <1>0, <1>t, <1>x, <1>q DEF Types, Settled, Current
<1>11. Requesting'
  BY <1>0, <1>t, <1>x, <1>q DEF Types, Requesting, Current
<1>12. Joining'
  BY <1>0, <1>t, <1>x, <1>q DEF Types, Joining, Current, Joins
<1>13. MovingOut'
  BY <1>0, <1>t, <1>x, <1>q DEF Types, MovingOut, Current, MovesOut
<1>14. MovingIn'
  BY <1>0, <1>t, <1>x, <1>q DEF Types, MovingIn, Current, MovesIn
<1>15. Leaving'
  BY <1>0, <1>t, <1>x, <1>q DEF Types, Leaving, Current, Leaves
<1>16. Ending'
  BY <1>0, <1>t, <1>x, <1>q DEF Types, Ending, Current
<1>17. NeverErrorQuit'
  BY <1>0, <1>t, <1>x, <1>q DEF Types, NeverErrorQuit, Current
<1> HIDE DEF Goto, Take, OnRecv
<1>18. QED
  BY <1>1, <1>2, <1>3, <1>4, <1>5, <1>6, <1>7, <1>8, <1>9, <1>10, <1>11, <1>12, <1>13, <1>14,
     <1>15, <1>16, <1>17 DEF IInv

\* Nothing but the flag changes.
LEMMA OnRecvEndsKeepsInv ==
  ASSUME NEW w \in Workers, IInv, OnRecvEnds(w)
  PROVE  IInv'
<1>0. /\ Types /\ Counted /\ Receiving /\ InHand /\ Clean /\ Stamped /\ Mapped /\ Own
      /\ OnTheWay /\ Settled /\ Requesting /\ Joining /\ MovingOut /\ MovingIn /\ Leaving
      /\ Ending /\ NeverErrorQuit
  BY DEF IInv
<1>t. Pipes \subseteq Threads /\ Acceptor \notin Pipes /\ w \in Threads /\ w \notin Pipes
  BY DEF Threads, Pipes
<1>u. \A y \in DOMAIN user : y \in Sessions /\ Current(y)
  BY <1>0, UsersCurrent
<1> USE DEF Goto, Take, OnRecvEnds
<1>1. Types'
  BY <1>0, <1>t DEF Types, PCs, Phases
<1>2. Counted'
  <2>1. \A u \in Threads : u # w => pc'[u] = pc[u] /\ at'[u] = at[u]
    BY <1>0, <1>t DEF Types
  <2>2. ASSUME NEW r \in Slots
        PROVE  /\ refs[r] \in Nat /\ refs'[r] \in Nat
               /\ Counts(r)' - Holds(w, r)' = Counts(r) - Holds(w, r)
               /\ dead'[r] <=> refs'[r] = 0
    BY <1>0, <1>t DEF Types, InHand, Holding, Counts, Holds, Counted, Current
  <2>3. QED  BY <1>0, <1>t, <2>1, <2>2, CountStep
<1>3. Receiving'
  BY <1>0, <1>t DEF Types, Receiving, Current, Receives
<1>4. InHand'
  BY <1>0, <1>t DEF Types, InHand, Current, NeverErrorQuit
<1>5. Clean'
  BY <1>0, <1>t DEF Types, Clean, Current
<1>6. Stamped'
  BY <1>0, <1>t DEF Types, Stamped, Current
<1>7. Mapped'
  BY <1>0, <1>t DEF Types, Mapped, Current, Filed
<1>8. Own'
  BY <1>0, <1>t DEF Types, Own, Current
<1>9. OnTheWay'
  BY <1>0, <1>t DEF Types, OnTheWay, Current
<1>10. Settled'
  BY <1>0, <1>t DEF Types, Settled, Current
<1>11. Requesting'
  BY <1>0, <1>t DEF Types, Requesting, Current
<1>12. Joining'
  BY <1>0, <1>t DEF Types, Joining, Current, Joins
<1>13. MovingOut'
  BY <1>0, <1>t DEF Types, MovingOut, Current, MovesOut
<1>14. MovingIn'
  BY <1>0, <1>t DEF Types, MovingIn, Current, MovesIn
<1>15. Leaving'
  BY <1>0, <1>t DEF Types, Leaving, Current, Leaves
<1>16. Ending'
  BY <1>0, <1>t DEF Types, Ending, Current
<1>17. NeverErrorQuit'
  BY <1>0, <1>t DEF Types, NeverErrorQuit, Current
<1> HIDE DEF Goto, Take, OnRecvEnds
<1>18. QED
  BY <1>1, <1>2, <1>3, <1>4, <1>5, <1>6, <1>7, <1>8, <1>9, <1>10, <1>11, <1>12, <1>13, <1>14,
     <1>15, <1>16, <1>17 DEF IInv

\* The worker's reference becomes two: its own, and the receive's.
LEMMA RecvPostKeepsInv ==
  ASSUME NEW t \in Threads, IInv, RecvPost(t)
  PROVE  IInv'
<1>0. /\ Types /\ Counted /\ Receiving /\ InHand /\ Clean /\ Stamped /\ Mapped /\ Own
      /\ OnTheWay /\ Settled /\ Requesting /\ Joining /\ MovingOut /\ MovingIn /\ Leaving
      /\ Ending /\ NeverErrorQuit
  BY DEF IInv
<1>t. Pipes \subseteq Threads /\ Acceptor \notin Pipes /\ t \in Threads
  BY DEF Threads, Pipes
<1>u. \A y \in DOMAIN user : y \in Sessions /\ Current(y)
  BY <1>0, UsersCurrent
<1>x. /\ at[t] \in Sessions /\ at[t][1] \in Slots /\ Current(at[t])
      /\ at[t][1] \notin free /\ id[at[t][1]] = at[t]
  BY <1>0, <1>t, SlotIs DEF InHand, Current, Goto, Take, RecvPost
<1>e. /\ pc[t] = "recvPost" /\ pc'[t] = "back" /\ at'[t] = at[t] /\ t \notin Pipes
      /\ ~recv[at[t][1]] /\ recv'[at[t][1]] = TRUE /\ refs'[at[t][1]] = refs[at[t][1]] + 1
      /\ UNCHANGED <<dead, moving>>
      /\ \A r \in Slots : r # at[t][1] => refs'[r] = refs[r] /\ recv'[r] = recv[r]
      /\ ~dead[at[t][1]]
      /\ \A r \in Slots : refs[r] \in Nat /\ (dead[r] <=> refs[r] = 0)
      /\ \A u \in Threads : u # t => pc'[u] = pc[u] /\ at'[u] = at[u]
  BY <1>0, <1>t, <1>x, CountedOnce DEF Types, Counted, Goto, Take, RecvPost, Receiving,
     Receives, InHand, Holding
<1> USE DEF Goto, Take, RecvPost
<1>1. Types'
  BY <1>0, <1>t, <1>x, <1>e, SMTT(30) DEF Types, PCs, Phases
<1>2. Counted'
  <2> HIDE DEF Goto, Take, RecvPost
  <2>1. \A u \in Threads : u # t => pc'[u] = pc[u] /\ at'[u] = at[u]
    BY <1>e
  <2>2. ASSUME NEW r \in Slots
        PROVE  /\ refs[r] \in Nat /\ refs'[r] \in Nat
               /\ Counts(r)' - Holds(t, r)' = Counts(r) - Holds(t, r)
               /\ dead'[r] <=> refs'[r] = 0
    BY <1>e, <1>x DEF Counts, Holds, Holding
  <2>3. QED  BY <1>0, <1>t, <2>1, <2>2, CountStep
<1>3. Receiving'
  BY <1>0, <1>t, <1>x, <1>e DEF Types, Receiving, Current, Receives
<1>4. InHand'
  BY <1>0, <1>t, <1>x, <1>e DEF Types, InHand, Current, NeverErrorQuit
<1>5. Clean'
  BY <1>0, <1>t, <1>x, <1>e DEF Types, Clean, Current
<1>6. Stamped'
  BY <1>0, <1>t, <1>x, <1>e DEF Types, Stamped, Current
<1>7. Mapped'
  BY <1>0, <1>t, <1>x, <1>e DEF Types, Mapped, Current, Filed
<1>8. Own'
  BY <1>0, <1>t, <1>x, <1>e DEF Types, Own, Current
<1>9. OnTheWay'
  BY <1>0, <1>t, <1>x, <1>e DEF Types, OnTheWay, Current
<1>10. Settled'
  BY <1>0, <1>t, <1>x, <1>e DEF Types, Settled, Current
<1>11. Requesting'
  BY <1>0, <1>t, <1>x, <1>e DEF Types, Requesting, Current
<1>12. Joining'
  BY <1>0, <1>t, <1>x, <1>e DEF Types, Joining, Current, Joins
<1>13. MovingOut'
  BY <1>0, <1>t, <1>x, <1>e DEF Types, MovingOut, Current, MovesOut
<1>14. MovingIn'
  BY <1>0, <1>t, <1>x, <1>e DEF Types, MovingIn, Current, MovesIn
<1>15. Leaving'
  BY <1>0, <1>t, <1>x, <1>e DEF Types, Leaving, Current, Leaves
<1>16. Ending'
  BY <1>0, <1>t, <1>x, <1>e DEF Types, Ending, Current
<1>17. NeverErrorQuit'
  BY <1>0, <1>t, <1>x, <1>e DEF Types, NeverErrorQuit, Current
<1> HIDE DEF Goto, Take, RecvPost
<1>18. QED
  BY <1>1, <1>2, <1>3, <1>4, <1>5, <1>6, <1>7, <1>8, <1>9, <1>10, <1>11, <1>12, <1>13, <1>14,
     <1>15, <1>16, <1>17 DEF IInv

\* The last reference is given back when nothing moves or is received any more, so the
\* user is in a map.
LEMMA GiveBackKeepsInv ==
  ASSUME NEW t \in Threads, IInv, GiveBack(t)
  PROVE  IInv'
<1>0. /\ Types /\ Counted /\ Receiving /\ InHand /\ Clean /\ Stamped /\ Mapped /\ Own
      /\ OnTheWay /\ Settled /\ Requesting /\ Joining /\ MovingOut /\ MovingIn /\ Leaving
      /\ Ending /\ NeverErrorQuit
  BY DEF IInv
<1>t. Pipes \subseteq Threads /\ Acceptor \notin Pipes /\ t \in Threads
  BY DEF Threads, Pipes
<1>u. \A y \in DOMAIN user : y \in Sessions /\ Current(y)
  BY <1>0, UsersCurrent
<1>x. /\ at[t] \in Sessions /\ at[t][1] \in Slots /\ Current(at[t])
      /\ at[t][1] \notin free /\ id[at[t][1]] = at[t]
  BY <1>0, <1>t, SlotIs DEF InHand, Current, Goto, Take, GiveBack
<1>f. /\ refs[at[t][1]] \in Nat \ {0} /\ ~dead[at[t][1]] /\ pc[t] = "back"
      /\ refs[at[t][1]] = 1 => /\ ~recv[at[t][1]] /\ ~moving[at[t][1]]
                              /\ curPipe[at[t][1]] \in Pipes
                              /\ at[t] \in userMap[curPipe[at[t][1]]]
  <2>1. pc[t] \in Holding /\ refs[at[t][1]] \in Nat
    BY <1>0, <1>x DEF Types, Holding, Goto, Take, GiveBack
  <2>2. /\ refs[at[t][1]] > 0 /\ ~dead[at[t][1]]
        /\ (refs[at[t][1]] = 1 => ~recv[at[t][1]] /\ ~moving[at[t][1]])
    BY <1>0, <1>t, <1>x, <2>1, CountedOnce
  <2>3. QED  BY <1>0, <1>x, <2>1, <2>2 DEF Settled, Goto, Take, GiveBack
<1>e. /\ pc[t] = "back" /\ pc'[t] \notin Holding /\ at' = at
      /\ pc'[t] \in {"release", "loop", "msg", "moveEnd"}
      /\ pc'[t] = "release" => refs[at[t][1]] = 1
      /\ refs'[at[t][1]] = refs[at[t][1]] - 1
      /\ UNCHANGED <<recv, moving, user, userMap, curPipe>>
      /\ \A r \in Slots : r # at[t][1] => refs'[r] = refs[r] /\ dead'[r] = dead[r]
      /\ \A r \in Slots : refs[r] \in Nat /\ (dead[r] <=> refs[r] = 0)
      /\ \A u \in Threads : u # t => pc'[u] = pc[u] /\ at'[u] = at[u]
  BY <1>0, <1>t, <1>x, <1>f DEF Types, Counted, Goto, Take, GiveBack, Holding
<1>b. dead'[at[t][1]] <=> refs[at[t][1]] = 1
  <2>1. dead' = [dead EXCEPT ![at[t][1]] = (refs[at[t][1]] = 1)] /\ dead \in [Slots -> BOOLEAN]
    BY <1>0 DEF Types, Goto, Take, GiveBack
  <2>2. dead'[at[t][1]] = (refs[at[t][1]] = 1)
    BY <1>x, <2>1
  <2>3. QED  BY <2>2
<1> USE DEF Goto, Take, GiveBack
<1>1. Types'
  BY <1>0, <1>t, <1>x, <1>f DEF Types, PCs, Phases
<1>2. Counted'
  <2> HIDE DEF Goto, Take, GiveBack
  <2>1. \A u \in Threads : u # t => pc'[u] = pc[u] /\ at'[u] = at[u]
    BY <1>e
  <2>2. ASSUME NEW r \in Slots
        PROVE  /\ refs[r] \in Nat /\ refs'[r] \in Nat
               /\ Counts(r)' - Holds(t, r)' = Counts(r) - Holds(t, r)
               /\ dead'[r] <=> refs'[r] = 0
    <3>1. CASE r = at[t][1]
      <4>1. Holds(t, r) = 1 /\ Holds(t, r)' = 0
        BY <1>e, <3>1 DEF Holds, Holding
      <4>2. /\ refs[r] \in Nat /\ refs[r] > 0 /\ refs'[r] = refs[r] - 1
            /\ (dead'[r] <=> refs[r] = 1)
        BY <1>e, <1>x, <1>f, <1>b, <3>1
      <4>3. recv'[r] = recv[r] /\ moving'[r] = moving[r]
        BY <1>e
      <4>4. QED  BY <4>1, <4>2, <4>3 DEF Counts
    <3>2. CASE r # at[t][1]
      BY <1>e, <3>2 DEF Counts, Holds
    <3>3. QED  BY <3>1, <3>2
  <2>3. QED  BY <1>0, <1>t, <2>1, <2>2, CountStep
<1>3. Receiving'
  BY <1>0, <1>t, <1>x, <1>f DEF Types, Receiving, Current, Receives
<1>4. InHand'
  BY <1>0, <1>t, <1>x, <1>f DEF Types, InHand, Current, NeverErrorQuit
<1>5. Clean'
  BY <1>0, <1>t, <1>x, <1>f DEF Types, Clean, Current
<1>6. Stamped'
  BY <1>0, <1>t, <1>x, <1>f DEF Types, Stamped, Current
<1>7. Mapped'
  <2>1. UNCHANGED <<free, id, user, userMap, curPipe, destPipe, moving>>
    OBVIOUS
  <2>2. \A r \in Pipes : at'[r] = at[r] /\ (pc'[r] = "entered" <=> pc[r] = "entered")
    BY <1>0, <1>t, <1>f DEF Types
  <2> HIDE DEF Goto, Take, GiveBack
  <2>3. QED  BY <1>0, <2>1, <2>2 DEF Mapped, Filed, Current
<1>8. Own'
  BY <1>0, <1>t, <1>x, <1>f DEF Types, Own, Current
<1>9. OnTheWay'
  BY <1>0, <1>t, <1>x, <1>f DEF Types, OnTheWay, Current
<1>10. Settled'
  BY <1>0, <1>t, <1>x, <1>f DEF Types, Settled, Current
<1>11. Requesting'
  BY <1>0, <1>t, <1>x, <1>f DEF Types, Requesting, Current, InHand
<1>12. Joining'
  BY <1>0, <1>t, <1>x, <1>f DEF Types, Joining, Current, Joins
<1>13. MovingOut'
  BY <1>0, <1>t, <1>x, <1>f DEF Types, MovingOut, Current, MovesOut
<1>14. MovingIn'
  BY <1>0, <1>t, <1>x, <1>f DEF Types, MovingIn, Current, MovesIn
<1>15. Leaving'
  BY <1>0, <1>t, <1>x, <1>f DEF Types, Leaving, Current, Leaves
<1>16. Ending'
  <2> HIDE DEF Goto, Take, GiveBack
  <2>1. ASSUME NEW u \in Threads, pc[u] \in {"release", "destroy"}
        PROVE  at[u][1] \in Slots /\ at[u][1] # at[t][1]
    BY <1>0, <1>f, <2>1, SlotIs DEF Ending, InHand
  <2>7. ASSUME NEW u \in Threads, pc'[u] = "release"
        PROVE  /\ dead'[at'[u][1]] /\ curPipe'[at'[u][1]] \in Pipes
               /\ at'[u] \in userMap'[curPipe'[at'[u][1]]]
    BY <1>0, <1>f, <1>b, <1>e, <2>1, <2>7 DEF Ending
  <2>8. ASSUME NEW u \in Threads, pc'[u] = "destroy"
        PROVE  dead'[at'[u][1]] /\ at'[u] \notin DOMAIN user'
    BY <1>0, <1>e, <2>1, <2>8 DEF Ending
  <2>9. ASSUME NEW u \in Threads, NEW v \in Threads, at'[u] = at'[v],
               pc'[u] \in {"release", "destroy"}, pc'[v] \in {"release", "destroy"}
        PROVE  u = v
    BY <1>0, <1>e, <2>1, <2>9 DEF Ending
  <2> HIDE DEF Goto, Take, GiveBack
  <2>10. QED  BY <2>7, <2>8, <2>9 DEF Ending
<1>17. NeverErrorQuit'
  BY <1>0, <1>t, <1>x, <1>f DEF Types, NeverErrorQuit, Current
<1> HIDE DEF Goto, Take, GiveBack
<1>18. QED
  BY <1>1, <1>2, <1>3, <1>4, <1>5, <1>6, <1>7, <1>8, <1>9, <1>10, <1>11, <1>12, <1>13, <1>14,
     <1>15, <1>16, <1>17 DEF IInv

\* curPipe_ is the pipe that has the user, which is told once.
LEMMA ReleaseSessionKeepsInv ==
  ASSUME NEW t \in Threads, IInv, ReleaseSession(t)
  PROVE  IInv'
<1>0. /\ Types /\ Counted /\ Receiving /\ InHand /\ Clean /\ Stamped /\ Mapped /\ Own
      /\ OnTheWay /\ Settled /\ Requesting /\ Joining /\ MovingOut /\ MovingIn /\ Leaving
      /\ Ending /\ NeverErrorQuit
  BY DEF IInv
<1>t. Pipes \subseteq Threads /\ Acceptor \notin Pipes /\ t \in Threads
  BY DEF Threads, Pipes
<1>u. \A y \in DOMAIN user : y \in Sessions /\ Current(y)
  BY <1>0, UsersCurrent
<1>x. /\ at[t] \in Sessions /\ at[t][1] \in Slots /\ Current(at[t])
      /\ at[t][1] \notin free /\ id[at[t][1]] = at[t]
  BY <1>0, <1>t, SlotIs DEF InHand, Current, Goto, Take, ReleaseSession
<1>f. /\ dead[at[t][1]] /\ curPipe[at[t][1]] \in Pipes /\ curPipe[at[t][1]] # None
      /\ at[t] \in userMap[curPipe[at[t][1]]] /\ at[t] \notin Of(leaveQ[curPipe[at[t][1]]])
      /\ pc[t] = "release" /\ pc'[t] = then[t]
  BY <1>0, <1>t DEF Ending, Leaving, Leaves, Types, Goto, Take, ReleaseSession
<1>h. /\ leaveQ' = Enqueue(leaveQ, curPipe[at[t][1]], at[t])
      /\ leaveQ \in [Pipes -> Seq(Sessions)] /\ curPipe[at[t][1]] \in Pipes
      /\ at[t] \in Sessions
  BY <1>0, <1>x, <1>f DEF Types, Goto, Take, ReleaseSession
<1>q. /\ leaveQ' \in [Pipes -> Seq(Sessions)]
      /\ Of(leaveQ'[curPipe[at[t][1]]]) = Of(leaveQ[curPipe[at[t][1]]]) \cup {at[t]}
      /\ Once(leaveQ[curPipe[at[t][1]]]) /\ at[t] \notin Of(leaveQ[curPipe[at[t][1]]])
           => Once(leaveQ'[curPipe[at[t][1]]])
      /\ \A r \in Pipes : r # curPipe[at[t][1]] => leaveQ'[r] = leaveQ[r]
  <2>1. Enqueued(leaveQ', Pipes, leaveQ, curPipe[at[t][1]], at[t])
    BY <1>h, EnqueueIs
  <2>2. QED  BY <2>1 DEF Enqueued
<1>e. /\ pc[t] = "release" /\ pc'[t] \in {"loop", "msg", "moveEnd"}
      /\ UNCHANGED <<at, then, free, id, refs, recv, moving, dead, userMap, visit, phase>>
      /\ \A r \in Slots : refs[r] \in Nat /\ (dead[r] <=> refs[r] = 0)
      /\ \A u \in Threads : u # t => pc'[u] = pc[u] /\ at'[u] = at[u]
  BY <1>0, <1>t, <1>x, <1>f DEF Types, Counted, Goto, Take, ReleaseSession
<1> USE DEF Goto, Take, ReleaseSession
<1>1. Types'
  BY <1>0, <1>t, <1>x, <1>f, <1>q DEF Types, PCs, Phases
<1>2. Counted'
  <2> HIDE DEF Goto, Take, ReleaseSession
  <2>1. \A u \in Threads : u # t => pc'[u] = pc[u] /\ at'[u] = at[u]
    BY <1>e
  <2>2. ASSUME NEW r \in Slots
        PROVE  /\ refs[r] \in Nat /\ refs'[r] \in Nat
               /\ Counts(r)' - Holds(t, r)' = Counts(r) - Holds(t, r)
               /\ dead'[r] <=> refs'[r] = 0
    BY <1>e DEF Counts, Holds, Holding
  <2>3. QED  BY <1>0, <1>t, <2>1, <2>2, CountStep
<1>3. Receiving'
  <2> HIDE DEF Goto, Take, ReleaseSession
  <2>1. QED  BY <1>0, <1>e DEF Receiving, Receives
<1>4. InHand'
  <2> HIDE DEF Goto, Take, ReleaseSession
  <2>1. QED  BY <1>0, <1>t, <1>x, <1>f, <1>e DEF InHand, Current
<1>5. Clean'
  BY <1>0, <1>t, <1>x, <1>f, <1>q DEF Types, Clean, Current
<1>6. Stamped'
  BY <1>0, <1>t, <1>x, <1>f, <1>q DEF Types, Stamped, Current
<1>7. Mapped'
  <2>1. UNCHANGED <<free, id, user, userMap, curPipe, destPipe, moving>>
    OBVIOUS
  <2>2. \A r \in Pipes : at'[r] = at[r] /\ (pc'[r] = "entered" <=> pc[r] = "entered")
    BY <1>0, <1>t, <1>f DEF Types
  <2> HIDE DEF Goto, Take, ReleaseSession
  <2>3. QED  BY <1>0, <2>1, <2>2 DEF Mapped, Filed, Current
<1>8. Own'
  <2> HIDE DEF Goto, Take, ReleaseSession
  <2>1. QED  BY <1>0, <1>t, <1>e DEF Own
<1>9. OnTheWay'
  BY <1>0, <1>t, <1>x, <1>f, <1>q DEF Types, OnTheWay, Current
<1>10. Settled'
  BY <1>0, <1>t, <1>x, <1>f, <1>q DEF Types, Settled, Current
<1>11. Requesting'
  BY <1>0, <1>t, <1>x, <1>f, <1>q DEF Types, Requesting, Current, InHand
<1>12. Joining'
  BY <1>0, <1>t, <1>x, <1>f, <1>q DEF Types, Joining, Current, Joins
<1>13. MovingOut'
  BY <1>0, <1>t, <1>x, <1>f, <1>q DEF Types, MovingOut, Current, MovesOut
<1>14. MovingIn'
  BY <1>0, <1>t, <1>x, <1>f, <1>q DEF Types, MovingIn, Current, MovesIn
<1>15. Leaving'
  <2>1. ASSUME NEW r \in Pipes
        PROVE  Once(leaveQ'[r])
    BY <1>0, <1>f, <1>q DEF Leaving
  <2>2. ASSUME NEW r \in Pipes, NEW y \in Of(leaveQ'[r])
        PROVE  Leaves(r, y)'
    <3> HIDE DEF Goto, Take, ReleaseSession
    <3>1. CASE r = curPipe[at[t][1]] /\ y = at[t]
      BY <1>0, <1>t, <1>e, <1>f, <3>1 DEF Leaves, Ending
    <3>2. CASE y \in Of(leaveQ[r])
      <4>1. Leaves(r, y)
        BY <1>0, <3>2 DEF Leaving
      <4>2. QED  BY <1>e, <4>1 DEF Leaves
    <3>3. QED  BY <1>q, <3>1, <3>2
  <2> HIDE DEF Goto, Take, ReleaseSession
  <2>3. QED  BY <2>1, <2>2 DEF Leaving
<1>16. Ending'
  <2>1. UNCHANGED <<dead, curPipe, userMap, user, at>>
    OBVIOUS
  <2>2. \A u \in Threads : pc'[u] \in {"release", "destroy"} => pc'[u] = pc[u]
    BY <1>0, <1>t, <1>f DEF Types
  <2> HIDE DEF Goto, Take, ReleaseSession
  <2>3. QED  BY <1>0, <2>1, <2>2 DEF Ending
<1>17. NeverErrorQuit'
  BY <1>0, <1>t, <1>x, <1>f, <1>q DEF Types, NeverErrorQuit, Current
<1> HIDE DEF Goto, Take, ReleaseSession
<1>18. QED
  BY <1>1, <1>2, <1>3, <1>4, <1>5, <1>6, <1>7, <1>8, <1>9, <1>10, <1>11, <1>12, <1>13, <1>14,
     <1>15, <1>16, <1>17 DEF IInv

\* The user is gone and nobody has the session: the slot can be free.
LEMMA DeleteSessionKeepsInv ==
  ASSUME NEW t \in Threads, IInv, DeleteSession(t)
  PROVE  IInv'
<1>0. /\ Types /\ Counted /\ Receiving /\ InHand /\ Clean /\ Stamped /\ Mapped /\ Own
      /\ OnTheWay /\ Settled /\ Requesting /\ Joining /\ MovingOut /\ MovingIn /\ Leaving
      /\ Ending /\ NeverErrorQuit
  BY DEF IInv
<1>t. Pipes \subseteq Threads /\ Acceptor \notin Pipes /\ t \in Threads
  BY DEF Threads, Pipes
<1>u. \A y \in DOMAIN user : y \in Sessions /\ Current(y)
  BY <1>0, UsersCurrent
<1>x. /\ at[t] \in Sessions /\ at[t][1] \in Slots /\ Current(at[t])
      /\ at[t][1] \notin free /\ id[at[t][1]] = at[t]
  BY <1>0, <1>t, SlotIs DEF InHand, Current, Goto, Take, DeleteSession
<1>d. /\ dead[at[t][1]] /\ at[t] \notin DOMAIN user /\ pc[t] = "destroy" /\ then[t] = "loop"
  BY <1>0, <1>t DEF Ending, InHand, Goto, Take, DeleteSession
<1>f. /\ refs[at[t][1]] = 0 /\ ~recv[at[t][1]] /\ ~moving[at[t][1]]
      /\ \A u \in Threads : at[u][1] = at[t][1] => pc[u] \notin Holding
  BY <1>0, <1>x, <1>d, DeadIs
<1>g. \A y \in DOMAIN user : y[1] # at[t][1]
  BY <1>x, <1>u, <1>d DEF Current
<1>l. ASSUME NEW u \in Threads, u # t, pc[u] # "loop"
      PROVE  at[u][1] # at[t][1]
  <2>1. CASE pc[u] \in Holding
    BY <1>f, <2>1
  <2>2. CASE pc[u] \in {"release", "destroy"}
    BY <1>0, <1>t, <1>x, <1>d, <2>2, <1>l DEF Ending, InHand, Current
  <2>3. CASE pc[u] \in {"entered", "moveEnd", "msg", "failed"}
    <3>1. u \in Pipes /\ at[u] \in userMap[u]
      BY <1>0, <2>3 DEF InHand, Own
    <3>2. at[u] \in DOMAIN user
      BY <1>0, <3>1 DEF Mapped, Filed
    <3>3. QED  BY <1>g, <3>2
  <2>4. pc[u] \in PCs /\ pc[u] # "crashed"
    BY <1>0 DEF Types, NeverErrorQuit
  <2>5. QED  BY <1>l, <2>1, <2>2, <2>3, <2>4 DEF PCs, Holding
<1>e. /\ pc[t] = "destroy" /\ pc'[t] = "loop"
      /\ UNCHANGED <<at, then, refs, recv, dead, user, userMap, visit, phase, id, joinQ,
                      moveInQ, moveOutQ, leaveQ>>
      /\ moving'[at[t][1]] = FALSE /\ jobQ'[at[t][1]] = <<>>
      /\ curPipe'[at[t][1]] = None /\ free' = free \cup {at[t][1]}
      /\ \A r \in Slots : r # at[t][1] =>
           /\ moving'[r] = moving[r] /\ curPipe'[r] = curPipe[r] /\ destPipe'[r] = destPipe[r]
           /\ jobQ'[r] = jobQ[r]
      /\ \A r \in Slots : refs[r] \in Nat /\ (dead[r] <=> refs[r] = 0)
      /\ \A u \in Threads : u # t => pc'[u] = pc[u] /\ at'[u] = at[u]
  BY <1>0, <1>t, <1>x, <1>d DEF Types, Counted, Goto, Take, DeleteSession
<1> USE DEF Goto, Take, DeleteSession
<1>1. Types'
  BY <1>0, <1>t, <1>x, <1>f, <1>g DEF Types, PCs, Phases
<1>2. Counted'
  <2> HIDE DEF Goto, Take, DeleteSession
  <2>1. \A u \in Threads : u # t => pc'[u] = pc[u] /\ at'[u] = at[u]
    BY <1>e
  <2>2. ASSUME NEW r \in Slots
        PROVE  /\ refs[r] \in Nat /\ refs'[r] \in Nat
               /\ Counts(r)' - Holds(t, r)' = Counts(r) - Holds(t, r)
               /\ dead'[r] <=> refs'[r] = 0
    BY <1>e, <1>x, <1>f DEF Counts, Holds, Holding
  <2>3. QED  BY <1>0, <1>t, <2>1, <2>2, CountStep
<1>3. Receiving'
  BY <1>0, <1>t, <1>x, <1>f, <1>g DEF Types, Receiving, Current, Receives
<1>4. InHand'
  <2> HIDE DEF Goto, Take, DeleteSession
  <2>1. ASSUME NEW u \in Threads, pc'[u] # "loop"
        PROVE  /\ u # t /\ pc'[u] = pc[u] /\ at[u] \in Sessions /\ Current(at[u])'
               /\ at[u][1] # at[t][1]
    <3>1. u # t /\ pc'[u] = pc[u]
      BY <1>e, <2>1
    <3>2. at[u] \in Sessions /\ Current(at[u]) /\ at[u][1] # at[t][1]
      BY <1>0, <1>l, <2>1, <3>1 DEF InHand
    <3>3. QED  BY <1>e, <3>1, <3>2 DEF Current
  <2>2. QED  BY <1>0, <1>e, <2>1 DEF InHand
<1>5. Clean'
  BY <1>0, <1>t, <1>x, <1>f, <1>g, OfEmpty DEF Types, Clean, Current
<1>6. Stamped'
  BY <1>0, <1>t, <1>x, <1>f, <1>g DEF Types, Stamped, Current
<1>7. Mapped'
  BY <1>0, <1>t, <1>x, <1>f, <1>g DEF Types, Mapped, Current, Filed
<1>8. Own'
  <2> HIDE DEF Goto, Take, DeleteSession
  <2>1. \A r \in Pipes : pc'[r] # "loop" => pc'[r] = pc[r]
    BY <1>t, <1>e
  <2>2. QED  BY <1>0, <1>e, <2>1 DEF Own
<1>9. OnTheWay'
  BY <1>0, <1>t, <1>x, <1>f, <1>g DEF Types, OnTheWay, Current
<1>10. Settled'
  <2> HIDE DEF Goto, Take, DeleteSession
  <2>1. QED  BY <1>0, <1>d, <1>e DEF Settled
<1>11. Requesting'
  <2> HIDE DEF Goto, Take, DeleteSession
  <2>1. ASSUME pc'[Acceptor] = "request"
        PROVE  /\ pc[Acceptor] = "request" /\ at[Acceptor][1] # at[t][1]
               /\ at[Acceptor][1] \in Slots
    <3>1. Acceptor \in Threads /\ pc[Acceptor] = "request" /\ Acceptor # t
      BY <1>e, <2>1 DEF Threads
    <3>2. QED  BY <1>0, <1>l, <3>1, SlotIs DEF InHand
  <2>2. QED  BY <1>0, <1>e, <2>1 DEF Requesting
<1>12. Joining'
  BY <1>0, <1>t, <1>x, <1>f, <1>g DEF Types, Joining, Current, Joins
<1>13. MovingOut'
  BY <1>0, <1>t, <1>x, <1>f, <1>g DEF Types, MovingOut, Current, MovesOut
<1>14. MovingIn'
  BY <1>0, <1>t, <1>x, <1>f, <1>g DEF Types, MovingIn, Current, MovesIn
<1>15. Leaving'
  <2>1. ASSUME NEW r \in Pipes
        PROVE  Once(leaveQ'[r])
    BY <1>0, <1>e DEF Leaving
  <2>2. ASSUME NEW r \in Pipes, NEW y \in Of(leaveQ'[r])
        PROVE  Leaves(r, y)'
    <3> HIDE DEF Goto, Take, DeleteSession
    <3>1. Leaves(r, y)
      BY <1>0, <1>e DEF Leaving
    <3>2. \A u \in Threads : pc'[u] = "release" => pc[u] = "release"
      BY <1>e
    <3>3. QED  BY <1>e, <3>1, <3>2 DEF Leaves
  <2> HIDE DEF Goto, Take, DeleteSession
  <2>3. QED  BY <2>1, <2>2 DEF Leaving
<1>16. Ending'
  <2> HIDE DEF Goto, Take, DeleteSession
  <2>1. ASSUME NEW u \in Threads, pc'[u] \in {"release", "destroy"}
        PROVE  pc'[u] = pc[u] /\ at[u][1] \in Slots /\ at[u][1] # at[t][1]
    <3>1. u # t /\ pc'[u] = pc[u]
      BY <1>e, <2>1
    <3>2. QED  BY <1>0, <1>l, <2>1, <3>1, SlotIs DEF InHand
  <2>7. ASSUME NEW u \in Threads, pc'[u] = "release"
        PROVE  /\ dead'[at'[u][1]] /\ curPipe'[at'[u][1]] \in Pipes
               /\ at'[u] \in userMap'[curPipe'[at'[u][1]]]
    BY <1>0, <1>e, <2>1, <2>7 DEF Ending
  <2>8. ASSUME NEW u \in Threads, pc'[u] = "destroy"
        PROVE  dead'[at'[u][1]] /\ at'[u] \notin DOMAIN user'
    BY <1>0, <1>e, <2>1, <2>8 DEF Ending
  <2>9. ASSUME NEW u \in Threads, NEW v \in Threads, at'[u] = at'[v],
               pc'[u] \in {"release", "destroy"}, pc'[v] \in {"release", "destroy"}
        PROVE  u = v
    BY <1>0, <1>e, <2>1, <2>9 DEF Ending
  <2> HIDE DEF Goto, Take, DeleteSession
  <2>10. QED  BY <2>7, <2>8, <2>9 DEF Ending
<1>17. NeverErrorQuit'
  BY <1>0, <1>t, <1>x, <1>f, <1>g DEF Types, NeverErrorQuit, Current
<1> HIDE DEF Goto, Take, DeleteSession
<1>18. QED
  BY <1>1, <1>2, <1>3, <1>4, <1>5, <1>6, <1>7, <1>8, <1>9, <1>10, <1>11, <1>12, <1>13, <1>14,
     <1>15, <1>16, <1>17 DEF IInv

\* A frame visits the users it has when their messages begin.
LEMMA NextPhaseKeepsInv ==
  ASSUME NEW p \in Pipes, IInv, NextPhase(p)
  PROVE  IInv'
<1>0. /\ Types /\ Counted /\ Receiving /\ InHand /\ Clean /\ Stamped /\ Mapped /\ Own
      /\ OnTheWay /\ Settled /\ Requesting /\ Joining /\ MovingOut /\ MovingIn /\ Leaving
      /\ Ending /\ NeverErrorQuit
  BY DEF IInv
<1>t. Pipes \subseteq Threads /\ Acceptor \notin Pipes
  BY DEF Threads, Pipes
<1>u. \A y \in DOMAIN user : y \in Sessions /\ Current(y)
  BY <1>0, UsersCurrent
<1>f. After(phase[p]) \in Phases
  <2>1. phase[p] \in Phases
    BY <1>0 DEF Types
  <2>2. QED  BY <2>1 DEF Phases, After
<1> USE DEF Goto, Take, NextPhase, After, Queue
<1>1. Types'
  <2>1. /\ free' \subseteq Slots /\ stamp' \in 0..MaxStamp /\ issued' \subseteq Sessions
        /\ id' \in [Slots -> Sessions \cup {None}] /\ refs' \in [Slots -> Nat]
        /\ dead' \in [Slots -> BOOLEAN] /\ canceled' \in [Slots -> BOOLEAN]
        /\ recv' \in [Slots -> BOOLEAN] /\ moving' \in [Slots -> BOOLEAN]
    BY <1>0, <1>t, <1>f DEF Types, PCs, Phases
  <2>2. /\ curPipe' \in [Slots -> Pipes \cup {None}]
        /\ destPipe' \in [Slots -> Pipes \cup {None}]
        /\ jobQ' \in [Slots -> Seq(Sessions)]
    BY <1>0, <1>t, <1>f DEF Types, PCs, Phases
  <2>3. /\ user' \in [DOMAIN user' -> [pipe : Pipes, moving : BOOLEAN]]
        /\ DOMAIN user' \subseteq Sessions
    BY <1>0, <1>t, <1>f DEF Types
  <2>4. userMap' \in [Pipes -> SUBSET Sessions] /\ visit' \in [Pipes -> SUBSET Sessions]
    BY <1>0, <1>t, <1>f DEF Types, PCs, Phases
  <2>7. /\ joinQ' \in [Pipes -> Seq(Sessions)] /\ moveInQ' \in [Pipes -> Seq(Sessions)]
        /\ moveOutQ' \in [Pipes -> Seq(Sessions)] /\ leaveQ' \in [Pipes -> Seq(Sessions)]
        /\ phase' \in [Pipes -> Phases]
    BY <1>0, <1>t, <1>f DEF Types, PCs, Phases
  <2>5. /\ pc' \in [Threads -> PCs] /\ at' \in [Threads -> Sessions \cup {None}]
        /\ then' \in [Threads -> {"loop", "msg", "moveEnd"}]
    BY <1>0, <1>t, <1>f DEF Types, PCs, Phases
  <2> HIDE DEF Goto, Take, NextPhase, After, Queue
  <2>6. QED  BY <2>1, <2>2, <2>3, <2>4, <2>5, <2>7 DEF Types
<1>2. Counted'
  <2>1. UNCHANGED <<refs, recv, moving, dead, pc, at>>
    OBVIOUS
  <2>2. QED  BY <1>0, <2>1 DEF Counted, Holders
<1>3. Receiving'
  BY <1>0, <1>t DEF Types, Receiving, Current, Receives
<1>4. InHand'
  BY <1>0, <1>t DEF Types, InHand, Current, NeverErrorQuit
<1>5. Clean'
  BY <1>0, <1>t DEF Types, Clean, Current
<1>6. Stamped'
  BY <1>0, <1>t DEF Types, Stamped, Current
<1>7. Mapped'
  BY <1>0, <1>t DEF Types, Mapped, Current, Filed
<1>8. Own'
  BY <1>0, <1>t DEF Types, Own, Current
<1>9. OnTheWay'
  BY <1>0, <1>t DEF Types, OnTheWay, Current
<1>10. Settled'
  BY <1>0, <1>t DEF Types, Settled, Current
<1>11. Requesting'
  BY <1>0, <1>t DEF Types, Requesting, Current
<1>12. Joining'
  BY <1>0, <1>t DEF Types, Joining, Current, Joins
<1>13. MovingOut'
  BY <1>0, <1>t DEF Types, MovingOut, Current, MovesOut
<1>14. MovingIn'
  BY <1>0, <1>t DEF Types, MovingIn, Current, MovesIn
<1>15. Leaving'
  BY <1>0, <1>t DEF Types, Leaving, Current, Leaves
<1>16. Ending'
  BY <1>0, <1>t DEF Types, Ending, Current
<1>17. NeverErrorQuit'
  BY <1>0, <1>t DEF Types, NeverErrorQuit, Current
<1> HIDE DEF Goto, Take, NextPhase, After, Queue
<1>18. QED
  BY <1>1, <1>2, <1>3, <1>4, <1>5, <1>6, <1>7, <1>8, <1>9, <1>10, <1>11, <1>12, <1>13, <1>14,
     <1>15, <1>16, <1>17 DEF IInv

\* Who is in the queue is alive, has no user yet and is meant for this pipe.
LEMMA JoinKeepsInv ==
  ASSUME NEW p \in Pipes, IInv, Join(p)
  PROVE  IInv'
<1>0. /\ Types /\ Counted /\ Receiving /\ InHand /\ Clean /\ Stamped /\ Mapped /\ Own
      /\ OnTheWay /\ Settled /\ Requesting /\ Joining /\ MovingOut /\ MovingIn /\ Leaving
      /\ Ending /\ NeverErrorQuit
  BY DEF IInv
<1>t. Pipes \subseteq Threads /\ Acceptor \notin Pipes /\ p \in Threads /\ p # Acceptor
  BY DEF Threads, Pipes
<1>u. \A y \in DOMAIN user : y \in Sessions /\ Current(y)
  BY <1>0, UsersCurrent
<1>h. /\ joinQ' = Dequeue(joinQ, p) /\ joinQ[p] # <<>>
      /\ joinQ \in [Pipes -> Seq(Sessions)] /\ p \in Pipes
  BY <1>0 DEF Types, Begins, Queue, Goto, Take, Join
<1>q. /\ joinQ' \in [Pipes -> Seq(Sessions)]
      /\ Head(joinQ[p]) \in Sessions /\ Head(joinQ[p]) \in Of(joinQ[p])
      /\ Of(joinQ[p]) = Of(joinQ'[p]) \cup {Head(joinQ[p])}
      /\ Once(joinQ[p]) => Once(joinQ'[p]) /\ Head(joinQ[p]) \notin Of(joinQ'[p])
      /\ \A r \in Pipes : r # p => joinQ'[r] = joinQ[r]
  <2>1. Dequeued(joinQ', Pipes, joinQ, p)
    BY <1>h, DequeueIs
  <2>2. QED  BY <2>1 DEF Dequeued
<1>x. /\ Joins(p, Head(joinQ[p])) /\ Head(joinQ[p])[1] \in Slots /\ ~dead[Head(joinQ[p])[1]]
      /\ Once(joinQ[p]) /\ \A r \in Pipes : Head(joinQ[p]) \notin userMap[r]
  <2>1. Once(joinQ[p]) /\ Joins(p, Head(joinQ[p]))
    BY <1>0, <1>q DEF Joining
  <2>2. Head(joinQ[p])[1] \in Slots
    BY <1>q, SlotIs
  <2>3. QED  BY <1>0, <2>1, <2>2, CountedOnce DEF Mapped, Filed, Joins
<1>e. /\ pc[p] = "loop" /\ pc'[p] = "entered" /\ at'[p] = Head(joinQ[p]) /\ then'[p] = "loop"
      /\ \A u \in Threads : u # p => pc'[u] = pc[u] /\ at'[u] = at[u] /\ then'[u] = then[u]
      /\ DOMAIN user' = DOMAIN user \cup {Head(joinQ[p])}
      /\ user'[Head(joinQ[p])] = [pipe |-> p, moving |-> FALSE]
      /\ \A y \in DOMAIN user : user'[y] = user[y]
      /\ userMap'[p] = userMap[p] \cup {Head(joinQ[p])}
      /\ \A r \in Pipes : r # p => userMap'[r] = userMap[r]
      /\ UNCHANGED <<free, id, dead, moving, curPipe, destPipe, moveInQ>>
  BY <1>0, <1>t, <1>x DEF Types, Joins, Goto, Take, Join
<1> USE DEF Goto, Take, Join
<1>1. Types'
  <2>1. /\ free' \subseteq Slots /\ stamp' \in 0..MaxStamp /\ issued' \subseteq Sessions
        /\ id' \in [Slots -> Sessions \cup {None}] /\ refs' \in [Slots -> Nat]
        /\ dead' \in [Slots -> BOOLEAN] /\ canceled' \in [Slots -> BOOLEAN]
        /\ recv' \in [Slots -> BOOLEAN] /\ moving' \in [Slots -> BOOLEAN]
    BY <1>0, <1>t, <1>q, <1>x DEF Types, PCs, Phases
  <2>2. /\ curPipe' \in [Slots -> Pipes \cup {None}]
        /\ destPipe' \in [Slots -> Pipes \cup {None}]
        /\ jobQ' \in [Slots -> Seq(Sessions)]
    BY <1>0, <1>t, <1>q, <1>x DEF Types, PCs, Phases
  <2>3. /\ user' \in [DOMAIN user' -> [pipe : Pipes, moving : BOOLEAN]]
        /\ DOMAIN user' \subseteq Sessions
    BY <1>0, <1>t, <1>q, <1>x DEF Types
  <2>4. userMap' \in [Pipes -> SUBSET Sessions] /\ visit' \in [Pipes -> SUBSET Sessions]
    BY <1>0, <1>t, <1>q, <1>x DEF Types, PCs, Phases
  <2>7. /\ joinQ' \in [Pipes -> Seq(Sessions)] /\ moveInQ' \in [Pipes -> Seq(Sessions)]
        /\ moveOutQ' \in [Pipes -> Seq(Sessions)] /\ leaveQ' \in [Pipes -> Seq(Sessions)]
        /\ phase' \in [Pipes -> Phases]
    BY <1>0, <1>t, <1>q, <1>x DEF Types, PCs, Phases
  <2>5. /\ pc' \in [Threads -> PCs] /\ at' \in [Threads -> Sessions \cup {None}]
        /\ then' \in [Threads -> {"loop", "msg", "moveEnd"}]
    BY <1>0, <1>t, <1>q, <1>x DEF Types, PCs, Phases
  <2> HIDE DEF Goto, Take, Join
  <2>6. QED  BY <2>1, <2>2, <2>3, <2>4, <2>5, <2>7 DEF Types
<1>2. Counted'
  <2>1. \A u \in Threads : u # p => pc'[u] = pc[u] /\ at'[u] = at[u]
    BY <1>0, <1>t DEF Types
  <2>2. ASSUME NEW r \in Slots
        PROVE  /\ refs[r] \in Nat /\ refs'[r] \in Nat
               /\ Counts(r)' - Holds(p, r)' = Counts(r) - Holds(p, r)
               /\ dead'[r] <=> refs'[r] = 0
    BY <1>0, <1>t, <1>q, <1>x, <1>e DEF Types, InHand, Holding, Counts, Holds, Counted, Current
  <2>3. QED  BY <1>0, <1>t, <2>1, <2>2, CountStep
<1>3. Receiving'
  BY <1>0, <1>t, <1>q, <1>x, <1>e DEF Types, Receiving, Current, Receives
<1>4. InHand'
  <2> HIDE DEF Goto, Take, Join
  <2>1. QED  BY <1>0, <1>t, <1>q, <1>x, <1>e DEF InHand, Joins, Current
<1>5. Clean'
  BY <1>0, <1>t, <1>q, <1>x, <1>e DEF Types, Clean, Current
<1>6. Stamped'
  BY <1>0, <1>t, <1>q, <1>x, <1>e DEF Types, Stamped, Current
<1>7. Mapped'
  <2> HIDE DEF Goto, Take, Join
  <2>1. ASSUME NEW r \in Pipes, NEW y \in userMap'[r]
        PROVE  Filed(r, y)'
    <3>1. CASE y = Head(joinQ[p])
      <4>1. r = p
        BY <1>x, <1>e, <3>1
      <4>2. QED  BY <1>x, <1>e, <3>1, <4>1 DEF Filed, Joins, Current
    <3>2. CASE y # Head(joinQ[p])
      <4>1. Filed(r, y) /\ r \in Threads
        BY <1>0, <1>t, <1>e, <3>2 DEF Mapped
      <4>2. QED  BY <1>e, <3>2, <4>1 DEF Filed, Current
    <3>3. QED  BY <3>1, <3>2
  <2>2. QED  BY <2>1 DEF Mapped
<1>8. Own'
  BY <1>0, <1>t, <1>q, <1>x, <1>e, SMTT(30) DEF Types, Own, Current
<1>9. OnTheWay'
  BY <1>0, <1>t, <1>q, <1>x, <1>e DEF Types, OnTheWay, Current
<1>10. Settled'
  BY <1>0, <1>t, <1>q, <1>x, <1>e DEF Types, Settled, Current
<1>11. Requesting'
  <2> HIDE DEF Goto, Take, Join
  <2>1. pc'[Acceptor] = pc[Acceptor] /\ at'[Acceptor] = at[Acceptor]
    BY <1>t, <1>e DEF Threads
  <2>2. \A r \in Pipes : Of(joinQ'[r]) \subseteq Of(joinQ[r])
    BY <1>q
  <2>3. QED  BY <1>0, <1>q, <1>e, <2>1, <2>2 DEF Requesting
<1>12. Joining'
  <2>1. ASSUME NEW r \in Pipes
        PROVE  Once(joinQ'[r])
    BY <1>0, <1>q DEF Joining
  <2>2. ASSUME NEW r \in Pipes, NEW y \in Of(joinQ'[r])
        PROVE  Joins(r, y)'
    <3> HIDE DEF Goto, Take, Join
    <3>1. Joins(r, y) /\ y # Head(joinQ[p])
      <4>1. CASE r = p
        BY <1>0, <1>q, <1>x, <4>1 DEF Joining
      <4>2. CASE r # p
        BY <1>0, <1>q, <1>x, <4>2 DEF Joining, Joins
      <4>3. QED  BY <4>1, <4>2
    <3>2. QED  BY <1>e, <3>1 DEF Joins, Current
  <2> HIDE DEF Goto, Take, Join
  <2>3. QED  BY <2>1, <2>2 DEF Joining
<1>13. MovingOut'
  BY <1>0, <1>t, <1>q, <1>x, <1>e, SMTT(30) DEF Types, MovingOut, Current, MovesOut
<1>14. MovingIn'
  <2>1. ASSUME NEW r \in Pipes
        PROVE  Once(moveInQ'[r])
    BY <1>0 DEF MovingIn
  <2>2. ASSUME NEW r \in Pipes, NEW y \in Of(moveInQ'[r])
        PROVE  MovesIn(r, y)'
    <3> HIDE DEF Goto, Take, Join
    <3>1. MovesIn(r, y) /\ y # Head(joinQ[p])
      BY <1>0, <1>x, <1>e DEF MovingIn, MovesIn, Joins
    <3>2. QED  BY <1>e, <3>1 DEF MovesIn, Current
  <2> HIDE DEF Goto, Take, Join
  <2>3. QED  BY <2>1, <2>2 DEF MovingIn
<1>15. Leaving'
  BY <1>0, <1>t, <1>q, <1>x, <1>e DEF Types, Leaving, Current, Leaves
<1>16. Ending'
  <2> HIDE DEF Goto, Take, Join
  <2>1. ASSUME NEW u \in Threads, pc'[u] \in {"release", "destroy"}
        PROVE  pc'[u] = pc[u] /\ at'[u] = at[u] /\ at[u] # Head(joinQ[p])
    <3>1. pc'[u] = pc[u] /\ at'[u] = at[u]
      BY <1>e, <2>1
    <3>2. QED  BY <1>0, <1>x, <2>1, <3>1 DEF Ending
  <2>7. ASSUME NEW u \in Threads, pc'[u] = "release"
        PROVE  /\ dead'[at'[u][1]] /\ curPipe'[at'[u][1]] \in Pipes
               /\ at'[u] \in userMap'[curPipe'[at'[u][1]]]
    BY <1>0, <2>1, <2>7, <1>e DEF Ending
  <2>8. ASSUME NEW u \in Threads, pc'[u] = "destroy"
        PROVE  dead'[at'[u][1]] /\ at'[u] \notin DOMAIN user'
    BY <1>0, <2>1, <2>8, <1>e DEF Ending, Joins
  <2>9. ASSUME NEW u \in Threads, NEW v \in Threads, at'[u] = at'[v],
               pc'[u] \in {"release", "destroy"}, pc'[v] \in {"release", "destroy"}
        PROVE  u = v
    BY <1>0, <2>1, <2>9 DEF Ending
  <2> HIDE DEF Goto, Take, Join
  <2>10. QED  BY <2>7, <2>8, <2>9 DEF Ending
<1>17. NeverErrorQuit'
  <2> HIDE DEF Goto, Take, Join
  <2>1. QED  BY <1>0, <1>e DEF NeverErrorQuit
<1> HIDE DEF Goto, Take, Join
<1>18. QED
  BY <1>1, <1>2, <1>3, <1>4, <1>5, <1>6, <1>7, <1>8, <1>9, <1>10, <1>11, <1>12, <1>13, <1>14,
     <1>15, <1>16, <1>17 DEF IInv

\* Who is in the queue is alive, has a user in no map and is meant for this pipe.
LEMMA MoveInKeepsInv ==
  ASSUME NEW p \in Pipes, IInv, MoveIn(p)
  PROVE  IInv'
<1>0. /\ Types /\ Counted /\ Receiving /\ InHand /\ Clean /\ Stamped /\ Mapped /\ Own
      /\ OnTheWay /\ Settled /\ Requesting /\ Joining /\ MovingOut /\ MovingIn /\ Leaving
      /\ Ending /\ NeverErrorQuit
  BY DEF IInv
<1>t. Pipes \subseteq Threads /\ Acceptor \notin Pipes /\ p \in Threads /\ p # Acceptor
  BY DEF Threads, Pipes
<1>u. \A y \in DOMAIN user : y \in Sessions /\ Current(y)
  BY <1>0, UsersCurrent
<1>h. /\ moveInQ' = Dequeue(moveInQ, p) /\ moveInQ[p] # <<>>
      /\ moveInQ \in [Pipes -> Seq(Sessions)] /\ p \in Pipes
  BY <1>0 DEF Types, Begins, Queue, Goto, Take, MoveIn
<1>q. /\ moveInQ' \in [Pipes -> Seq(Sessions)]
      /\ Head(moveInQ[p]) \in Sessions /\ Head(moveInQ[p]) \in Of(moveInQ[p])
      /\ Of(moveInQ[p]) = Of(moveInQ'[p]) \cup {Head(moveInQ[p])}
      /\ Once(moveInQ[p]) => Once(moveInQ'[p]) /\ Head(moveInQ[p]) \notin Of(moveInQ'[p])
      /\ \A r \in Pipes : r # p => moveInQ'[r] = moveInQ[r]
  <2>1. Dequeued(moveInQ', Pipes, moveInQ, p)
    BY <1>h, DequeueIs
  <2>2. QED  BY <2>1 DEF Dequeued
<1>x. /\ MovesIn(p, Head(moveInQ[p])) /\ Head(moveInQ[p])[1] \in Slots
      /\ ~dead[Head(moveInQ[p])[1]] /\ Once(moveInQ[p]) /\ p \notin AuthPipes
      /\ user[Head(moveInQ[p])] \in [pipe : Pipes, moving : BOOLEAN]
  <2>1. Once(moveInQ[p]) /\ MovesIn(p, Head(moveInQ[p]))
    BY <1>0, <1>q DEF MovingIn
  <2>2. Head(moveInQ[p])[1] \in Slots
    BY <1>q, SlotIs
  <2>3. /\ ~dead[Head(moveInQ[p])[1]]
        /\ user[Head(moveInQ[p])] \in [pipe : Pipes, moving : BOOLEAN]
    BY <1>0, <2>1, <2>2, CountedOnce DEF MovesIn, Types
  <2>4. QED  BY <2>1, <2>2, <2>3 DEF MovesIn
<1>e. /\ pc[p] = "loop" /\ pc'[p] = "entered" /\ at'[p] = Head(moveInQ[p])
      /\ then'[p] = "moveEnd"
      /\ \A u \in Threads : u # p => pc'[u] = pc[u] /\ at'[u] = at[u] /\ then'[u] = then[u]
      /\ DOMAIN user' = DOMAIN user
      /\ user'[Head(moveInQ[p])] \in [pipe : Pipes, moving : BOOLEAN]
      /\ user'[Head(moveInQ[p])].pipe = p
      /\ \A y \in DOMAIN user : y # Head(moveInQ[p]) => user'[y] = user[y]
      /\ userMap'[p] = userMap[p] \cup {Head(moveInQ[p])}
      /\ \A r \in Pipes : r # p => userMap'[r] = userMap[r]
      /\ UNCHANGED <<free, id, dead, moving, curPipe, destPipe, visit, phase, joinQ, moveOutQ,
                     leaveQ>>
  BY <1>0, <1>t, <1>x, ZenonT(30) DEF Types, MovesIn, Goto, Take, MoveIn
<1> USE DEF Goto, Take, MoveIn
<1>1. Types'
  <2>1. /\ free' \subseteq Slots /\ stamp' \in 0..MaxStamp /\ issued' \subseteq Sessions
        /\ id' \in [Slots -> Sessions \cup {None}] /\ refs' \in [Slots -> Nat]
        /\ dead' \in [Slots -> BOOLEAN] /\ canceled' \in [Slots -> BOOLEAN]
        /\ recv' \in [Slots -> BOOLEAN] /\ moving' \in [Slots -> BOOLEAN]
    BY <1>0, <1>t, <1>q, <1>x DEF Types, PCs, Phases
  <2>2. /\ curPipe' \in [Slots -> Pipes \cup {None}]
        /\ destPipe' \in [Slots -> Pipes \cup {None}]
        /\ jobQ' \in [Slots -> Seq(Sessions)]
    BY <1>0, <1>t, <1>q, <1>x DEF Types, PCs, Phases
  <2>3. /\ user' \in [DOMAIN user' -> [pipe : Pipes, moving : BOOLEAN]]
        /\ DOMAIN user' \subseteq Sessions
    BY <1>0, <1>t, <1>q, <1>x, <1>e DEF Types
  <2>4. userMap' \in [Pipes -> SUBSET Sessions] /\ visit' \in [Pipes -> SUBSET Sessions]
    BY <1>0, <1>t, <1>q, <1>x DEF Types, PCs, Phases
  <2>7. /\ joinQ' \in [Pipes -> Seq(Sessions)] /\ moveInQ' \in [Pipes -> Seq(Sessions)]
        /\ moveOutQ' \in [Pipes -> Seq(Sessions)] /\ leaveQ' \in [Pipes -> Seq(Sessions)]
        /\ phase' \in [Pipes -> Phases]
    BY <1>0, <1>t, <1>q, <1>x DEF Types, PCs, Phases
  <2>5. /\ pc' \in [Threads -> PCs] /\ at' \in [Threads -> Sessions \cup {None}]
        /\ then' \in [Threads -> {"loop", "msg", "moveEnd"}]
    BY <1>0, <1>t, <1>q, <1>x DEF Types, PCs, Phases
  <2> HIDE DEF Goto, Take, MoveIn
  <2>6. QED  BY <2>1, <2>2, <2>3, <2>4, <2>5, <2>7 DEF Types
<1>2. Counted'
  <2>1. \A u \in Threads : u # p => pc'[u] = pc[u] /\ at'[u] = at[u]
    BY <1>0, <1>t DEF Types
  <2>2. ASSUME NEW r \in Slots
        PROVE  /\ refs[r] \in Nat /\ refs'[r] \in Nat
               /\ Counts(r)' - Holds(p, r)' = Counts(r) - Holds(p, r)
               /\ dead'[r] <=> refs'[r] = 0
    BY <1>0, <1>t, <1>q, <1>x, <1>e DEF Types, InHand, Holding, Counts, Holds, Counted, Current
  <2>3. QED  BY <1>0, <1>t, <2>1, <2>2, CountStep
<1>3. Receiving'
  BY <1>0, <1>t, <1>q, <1>x, <1>e DEF Types, Receiving, Current, Receives
<1>4. InHand'
  <2> HIDE DEF Goto, Take, MoveIn
  <2>1. QED  BY <1>0, <1>t, <1>q, <1>x, <1>e DEF InHand, MovesIn, Current
<1>5. Clean'
  BY <1>0, <1>t, <1>q, <1>x, <1>e DEF Types, Clean, Current
<1>6. Stamped'
  BY <1>0, <1>t, <1>q, <1>x, <1>e DEF Types, Stamped, Current
<1>7. Mapped'
  <2> HIDE DEF Goto, Take, MoveIn
  <2>1. ASSUME NEW r \in Pipes, NEW y \in userMap'[r]
        PROVE  Filed(r, y)'
    <3>1. CASE y = Head(moveInQ[p])
      <4>1. r = p
        BY <1>x, <1>e, <3>1 DEF MovesIn
      <4>2. QED  BY <1>x, <1>e, <3>1, <4>1 DEF Filed, MovesIn, Current
    <3>2. CASE y # Head(moveInQ[p])
      <4>1. Filed(r, y) /\ r \in Threads
        BY <1>0, <1>t, <1>e, <3>2 DEF Mapped
      <4>2. QED  BY <1>e, <3>2, <4>1 DEF Filed, Current
    <3>3. QED  BY <3>1, <3>2
  <2>2. QED  BY <2>1 DEF Mapped
<1>8. Own'
  <2> HIDE DEF Goto, Take, MoveIn
  <2>1. QED  BY <1>0, <1>t, <1>e DEF Own
<1>9. OnTheWay'
  <2> HIDE DEF Goto, Take, MoveIn
  <2>1. ASSUME NEW y \in DOMAIN user'
        PROVE  y \in userMap'[user'[y].pipe] \/ \E r \in Pipes : y \in Of(moveInQ'[r])
    <3>1. CASE y = Head(moveInQ[p])
      BY <1>e, <3>1
    <3>2. CASE y # Head(moveInQ[p])
      <4>1. user'[y] = user[y] /\ user[y].pipe \in Pipes
        BY <1>0, <1>e, <2>1, <3>2 DEF Types
      <4>2. CASE y \in userMap[user[y].pipe]
        BY <1>e, <4>1, <4>2
      <4>3. CASE \E r \in Pipes : y \in Of(moveInQ[r])
        BY <1>q, <3>2, <4>3
      <4>4. QED  BY <1>0, <1>e, <2>1, <4>2, <4>3 DEF OnTheWay
    <3>3. QED  BY <3>1, <3>2
  <2>2. QED  BY <2>1 DEF OnTheWay
<1>10. Settled'
  BY <1>0, <1>t, <1>q, <1>x, <1>e DEF Types, Settled, Current
<1>11. Requesting'
  <2> HIDE DEF Goto, Take, MoveIn
  <2>1. QED  BY <1>0, <1>t, <1>e DEF Requesting, Threads
<1>12. Joining'
  BY <1>0, <1>t, <1>q, <1>x, <1>e DEF Types, Joining, Current, Joins
<1>13. MovingOut'
  <2>1. ASSUME NEW r \in Pipes
        PROVE  Once(moveOutQ'[r])
    BY <1>0 DEF MovingOut
  <2>2. ASSUME NEW r \in Pipes, NEW y \in Of(moveOutQ'[r])
        PROVE  MovesOut(r, y)'
    <3> HIDE DEF Goto, Take, MoveIn
    <3>1. MovesOut(r, y)
      BY <1>0, <1>e DEF MovingOut
    <3>2. QED  BY <1>e, <3>1 DEF MovesOut
  <2> HIDE DEF Goto, Take, MoveIn
  <2>3. QED  BY <2>1, <2>2 DEF MovingOut
<1>14. MovingIn'
  <2>1. ASSUME NEW r \in Pipes
        PROVE  Once(moveInQ'[r])
    BY <1>0, <1>q DEF MovingIn
  <2>2. ASSUME NEW r \in Pipes, NEW y \in Of(moveInQ'[r])
        PROVE  MovesIn(r, y)'
    <3> HIDE DEF Goto, Take, MoveIn
    <3>1. MovesIn(r, y) /\ y # Head(moveInQ[p])
      <4>1. CASE r = p
        BY <1>0, <1>q, <1>x, <4>1 DEF MovingIn
      <4>2. CASE r # p
        <5>1. MovesIn(r, y)
          BY <1>0, <1>q, <4>2 DEF MovingIn
        <5>2. QED  BY <1>x, <4>2, <5>1 DEF MovesIn
      <4>3. QED  BY <4>1, <4>2
    <3>2. QED  BY <1>e, <3>1 DEF MovesIn, Current
  <2> HIDE DEF Goto, Take, MoveIn
  <2>3. QED  BY <2>1, <2>2 DEF MovingIn
<1>15. Leaving'
  <2>1. ASSUME NEW r \in Pipes
        PROVE  Once(leaveQ'[r])
    BY <1>0 DEF Leaving
  <2>2. ASSUME NEW r \in Pipes, NEW y \in Of(leaveQ'[r])
        PROVE  Leaves(r, y)'
    <3> HIDE DEF Goto, Take, MoveIn
    <3>1. Leaves(r, y)
      BY <1>0, <1>e DEF Leaving
    <3>2. QED  BY <1>e, <3>1 DEF Leaves
  <2> HIDE DEF Goto, Take, MoveIn
  <2>3. QED  BY <2>1, <2>2 DEF Leaving
<1>16. Ending'
  <2> HIDE DEF Goto, Take, MoveIn
  <2>1. ASSUME NEW u \in Threads, pc'[u] \in {"release", "destroy"}
        PROVE  pc'[u] = pc[u] /\ at'[u] = at[u]
    BY <1>e, <2>1
  <2>7. ASSUME NEW u \in Threads, pc'[u] = "release"
        PROVE  /\ dead'[at'[u][1]] /\ curPipe'[at'[u][1]] \in Pipes
               /\ at'[u] \in userMap'[curPipe'[at'[u][1]]]
    BY <1>0, <2>1, <2>7, <1>e DEF Ending
  <2>8. ASSUME NEW u \in Threads, pc'[u] = "destroy"
        PROVE  dead'[at'[u][1]] /\ at'[u] \notin DOMAIN user'
    BY <1>0, <2>1, <2>8, <1>e DEF Ending
  <2>9. ASSUME NEW u \in Threads, NEW v \in Threads, at'[u] = at'[v],
               pc'[u] \in {"release", "destroy"}, pc'[v] \in {"release", "destroy"}
        PROVE  u = v
    BY <1>0, <2>1, <2>9 DEF Ending
  <2> HIDE DEF Goto, Take, MoveIn
  <2>10. QED  BY <2>7, <2>8, <2>9 DEF Ending
<1>17. NeverErrorQuit'
  <2> HIDE DEF Goto, Take, MoveIn
  <2>1. QED  BY <1>0, <1>e DEF NeverErrorQuit
<1> HIDE DEF Goto, Take, MoveIn
<1>18. QED
  BY <1>1, <1>2, <1>3, <1>4, <1>5, <1>6, <1>7, <1>8, <1>9, <1>10, <1>11, <1>12, <1>13, <1>14,
     <1>15, <1>16, <1>17 DEF IInv

\* The pipe gets the move's reference in hand.
LEMMA AfterPipeEnterKeepsInv ==
  ASSUME NEW p \in Pipes, IInv, AfterPipeEnter(p)
  PROVE  IInv'
<1>0. /\ Types /\ Counted /\ Receiving /\ InHand /\ Clean /\ Stamped /\ Mapped /\ Own
      /\ OnTheWay /\ Settled /\ Requesting /\ Joining /\ MovingOut /\ MovingIn /\ Leaving
      /\ Ending /\ NeverErrorQuit
  BY DEF IInv
<1>t. Pipes \subseteq Threads /\ Acceptor \notin Pipes /\ p \in Threads /\ p # Acceptor
  BY DEF Threads, Pipes
<1>u. \A y \in DOMAIN user : y \in Sessions /\ Current(y)
  BY <1>0, UsersCurrent
<1>x. /\ at[p] \in Sessions /\ at[p][1] \in Slots /\ Current(at[p])
      /\ at[p][1] \notin free /\ id[at[p][1]] = at[p]
  BY <1>0, <1>t, SlotIs DEF InHand, Current, Goto, Take, AfterPipeEnter
<1>f. /\ at[p] \in userMap[p] /\ at[p] \in DOMAIN user /\ user[at[p]].pipe = p
      /\ moving[at[p][1]] /\ destPipe[at[p][1]] = p /\ ~dead[at[p][1]] /\ pc[p] = "entered"
  <2>1. at[p] \in userMap[p] /\ pc[p] = "entered"
    BY <1>0 DEF Own, Goto, Take, AfterPipeEnter
  <2>2. Filed(p, at[p])
    BY <1>0, <2>1 DEF Mapped
  <2>3. QED  BY <1>0, <1>x, <2>1, <2>2, CountedOnce DEF Filed
<1>k. \A y : Current(y) /\ y # at[p] => y[1] # at[p][1]
  BY <1>x DEF Current
<1>e. /\ pc[p] = "entered" /\ pc'[p] = "back" /\ curPipe'[at[p][1]] = p
      /\ destPipe'[at[p][1]] = None /\ moving'[at[p][1]] = FALSE
      /\ \A r \in Slots : r # at[p][1] =>
           moving'[r] = moving[r] /\ curPipe'[r] = curPipe[r] /\ destPipe'[r] = destPipe[r]
      /\ UNCHANGED <<at, then, refs, recv, dead, user, userMap, visit, phase, free, id, jobQ,
                     joinQ, moveInQ, moveOutQ, leaveQ>>
      /\ \A r \in Slots : refs[r] \in Nat /\ (dead[r] <=> refs[r] = 0)
      /\ \A u \in Threads : u # p => pc'[u] = pc[u] /\ at'[u] = at[u]
  BY <1>0, <1>t, <1>x, <1>f DEF Types, Counted, Goto, Take, AfterPipeEnter
<1> USE DEF Goto, Take, AfterPipeEnter
<1>1. Types'
  BY <1>0, <1>t, <1>x, <1>f DEF Types, PCs, Phases
<1>2. Counted'
  <2> HIDE DEF Goto, Take, AfterPipeEnter
  <2>1. \A u \in Threads : u # p => pc'[u] = pc[u] /\ at'[u] = at[u]
    BY <1>e
  <2>2. ASSUME NEW r \in Slots
        PROVE  /\ refs[r] \in Nat /\ refs'[r] \in Nat
               /\ Counts(r)' - Holds(p, r)' = Counts(r) - Holds(p, r)
               /\ dead'[r] <=> refs'[r] = 0
    BY <1>e, <1>x, <1>f DEF Counts, Holds, Holding
  <2>3. QED  BY <1>0, <1>t, <2>1, <2>2, CountStep
<1>3. Receiving'
  BY <1>0, <1>t, <1>x, <1>f DEF Types, Receiving, Current, Receives
<1>4. InHand'
  BY <1>0, <1>t, <1>x, <1>f DEF Types, InHand, Current, NeverErrorQuit
<1>5. Clean'
  BY <1>0, <1>t, <1>x, <1>f, SMTT(30) DEF Types, Clean, Current
<1>6. Stamped'
  BY <1>0, <1>t, <1>x, <1>f DEF Types, Stamped, Current
<1>7. Mapped'
  <2> HIDE DEF Goto, Take, AfterPipeEnter
  <2>1. ASSUME NEW r \in Pipes, NEW y \in userMap'[r]
        PROVE  Filed(r, y)'
    <3>1. Filed(r, y) /\ r \in Threads
      BY <1>0, <1>t, <1>e DEF Mapped
    <3>2. CASE y = at[p]
      <4>1. r = p
        BY <1>f, <3>1, <3>2 DEF Filed
      <4>2. QED  BY <1>x, <1>f, <1>e, <3>1, <3>2, <4>1 DEF Filed, Current
    <3>3. CASE y # at[p]
      <4>1. y[1] # at[p][1] /\ y[1] \in Slots
        BY <1>k, <1>u, <3>1, <3>3, SlotIs DEF Filed
      <4>2. QED  BY <1>e, <3>1, <3>3, <4>1 DEF Filed, Current
    <3>4. QED  BY <3>2, <3>3
  <2>2. QED  BY <2>1 DEF Mapped
<1>8. Own'
  BY <1>0, <1>t, <1>x, <1>f DEF Types, Own, Current
<1>9. OnTheWay'
  BY <1>0, <1>t, <1>x, <1>f DEF Types, OnTheWay, Current
<1>10. Settled'
  <2> HIDE DEF Goto, Take, AfterPipeEnter
  <2>1. QED  BY <1>0, <1>x, <1>f, <1>e DEF Settled
<1>11. Requesting'
  <2> HIDE DEF Goto, Take, AfterPipeEnter
  <2>1. ASSUME pc'[Acceptor] = "request"
        PROVE  /\ pc[Acceptor] = "request" /\ at[Acceptor][1] # at[p][1]
               /\ at[Acceptor][1] \in Slots
    <3>1. Acceptor \in Threads /\ pc[Acceptor] = "request"
      BY <1>t, <1>e, <2>1 DEF Threads
    <3>2. at[Acceptor] \in Sessions /\ Current(at[Acceptor]) /\ at[Acceptor] # at[p]
      BY <1>0, <1>f, <3>1 DEF InHand, Requesting
    <3>3. QED  BY <1>k, <3>1, <3>2, SlotIs
  <2>2. QED  BY <1>0, <1>e, <2>1 DEF Requesting
<1>12. Joining'
  <2>1. ASSUME NEW r \in Pipes
        PROVE  Once(joinQ'[r])
    BY <1>0 DEF Joining
  <2>2. ASSUME NEW r \in Pipes, NEW y \in Of(joinQ'[r])
        PROVE  Joins(r, y)'
    <3> HIDE DEF Goto, Take, AfterPipeEnter
    <3>1. Joins(r, y)
      BY <1>0, <1>e DEF Joining
    <3>2. y[1] # at[p][1] /\ y[1] \in Slots
      BY <1>k, <1>f, <3>1, SlotIs DEF Joins
    <3>3. QED  BY <1>e, <3>1, <3>2 DEF Joins, Current
  <2> HIDE DEF Goto, Take, AfterPipeEnter
  <2>3. QED  BY <2>1, <2>2 DEF Joining
<1>13. MovingOut'
  <2>1. ASSUME NEW r \in Pipes
        PROVE  Once(moveOutQ'[r])
    BY <1>0 DEF MovingOut
  <2>2. ASSUME NEW r \in Pipes, NEW y \in Of(moveOutQ'[r])
        PROVE  MovesOut(r, y)'
    <3> HIDE DEF Goto, Take, AfterPipeEnter
    <3>1. MovesOut(r, y)
      BY <1>0, <1>e DEF MovingOut
    <3>2. Filed(r, y)
      BY <1>0, <3>1 DEF MovesOut, Mapped
    <3>3. y # at[p]
      BY <1>f, <3>1, <3>2 DEF MovesOut, Filed
    <3>4. y[1] # at[p][1] /\ y[1] \in Slots
      BY <1>k, <1>u, <3>2, <3>3, SlotIs DEF Filed
    <3>5. QED  BY <1>e, <3>1, <3>4 DEF MovesOut, Current
  <2> HIDE DEF Goto, Take, AfterPipeEnter
  <2>3. QED  BY <2>1, <2>2 DEF MovingOut
<1>14. MovingIn'
  <2>1. ASSUME NEW r \in Pipes
        PROVE  Once(moveInQ'[r])
    BY <1>0 DEF MovingIn
  <2>2. ASSUME NEW r \in Pipes, NEW y \in Of(moveInQ'[r])
        PROVE  MovesIn(r, y)'
    <3> HIDE DEF Goto, Take, AfterPipeEnter
    <3>1. MovesIn(r, y)
      BY <1>0, <1>e DEF MovingIn
    <3>2. y # at[p]
      BY <1>f, <3>1 DEF MovesIn
    <3>3. y[1] # at[p][1] /\ y[1] \in Slots
      BY <1>k, <1>u, <3>1, <3>2, SlotIs DEF MovesIn
    <3>4. QED  BY <1>e, <3>1, <3>3 DEF MovesIn, Current
  <2> HIDE DEF Goto, Take, AfterPipeEnter
  <2>3. QED  BY <2>1, <2>2 DEF MovingIn
<1>15. Leaving'
  BY <1>0, <1>t, <1>x, <1>f DEF Types, Leaving, Current, Leaves
<1>16. Ending'
  <2> HIDE DEF Goto, Take, AfterPipeEnter
  <2>1. ASSUME NEW u \in Threads, pc'[u] \in {"release", "destroy"}
        PROVE  pc'[u] = pc[u] /\ at[u][1] \in Slots /\ at[u][1] # at[p][1]
    <3>1. pc'[u] = pc[u]
      BY <1>e, <2>1
    <3>2. QED  BY <1>0, <1>f, <2>1, <3>1, SlotIs DEF Ending, InHand
  <2>7. ASSUME NEW u \in Threads, pc'[u] = "release"
        PROVE  /\ dead'[at'[u][1]] /\ curPipe'[at'[u][1]] \in Pipes
               /\ at'[u] \in userMap'[curPipe'[at'[u][1]]]
    BY <1>0, <2>1, <2>7, <1>e DEF Ending
  <2>8. ASSUME NEW u \in Threads, pc'[u] = "destroy"
        PROVE  dead'[at'[u][1]] /\ at'[u] \notin DOMAIN user'
    BY <1>0, <2>1, <2>8, <1>e DEF Ending
  <2>9. ASSUME NEW u \in Threads, NEW v \in Threads, at'[u] = at'[v],
               pc'[u] \in {"release", "destroy"}, pc'[v] \in {"release", "destroy"}
        PROVE  u = v
    BY <1>0, <1>e, <2>1, <2>9 DEF Ending
  <2> HIDE DEF Goto, Take, AfterPipeEnter
  <2>10. QED  BY <2>7, <2>8, <2>9 DEF Ending
<1>17. NeverErrorQuit'
  <2> HIDE DEF Goto, Take, AfterPipeEnter
  <2>1. QED  BY <1>0, <1>e DEF NeverErrorQuit
<1> HIDE DEF Goto, Take, AfterPipeEnter
<1>18. QED
  BY <1>1, <1>2, <1>3, <1>4, <1>5, <1>6, <1>7, <1>8, <1>9, <1>10, <1>11, <1>12, <1>13, <1>14,
     <1>15, <1>16, <1>17 DEF IInv

\* Only isMoving_ of a user in a game pipe changes.
LEMMA MoveEndKeepsInv ==
  ASSUME NEW p \in Pipes, IInv, MoveEnd(p)
  PROVE  IInv'
<1>0. /\ Types /\ Counted /\ Receiving /\ InHand /\ Clean /\ Stamped /\ Mapped /\ Own
      /\ OnTheWay /\ Settled /\ Requesting /\ Joining /\ MovingOut /\ MovingIn /\ Leaving
      /\ Ending /\ NeverErrorQuit
  BY DEF IInv
<1>t. Pipes \subseteq Threads /\ Acceptor \notin Pipes /\ p \in Threads /\ p # Acceptor
  BY DEF Threads, Pipes
<1>u. \A y \in DOMAIN user : y \in Sessions /\ Current(y)
  BY <1>0, UsersCurrent
<1>x. /\ at[p] \in Sessions /\ at[p][1] \in Slots /\ Current(at[p])
      /\ at[p][1] \notin free /\ id[at[p][1]] = at[p]
  BY <1>0, <1>t, SlotIs DEF InHand, Current, Goto, Take, MoveEnd
<1>f. /\ at[p] \in userMap[p] /\ p \notin AuthPipes /\ at[p] \in DOMAIN user
      /\ user[at[p]] \in [pipe : Pipes, moving : BOOLEAN] /\ user[at[p]].pipe = p
  BY <1>0, <1>t DEF Own, InHand, Mapped, Filed, Types, Goto, Take, MoveEnd
<1>e. /\ pc[p] = "moveEnd" /\ pc'[p] = "loop" /\ at' = at
      /\ \A u \in Threads : u # p => pc'[u] = pc[u]
      /\ DOMAIN user' = DOMAIN user /\ user'[at[p]] \in [pipe : Pipes, moving : BOOLEAN]
      /\ user'[at[p]].pipe = p /\ ~user'[at[p]].moving
      /\ \A y \in DOMAIN user : y # at[p] => user'[y] = user[y]
      /\ UNCHANGED <<free, id, dead, moving, curPipe, destPipe, userMap>>
  BY <1>0, <1>t, <1>f DEF Types, Goto, Take, MoveEnd
<1> USE DEF Goto, Take, MoveEnd
<1>1. Types'
  <2>1. /\ free' \subseteq Slots /\ stamp' \in 0..MaxStamp /\ issued' \subseteq Sessions
        /\ id' \in [Slots -> Sessions \cup {None}] /\ refs' \in [Slots -> Nat]
        /\ dead' \in [Slots -> BOOLEAN] /\ canceled' \in [Slots -> BOOLEAN]
        /\ recv' \in [Slots -> BOOLEAN] /\ moving' \in [Slots -> BOOLEAN]
    BY <1>0, <1>t, <1>x, <1>f, <1>e DEF Types, PCs, Phases
  <2>2. /\ curPipe' \in [Slots -> Pipes \cup {None}]
        /\ destPipe' \in [Slots -> Pipes \cup {None}]
        /\ jobQ' \in [Slots -> Seq(Sessions)]
    BY <1>0, <1>t, <1>x, <1>f, <1>e DEF Types, PCs, Phases
  <2>3. /\ user' \in [DOMAIN user' -> [pipe : Pipes, moving : BOOLEAN]]
        /\ DOMAIN user' \subseteq Sessions
    BY <1>0, <1>t, <1>x, <1>f, <1>e DEF Types
  <2>4. userMap' \in [Pipes -> SUBSET Sessions] /\ visit' \in [Pipes -> SUBSET Sessions]
    BY <1>0, <1>t, <1>x, <1>f, <1>e DEF Types, PCs, Phases
  <2>7. /\ joinQ' \in [Pipes -> Seq(Sessions)] /\ moveInQ' \in [Pipes -> Seq(Sessions)]
        /\ moveOutQ' \in [Pipes -> Seq(Sessions)] /\ leaveQ' \in [Pipes -> Seq(Sessions)]
        /\ phase' \in [Pipes -> Phases]
    BY <1>0, <1>t, <1>x, <1>f, <1>e DEF Types, PCs, Phases
  <2>5. /\ pc' \in [Threads -> PCs] /\ at' \in [Threads -> Sessions \cup {None}]
        /\ then' \in [Threads -> {"loop", "msg", "moveEnd"}]
    BY <1>0, <1>t, <1>x, <1>f, <1>e DEF Types, PCs, Phases
  <2> HIDE DEF Goto, Take, MoveEnd
  <2>6. QED  BY <2>1, <2>2, <2>3, <2>4, <2>5, <2>7 DEF Types
<1>2. Counted'
  <2>1. \A u \in Threads : u # p => pc'[u] = pc[u] /\ at'[u] = at[u]
    BY <1>0, <1>t DEF Types
  <2>2. ASSUME NEW r \in Slots
        PROVE  /\ refs[r] \in Nat /\ refs'[r] \in Nat
               /\ Counts(r)' - Holds(p, r)' = Counts(r) - Holds(p, r)
               /\ dead'[r] <=> refs'[r] = 0
    BY <1>0, <1>t, <1>x, <1>f DEF Types, InHand, Holding, Counts, Holds, Counted, Current
  <2>3. QED  BY <1>0, <1>t, <2>1, <2>2, CountStep
<1>3. Receiving'
  BY <1>0, <1>t, <1>x, <1>f DEF Types, Receiving, Current, Receives
<1>4. InHand'
  BY <1>0, <1>t, <1>x, <1>f DEF Types, InHand, Current, NeverErrorQuit
<1>5. Clean'
  BY <1>0, <1>t, <1>x, <1>f DEF Types, Clean, Current
<1>6. Stamped'
  BY <1>0, <1>t, <1>x, <1>f DEF Types, Stamped, Current
<1>7. Mapped'
  <2> HIDE DEF Goto, Take, MoveEnd
  <2>1. ASSUME NEW r \in Pipes, NEW y \in userMap'[r]
        PROVE  Filed(r, y)'
    <3>1. Filed(r, y) /\ r \in Threads
      BY <1>0, <1>t, <1>e DEF Mapped
    <3>2. CASE y = at[p]
      <4>1. r = p
        BY <1>f, <3>1, <3>2 DEF Filed
      <4>2. QED  BY <1>f, <1>e, <3>1, <3>2, <4>1 DEF Filed, Current
    <3>3. CASE y # at[p]
      BY <1>e, <3>1, <3>3 DEF Filed, Current
    <3>4. QED  BY <3>2, <3>3
  <2>2. QED  BY <2>1 DEF Mapped
<1>8. Own'
  BY <1>0, <1>t, <1>x, <1>f DEF Types, Own, Current
<1>9. OnTheWay'
  BY <1>0, <1>t, <1>x, <1>f DEF Types, OnTheWay, Current
<1>10. Settled'
  BY <1>0, <1>t, <1>x, <1>f DEF Types, Settled, Current
<1>11. Requesting'
  BY <1>0, <1>t, <1>x, <1>f DEF Types, Requesting, Current
<1>12. Joining'
  BY <1>0, <1>t, <1>x, <1>f DEF Types, Joining, Current, Joins
<1>13. MovingOut'
  BY <1>0, <1>t, <1>x, <1>f DEF Types, MovingOut, Current, MovesOut
<1>14. MovingIn'
  BY <1>0, <1>t, <1>x, <1>f DEF Types, MovingIn, Current, MovesIn
<1>15. Leaving'
  BY <1>0, <1>t, <1>x, <1>f DEF Types, Leaving, Current, Leaves
<1>16. Ending'
  BY <1>0, <1>t, <1>x, <1>f DEF Types, Ending, Current
<1>17. NeverErrorQuit'
  BY <1>0, <1>t, <1>x, <1>f DEF Types, NeverErrorQuit, Current
<1> HIDE DEF Goto, Take, MoveEnd
<1>18. QED
  BY <1>1, <1>2, <1>3, <1>4, <1>5, <1>6, <1>7, <1>8, <1>9, <1>10, <1>11, <1>12, <1>13, <1>14,
     <1>15, <1>16, <1>17 DEF IInv

\* The user leaves this map for the queue of the pipe the session names.
LEMMA MoveOutKeepsInv ==
  ASSUME NEW p \in Pipes, IInv, MoveOut(p)
  PROVE  IInv'
<1>0. /\ Types /\ Counted /\ Receiving /\ InHand /\ Clean /\ Stamped /\ Mapped /\ Own
      /\ OnTheWay /\ Settled /\ Requesting /\ Joining /\ MovingOut /\ MovingIn /\ Leaving
      /\ Ending /\ NeverErrorQuit
  BY DEF IInv
<1>t. Pipes \subseteq Threads /\ Acceptor \notin Pipes /\ p \in Threads /\ p # Acceptor
  BY DEF Threads, Pipes
<1>u. \A y \in DOMAIN user : y \in Sessions /\ Current(y)
  BY <1>0, UsersCurrent
<1>h. /\ moveOutQ' = Dequeue(moveOutQ, p) /\ moveOutQ[p] # <<>>
      /\ moveOutQ \in [Pipes -> Seq(Sessions)] /\ p \in Pipes
  BY <1>0 DEF Types, Begins, Queue, Goto, Take, MoveOut
<1>q. /\ moveOutQ' \in [Pipes -> Seq(Sessions)]
      /\ Head(moveOutQ[p]) \in Sessions /\ Head(moveOutQ[p]) \in Of(moveOutQ[p])
      /\ Of(moveOutQ[p]) = Of(moveOutQ'[p]) \cup {Head(moveOutQ[p])}
      /\ Once(moveOutQ[p]) => Once(moveOutQ'[p]) /\ Head(moveOutQ[p]) \notin Of(moveOutQ'[p])
      /\ \A r \in Pipes : r # p => moveOutQ'[r] = moveOutQ[r]
  <2>1. Dequeued(moveOutQ', Pipes, moveOutQ, p)
    BY <1>h, DequeueIs
  <2>2. QED  BY <2>1 DEF Dequeued
<1>x. /\ MovesOut(p, Head(moveOutQ[p])) /\ Head(moveOutQ[p])[1] \in Slots
      /\ ~dead[Head(moveOutQ[p])[1]] /\ Once(moveOutQ[p]) /\ visit[p] = {}
      /\ destPipe[Head(moveOutQ[p])[1]] \in GamePipes
      /\ destPipe[Head(moveOutQ[p])[1]] \in Pipes /\ destPipe[Head(moveOutQ[p])[1]] # None
      /\ p \in AuthPipes /\ p \notin GamePipes
  <2>1. Once(moveOutQ[p]) /\ MovesOut(p, Head(moveOutQ[p]))
    BY <1>0, <1>q DEF MovingOut
  <2>2. Head(moveOutQ[p])[1] \in Slots
    BY <1>q, SlotIs
  <2>3. ~dead[Head(moveOutQ[p])[1]]
    BY <1>0, <2>1, <2>2, CountedOnce DEF MovesOut
  <2>4. visit[p] = {}
    BY <1>0 DEF Own, Begins, Goto, Take, MoveOut
  <2>5. QED  BY <2>1, <2>2, <2>3, <2>4 DEF MovesOut, Pipes
<1>m. /\ moveInQ' = Enqueue(moveInQ, destPipe[Head(moveOutQ[p])[1]], Head(moveOutQ[p]))
      /\ moveInQ \in [Pipes -> Seq(Sessions)] /\ destPipe[Head(moveOutQ[p])[1]] \in Pipes
      /\ Head(moveOutQ[p]) \in Sessions
  BY <1>0, <1>q, <1>x DEF Types, Goto, Take, MoveOut
<1>i. /\ moveInQ' \in [Pipes -> Seq(Sessions)]
      /\ Of(moveInQ'[destPipe[Head(moveOutQ[p])[1]]])
           = Of(moveInQ[destPipe[Head(moveOutQ[p])[1]]]) \cup {Head(moveOutQ[p])}
      /\ Once(moveInQ[destPipe[Head(moveOutQ[p])[1]]])
           /\ Head(moveOutQ[p]) \notin Of(moveInQ[destPipe[Head(moveOutQ[p])[1]]])
           => Once(moveInQ'[destPipe[Head(moveOutQ[p])[1]]])
      /\ \A r \in Pipes : r # destPipe[Head(moveOutQ[p])[1]] => moveInQ'[r] = moveInQ[r]
  <2>1. Enqueued(moveInQ', Pipes, moveInQ, destPipe[Head(moveOutQ[p])[1]], Head(moveOutQ[p]))
    BY <1>m, EnqueueIs
  <2>2. QED  BY <2>1 DEF Enqueued
<1>f. /\ Filed(p, Head(moveOutQ[p]))
      /\ \A r \in Pipes : r # p => Head(moveOutQ[p]) \notin userMap[r]
      /\ \A r \in Pipes : Head(moveOutQ[p]) \notin Of(moveInQ[r])
  <2>1. Filed(p, Head(moveOutQ[p]))
    BY <1>0, <1>x DEF Mapped, MovesOut
  <2>2. QED  BY <1>0, <1>x, <2>1 DEF Mapped, Filed, MovingIn, MovesIn, MovesOut
<1>e. /\ pc[p] = "loop" /\ pc' = pc /\ userMap'[p] = userMap[p] \ {Head(moveOutQ[p])}
      /\ \A r \in Pipes : r # p => userMap'[r] = userMap[r]
      /\ UNCHANGED <<at, then, free, id, dead, moving, curPipe, destPipe, user, visit,
                      phase, joinQ, leaveQ>>
  BY <1>0, <1>t, <1>x DEF Types, MovesOut, Goto, Take, MoveOut
<1> USE DEF Goto, Take, MoveOut
<1>1. Types'
  <2>1. /\ free' \subseteq Slots /\ stamp' \in 0..MaxStamp /\ issued' \subseteq Sessions
        /\ id' \in [Slots -> Sessions \cup {None}] /\ refs' \in [Slots -> Nat]
        /\ dead' \in [Slots -> BOOLEAN] /\ canceled' \in [Slots -> BOOLEAN]
        /\ recv' \in [Slots -> BOOLEAN] /\ moving' \in [Slots -> BOOLEAN]
    BY <1>0, <1>t, <1>q, <1>x, <1>i DEF Types, PCs, Phases
  <2>2. /\ curPipe' \in [Slots -> Pipes \cup {None}]
        /\ destPipe' \in [Slots -> Pipes \cup {None}]
        /\ jobQ' \in [Slots -> Seq(Sessions)]
    BY <1>0, <1>t, <1>q, <1>x, <1>i DEF Types, PCs, Phases
  <2>3. /\ user' \in [DOMAIN user' -> [pipe : Pipes, moving : BOOLEAN]]
        /\ DOMAIN user' \subseteq Sessions
    BY <1>0, <1>t, <1>q, <1>x, <1>i DEF Types
  <2>4. userMap' \in [Pipes -> SUBSET Sessions] /\ visit' \in [Pipes -> SUBSET Sessions]
    BY <1>0, <1>t, <1>q, <1>x, <1>i DEF Types, PCs, Phases
  <2>7. /\ joinQ' \in [Pipes -> Seq(Sessions)] /\ moveInQ' \in [Pipes -> Seq(Sessions)]
        /\ moveOutQ' \in [Pipes -> Seq(Sessions)] /\ leaveQ' \in [Pipes -> Seq(Sessions)]
        /\ phase' \in [Pipes -> Phases]
    BY <1>0, <1>t, <1>q, <1>x, <1>i DEF Types, PCs, Phases
  <2>5. /\ pc' \in [Threads -> PCs] /\ at' \in [Threads -> Sessions \cup {None}]
        /\ then' \in [Threads -> {"loop", "msg", "moveEnd"}]
    BY <1>0, <1>t, <1>q, <1>x, <1>i DEF Types, PCs, Phases
  <2> HIDE DEF Goto, Take, MoveOut
  <2>6. QED  BY <2>1, <2>2, <2>3, <2>4, <2>5, <2>7 DEF Types
<1>2. Counted'
  <2>1. \A u \in Threads : u # p => pc'[u] = pc[u] /\ at'[u] = at[u]
    BY <1>0, <1>t DEF Types
  <2>2. ASSUME NEW r \in Slots
        PROVE  /\ refs[r] \in Nat /\ refs'[r] \in Nat
               /\ Counts(r)' - Holds(p, r)' = Counts(r) - Holds(p, r)
               /\ dead'[r] <=> refs'[r] = 0
    BY <1>0, <1>t, <1>q, <1>x, <1>i, SMTT(30) DEF Types, InHand, Holding, Counts, Holds, Counted, Current
  <2>3. QED  BY <1>0, <1>t, <2>1, <2>2, CountStep
<1>3. Receiving'
  BY <1>0, <1>t, <1>q, <1>x, <1>i, SMTT(30) DEF Types, Receiving, Current, Receives
<1>4. InHand'
  <2> HIDE DEF Goto, Take, MoveOut
  <2>1. QED  BY <1>0, <1>e DEF InHand, Current
<1>5. Clean'
  BY <1>0, <1>t, <1>q, <1>x, <1>i DEF Types, Clean, Current
<1>6. Stamped'
  BY <1>0, <1>t, <1>q, <1>x, <1>i DEF Types, Stamped, Current
<1>7. Mapped'
  <2> HIDE DEF Goto, Take, MoveOut
  <2>1. ASSUME NEW r \in Pipes, NEW y \in userMap'[r]
        PROVE  Filed(r, y)'
    <3>1. Filed(r, y)
      BY <1>0, <1>e DEF Mapped
    <3>2. QED  BY <1>e, <3>1 DEF Filed, Current
  <2>2. QED  BY <2>1 DEF Mapped
<1>8. Own'
  <2> HIDE DEF Goto, Take, MoveOut
  <2>1. QED  BY <1>0, <1>e, <1>x, <1>t DEF Own
<1>9. OnTheWay'
  <2> HIDE DEF Goto, Take, MoveOut
  <2>1. ASSUME NEW y \in DOMAIN user
        PROVE  y \in userMap'[user[y].pipe] \/ \E r \in Pipes : y \in Of(moveInQ'[r])
    <3>1. CASE y = Head(moveOutQ[p])
      BY <1>x, <1>i, <3>1
    <3>2. CASE y # Head(moveOutQ[p])
      <4>1. user[y].pipe \in Pipes
        BY <1>0, <2>1 DEF Types
      <4>2. CASE y \in userMap[user[y].pipe]
        BY <1>e, <3>2, <4>1, <4>2
      <4>3. CASE \E r \in Pipes : y \in Of(moveInQ[r])
        BY <1>i, <4>3
      <4>4. QED  BY <1>0, <2>1, <4>2, <4>3 DEF OnTheWay
    <3>3. QED  BY <3>1, <3>2
  <2>2. QED  BY <1>e, <2>1 DEF OnTheWay
<1>10. Settled'
  <2> HIDE DEF Goto, Take, MoveOut
  <2>1. ASSUME NEW r \in Slots, ~dead[r], ~moving[r]
        PROVE  curPipe[r] \in Pipes /\ id[r] \in userMap'[curPipe[r]]
    <3>1. curPipe[r] \in Pipes /\ id[r] \in userMap[curPipe[r]]
      BY <1>0, <2>1 DEF Settled
    <3>2. id[r] # Head(moveOutQ[p])
      <4>1. Filed(curPipe[r], id[r])
        BY <1>0, <3>1 DEF Mapped
      <4>2. r \notin free
        BY <1>0, <2>1 DEF Clean, Counted
      <4>3. QED  BY <1>0, <1>x, <2>1, <4>2 DEF Clean, MovesOut
    <3>3. QED  BY <1>e, <3>1, <3>2
  <2>2. QED  BY <1>e, <2>1 DEF Settled
<1>11. Requesting'
  <2> HIDE DEF Goto, Take, MoveOut
  <2>1. QED  BY <1>0, <1>e DEF Requesting
<1>12. Joining'
  <2>1. ASSUME NEW r \in Pipes
        PROVE  Once(joinQ'[r])
    BY <1>0 DEF Joining
  <2>2. ASSUME NEW r \in Pipes, NEW y \in Of(joinQ'[r])
        PROVE  Joins(r, y)'
    <3> HIDE DEF Goto, Take, MoveOut
    <3>1. Joins(r, y)
      BY <1>0, <1>e DEF Joining
    <3>2. QED  BY <1>e, <3>1 DEF Joins, Current
  <2> HIDE DEF Goto, Take, MoveOut
  <2>3. QED  BY <2>1, <2>2 DEF Joining
<1>13. MovingOut'
  <2>1. ASSUME NEW r \in Pipes
        PROVE  Once(moveOutQ'[r])
    BY <1>0, <1>q DEF MovingOut
  <2>2. ASSUME NEW r \in Pipes, NEW y \in Of(moveOutQ'[r])
        PROVE  MovesOut(r, y)'
    <3> HIDE DEF Goto, Take, MoveOut
    <3>1. MovesOut(r, y)
      BY <1>0, <1>q DEF MovingOut
    <3>2. y # Head(moveOutQ[p]) \/ r # p
      BY <1>q, <1>x
    <3>3. QED  BY <1>e, <3>1, <3>2 DEF MovesOut
  <2> HIDE DEF Goto, Take, MoveOut
  <2>3. QED  BY <2>1, <2>2 DEF MovingOut
<1>14. MovingIn'
  <2>1. ASSUME NEW r \in Pipes
        PROVE  Once(moveInQ'[r])
    BY <1>0, <1>f, <1>i, <1>x DEF MovingIn
  <2>2. ASSUME NEW r \in Pipes, NEW y \in Of(moveInQ'[r])
        PROVE  MovesIn(r, y)'
    <3> HIDE DEF Goto, Take, MoveOut
    <3>1. CASE y = Head(moveOutQ[p]) /\ r = destPipe[Head(moveOutQ[p])[1]]
      BY <1>e, <1>f, <1>x, <3>1 DEF MovesIn, MovesOut, Filed, Current
    <3>2. CASE y \in Of(moveInQ[r])
      <4>1. MovesIn(r, y)
        BY <1>0, <3>2 DEF MovingIn
      <4>2. QED  BY <1>e, <4>1 DEF MovesIn, Current
    <3>3. QED  BY <1>i, <3>1, <3>2
  <2> HIDE DEF Goto, Take, MoveOut
  <2>3. QED  BY <2>1, <2>2 DEF MovingIn
<1>15. Leaving'
  <2>1. ASSUME NEW r \in Pipes
        PROVE  Once(leaveQ'[r])
    BY <1>0 DEF Leaving
  <2>2. ASSUME NEW r \in Pipes, NEW y \in Of(leaveQ'[r])
        PROVE  Leaves(r, y)'
    <3> HIDE DEF Goto, Take, MoveOut
    <3>1. Leaves(r, y)
      BY <1>0, <1>e DEF Leaving
    <3>2. y # Head(moveOutQ[p])
      BY <1>x, <3>1 DEF Leaves
    <3>3. QED  BY <1>e, <3>1, <3>2 DEF Leaves
  <2> HIDE DEF Goto, Take, MoveOut
  <2>3. QED  BY <2>1, <2>2 DEF Leaving
<1>16. Ending'
  <2> HIDE DEF Goto, Take, MoveOut
  <2>1. \A u \in Threads : pc[u] = "release" => at[u] # Head(moveOutQ[p])
    BY <1>0, <1>x DEF Ending
  <2>2. QED  BY <1>0, <1>e, <2>1 DEF Ending
<1>17. NeverErrorQuit'
  <2> HIDE DEF Goto, Take, MoveOut
  <2>1. QED  BY <1>0, <1>e DEF NeverErrorQuit
<1> HIDE DEF Goto, Take, MoveOut
<1>18. QED
  BY <1>1, <1>2, <1>3, <1>4, <1>5, <1>6, <1>7, <1>8, <1>9, <1>10, <1>11, <1>12, <1>13, <1>14,
     <1>15, <1>16, <1>17 DEF IInv

\* The session is dead: its user is in no queue and in this map only.
LEMMA LeaveKeepsInv ==
  ASSUME NEW p \in Pipes, IInv, Leave(p)
  PROVE  IInv'
<1>0. /\ Types /\ Counted /\ Receiving /\ InHand /\ Clean /\ Stamped /\ Mapped /\ Own
      /\ OnTheWay /\ Settled /\ Requesting /\ Joining /\ MovingOut /\ MovingIn /\ Leaving
      /\ Ending /\ NeverErrorQuit
  BY DEF IInv
<1>t. Pipes \subseteq Threads /\ Acceptor \notin Pipes /\ p \in Threads /\ p # Acceptor
  BY DEF Threads, Pipes
<1>u. \A y \in DOMAIN user : y \in Sessions /\ Current(y)
  BY <1>0, UsersCurrent
<1>h. /\ leaveQ' = Dequeue(leaveQ, p) /\ leaveQ[p] # <<>>
      /\ leaveQ \in [Pipes -> Seq(Sessions)] /\ p \in Pipes
  BY <1>0 DEF Types, Begins, Queue, Goto, Take, Leave
<1>q. /\ leaveQ' \in [Pipes -> Seq(Sessions)]
      /\ Head(leaveQ[p]) \in Sessions /\ Head(leaveQ[p]) \in Of(leaveQ[p])
      /\ Of(leaveQ[p]) = Of(leaveQ'[p]) \cup {Head(leaveQ[p])}
      /\ Once(leaveQ[p]) => Once(leaveQ'[p]) /\ Head(leaveQ[p]) \notin Of(leaveQ'[p])
      /\ \A r \in Pipes : r # p => leaveQ'[r] = leaveQ[r]
  <2>1. Dequeued(leaveQ', Pipes, leaveQ, p)
    BY <1>h, DequeueIs
  <2>2. QED  BY <2>1 DEF Dequeued
<1>x. /\ Leaves(p, Head(leaveQ[p])) /\ Filed(p, Head(leaveQ[p])) /\ Head(leaveQ[p])[1] \in Slots
      /\ Once(leaveQ[p]) /\ visit[p] = {} /\ dead[Head(leaveQ[p])[1]]
      /\ ~moving[Head(leaveQ[p])[1]] /\ Head(leaveQ[p]) \in userMap[p]
      /\ \A r \in Pipes : r # p => Head(leaveQ[p]) \notin userMap[r]
  <2>1. Once(leaveQ[p]) /\ Leaves(p, Head(leaveQ[p]))
    BY <1>0, <1>q DEF Leaving
  <2>2. Head(leaveQ[p])[1] \in Slots /\ Filed(p, Head(leaveQ[p]))
    BY <1>0, <1>q, <2>1, SlotIs DEF Mapped, Leaves
  <2>3. visit[p] = {}
    BY <1>0 DEF Own, Begins, Goto, Take, Leave
  <2>4. ~moving[Head(leaveQ[p])[1]]
    BY <1>0, <2>1, <2>2, DeadIs DEF Leaves
  <2>5. \A r \in Pipes : r # p => Head(leaveQ[p]) \notin userMap[r]
    BY <1>0, <2>2 DEF Mapped, Filed
  <2>6. QED  BY <2>1, <2>2, <2>3, <2>4, <2>5 DEF Leaves
<1>e. /\ pc[p] = "loop" /\ pc'[p] = "destroy" /\ at'[p] = Head(leaveQ[p]) /\ then'[p] = "loop"
      /\ \A u \in Threads : u # p => pc'[u] = pc[u] /\ at'[u] = at[u] /\ then'[u] = then[u]
      /\ DOMAIN user' = DOMAIN user \ {Head(leaveQ[p])}
      /\ \A y \in DOMAIN user' : user'[y] = user[y]
      /\ userMap'[p] = userMap[p] \ {Head(leaveQ[p])}
      /\ \A r \in Pipes : r # p => userMap'[r] = userMap[r]
      /\ UNCHANGED <<free, id, dead, moving, curPipe, destPipe, visit, phase, joinQ,
                      moveInQ, moveOutQ>>
  BY <1>0, <1>t, <1>x DEF Types, Leaves, Goto, Take, Leave
<1> USE DEF Goto, Take, Leave
<1>1. Types'
  <2>1. /\ free' \subseteq Slots /\ stamp' \in 0..MaxStamp /\ issued' \subseteq Sessions
        /\ id' \in [Slots -> Sessions \cup {None}] /\ refs' \in [Slots -> Nat]
        /\ dead' \in [Slots -> BOOLEAN] /\ canceled' \in [Slots -> BOOLEAN]
        /\ recv' \in [Slots -> BOOLEAN] /\ moving' \in [Slots -> BOOLEAN]
    BY <1>0, <1>t, <1>q, <1>x DEF Types, PCs, Phases
  <2>2. /\ curPipe' \in [Slots -> Pipes \cup {None}]
        /\ destPipe' \in [Slots -> Pipes \cup {None}]
        /\ jobQ' \in [Slots -> Seq(Sessions)]
    BY <1>0, <1>t, <1>q, <1>x DEF Types, PCs, Phases
  <2>3. /\ user' \in [DOMAIN user' -> [pipe : Pipes, moving : BOOLEAN]]
        /\ DOMAIN user' \subseteq Sessions
    BY <1>0, <1>t, <1>q, <1>x DEF Types
  <2>4. userMap' \in [Pipes -> SUBSET Sessions] /\ visit' \in [Pipes -> SUBSET Sessions]
    BY <1>0, <1>t, <1>q, <1>x DEF Types, PCs, Phases
  <2>7. /\ joinQ' \in [Pipes -> Seq(Sessions)] /\ moveInQ' \in [Pipes -> Seq(Sessions)]
        /\ moveOutQ' \in [Pipes -> Seq(Sessions)] /\ leaveQ' \in [Pipes -> Seq(Sessions)]
        /\ phase' \in [Pipes -> Phases]
    BY <1>0, <1>t, <1>q, <1>x DEF Types, PCs, Phases
  <2>5. /\ pc' \in [Threads -> PCs] /\ at' \in [Threads -> Sessions \cup {None}]
        /\ then' \in [Threads -> {"loop", "msg", "moveEnd"}]
    BY <1>0, <1>t, <1>q, <1>x DEF Types, PCs, Phases
  <2> HIDE DEF Goto, Take, Leave
  <2>6. QED  BY <2>1, <2>2, <2>3, <2>4, <2>5, <2>7 DEF Types
<1>2. Counted'
  <2>1. \A u \in Threads : u # p => pc'[u] = pc[u] /\ at'[u] = at[u]
    BY <1>0, <1>t DEF Types
  <2>2. ASSUME NEW r \in Slots
        PROVE  /\ refs[r] \in Nat /\ refs'[r] \in Nat
               /\ Counts(r)' - Holds(p, r)' = Counts(r) - Holds(p, r)
               /\ dead'[r] <=> refs'[r] = 0
    BY <1>0, <1>t, <1>q, <1>x DEF Types, InHand, Holding, Counts, Holds, Counted, Current
  <2>3. QED  BY <1>0, <1>t, <2>1, <2>2, CountStep
<1>3. Receiving'
  BY <1>0, <1>t, <1>q, <1>x DEF Types, Receiving, Current, Receives
<1>4. InHand'
  <2> HIDE DEF Goto, Take, Leave
  <2>1. QED  BY <1>0, <1>t, <1>q, <1>x, <1>e DEF InHand, Filed, Current
<1>5. Clean'
  BY <1>0, <1>t, <1>q, <1>x DEF Types, Clean, Current
<1>6. Stamped'
  BY <1>0, <1>t, <1>q, <1>x DEF Types, Stamped, Current
<1>7. Mapped'
  <2> HIDE DEF Goto, Take, Leave
  <2>1. ASSUME NEW r \in Pipes, NEW y \in userMap'[r]
        PROVE  Filed(r, y)'
    <3>1. Filed(r, y) /\ r \in Threads /\ y # Head(leaveQ[p])
      BY <1>0, <1>t, <1>x, <1>e DEF Mapped
    <3>2. QED  BY <1>e, <3>1 DEF Filed, Current
  <2>2. QED  BY <2>1 DEF Mapped
<1>8. Own'
  <2> HIDE DEF Goto, Take, Leave
  <2>1. QED  BY <1>0, <1>x, <1>e, <1>t DEF Own
<1>9. OnTheWay'
  <2> HIDE DEF Goto, Take, Leave
  <2>1. ASSUME NEW y \in DOMAIN user'
        PROVE  y \in userMap'[user'[y].pipe] \/ \E r \in Pipes : y \in Of(moveInQ'[r])
    <3>1. /\ y \in DOMAIN user /\ y # Head(leaveQ[p]) /\ user'[y] = user[y]
          /\ user[y].pipe \in Pipes
      BY <1>0, <1>e, <2>1 DEF Types
    <3>2. QED  BY <1>0, <1>e, <3>1 DEF OnTheWay
  <2>2. QED  BY <2>1 DEF OnTheWay
<1>10. Settled'
  <2> HIDE DEF Goto, Take, Leave
  <2>1. ASSUME NEW r \in Slots, ~dead[r], ~moving[r]
        PROVE  curPipe[r] \in Pipes /\ id[r] \in userMap'[curPipe[r]]
    <3>1. curPipe[r] \in Pipes /\ id[r] \in userMap[curPipe[r]]
      BY <1>0, <2>1 DEF Settled
    <3>2. r \notin free
      BY <1>0, <2>1 DEF Clean, Counted
    <3>3. id[r] # Head(leaveQ[p])
      BY <1>0, <1>x, <2>1, <3>2 DEF Clean
    <3>4. QED  BY <1>e, <3>1, <3>3
  <2>2. QED  BY <1>e, <2>1 DEF Settled
<1>11. Requesting'
  <2> HIDE DEF Goto, Take, Leave
  <2>1. QED  BY <1>0, <1>t, <1>e DEF Requesting, Threads
<1>12. Joining'
  <2>1. ASSUME NEW r \in Pipes
        PROVE  Once(joinQ'[r])
    BY <1>0 DEF Joining
  <2>2. ASSUME NEW r \in Pipes, NEW y \in Of(joinQ'[r])
        PROVE  Joins(r, y)'
    <3> HIDE DEF Goto, Take, Leave
    <3>1. Joins(r, y)
      BY <1>0, <1>e DEF Joining
    <3>2. QED  BY <1>e, <3>1 DEF Joins, Current
  <2> HIDE DEF Goto, Take, Leave
  <2>3. QED  BY <2>1, <2>2 DEF Joining
<1>13. MovingOut'
  <2>1. ASSUME NEW r \in Pipes
        PROVE  Once(moveOutQ'[r])
    BY <1>0 DEF MovingOut
  <2>2. ASSUME NEW r \in Pipes, NEW y \in Of(moveOutQ'[r])
        PROVE  MovesOut(r, y)'
    <3> HIDE DEF Goto, Take, Leave
    <3>1. MovesOut(r, y)
      BY <1>0, <1>e DEF MovingOut
    <3>2. y # Head(leaveQ[p])
      BY <1>x, <3>1 DEF MovesOut
    <3>3. QED  BY <1>e, <3>1, <3>2 DEF MovesOut
  <2> HIDE DEF Goto, Take, Leave
  <2>3. QED  BY <2>1, <2>2 DEF MovingOut
<1>14. MovingIn'
  <2>1. ASSUME NEW r \in Pipes
        PROVE  Once(moveInQ'[r])
    BY <1>0 DEF MovingIn
  <2>2. ASSUME NEW r \in Pipes, NEW y \in Of(moveInQ'[r])
        PROVE  MovesIn(r, y)'
    <3> HIDE DEF Goto, Take, Leave
    <3>1. MovesIn(r, y)
      BY <1>0, <1>e DEF MovingIn
    <3>2. y # Head(leaveQ[p])
      BY <1>x, <3>1 DEF MovesIn
    <3>3. QED  BY <1>e, <3>1, <3>2 DEF MovesIn, Current
  <2> HIDE DEF Goto, Take, Leave
  <2>3. QED  BY <2>1, <2>2 DEF MovingIn
<1>15. Leaving'
  <2>1. ASSUME NEW r \in Pipes
        PROVE  Once(leaveQ'[r])
    BY <1>0, <1>q DEF Leaving
  <2>2. ASSUME NEW r \in Pipes, NEW y \in Of(leaveQ'[r])
        PROVE  Leaves(r, y)'
    <3> HIDE DEF Goto, Take, Leave
    <3>1. Leaves(r, y)
      BY <1>0, <1>q DEF Leaving
    <3>2. y # Head(leaveQ[p])
      BY <1>q, <1>x, <3>1 DEF Leaves
    <3>3. QED  BY <1>e, <3>1, <3>2 DEF Leaves
  <2> HIDE DEF Goto, Take, Leave
  <2>3. QED  BY <2>1, <2>2 DEF Leaving
<1>16. Ending'
  <2> HIDE DEF Goto, Take, Leave
  <2>1. ASSUME NEW u \in Threads, pc'[u] \in {"release", "destroy"}
        PROVE  \/ u = p /\ pc'[u] = "destroy" /\ at'[u] = Head(leaveQ[p])
               \/ pc'[u] = pc[u] /\ at'[u] = at[u] /\ at[u] # Head(leaveQ[p])
    <3>1. CASE u = p
      BY <1>e, <3>1
    <3>2. CASE u # p
      <4>1. pc'[u] = pc[u] /\ at'[u] = at[u]
        BY <1>e, <3>2
      <4>2. QED  BY <1>0, <1>x, <2>1, <4>1 DEF Ending, Leaves, Filed
    <3>3. QED  BY <3>1, <3>2
  <2>7. ASSUME NEW u \in Threads, pc'[u] = "release"
        PROVE  /\ dead'[at'[u][1]] /\ curPipe'[at'[u][1]] \in Pipes
               /\ at'[u] \in userMap'[curPipe'[at'[u][1]]]
    BY <1>0, <2>1, <2>7, <1>e DEF Ending
  <2>8. ASSUME NEW u \in Threads, pc'[u] = "destroy"
        PROVE  dead'[at'[u][1]] /\ at'[u] \notin DOMAIN user'
    BY <1>0, <1>x, <2>1, <2>8, <1>e DEF Ending
  <2>9. ASSUME NEW u \in Threads, NEW v \in Threads, at'[u] = at'[v],
               pc'[u] \in {"release", "destroy"}, pc'[v] \in {"release", "destroy"}
        PROVE  u = v
    BY <1>0, <1>e, <2>1, <2>9 DEF Ending
  <2> HIDE DEF Goto, Take, Leave
  <2>10. QED  BY <2>7, <2>8, <2>9 DEF Ending
<1>17. NeverErrorQuit'
  <2> HIDE DEF Goto, Take, Leave
  <2>1. QED  BY <1>0, <1>e DEF NeverErrorQuit
<1> HIDE DEF Goto, Take, Leave
<1>18. QED
  BY <1>1, <1>2, <1>3, <1>4, <1>5, <1>6, <1>7, <1>8, <1>9, <1>10, <1>11, <1>12, <1>13, <1>14,
     <1>15, <1>16, <1>17 DEF IInv

\* The jobs of a slot are those of the session that has it.
LEMMA DequeueJobKeepsInv ==
  ASSUME NEW p \in Pipes, NEW x \in visit[p], IInv, DequeueJob(p, x)
  PROVE  IInv'
<1>0. /\ Types /\ Counted /\ Receiving /\ InHand /\ Clean /\ Stamped /\ Mapped /\ Own
      /\ OnTheWay /\ Settled /\ Requesting /\ Joining /\ MovingOut /\ MovingIn /\ Leaving
      /\ Ending /\ NeverErrorQuit
  BY DEF IInv
<1>t. Pipes \subseteq Threads /\ Acceptor \notin Pipes /\ p \in Threads /\ p # Acceptor
  BY DEF Threads, Pipes
<1>u. \A y \in DOMAIN user : y \in Sessions /\ Current(y)
  BY <1>0, UsersCurrent
<1>x. /\ x \in userMap[p] /\ Filed(p, x) /\ x \in Sessions /\ x[1] \in Slots /\ Current(x)
  <2>1. x \in userMap[p]
    BY <1>0 DEF Own
  <2>2. Filed(p, x)
    BY <1>0, <2>1 DEF Mapped
  <2>3. x \in Sessions
    BY <1>u, <2>2 DEF Filed
  <2>4. QED  BY <2>1, <2>2, <2>3, SlotIs DEF Filed
<1>q. /\ jobQ' \in [Slots -> Seq(Sessions)] /\ Head(jobQ[x[1]]) \in Of(jobQ[x[1]])
      /\ Of(jobQ'[x[1]]) \subseteq Of(jobQ[x[1]])
      /\ \A r \in Slots : r # x[1] => jobQ'[r] = jobQ[r]
  <2>1. PICK s \in Slots : s = x[1]
    BY <1>x
  <2>2. jobQ[s] # <<>> /\ jobQ \in [Slots -> Seq(Sessions)] /\ jobQ' = Dequeue(jobQ, s)
    BY <1>0, <2>1 DEF Types, Goto, Take, DequeueJob
  <2>3. jobQ[s] \in Seq(Sessions) /\ jobQ' = [jobQ EXCEPT ![s] = Tail(@)]
    BY <2>2 DEF Dequeue
  <2>4. /\ Tail(jobQ[s]) \in Seq(Sessions) /\ Head(jobQ[s]) \in Of(jobQ[s])
        /\ Of(Tail(jobQ[s])) \subseteq Of(jobQ[s])
    BY <2>2, <2>3, OfTail
  <2>5. QED  BY <2>1, <2>2, <2>3, <2>4
<1>f. Head(jobQ[x[1]]) = x
  BY <1>0, <1>q, <1>x DEF Clean, Current
<1>e. /\ pc[p] = "loop" /\ pc'[p] = "msg" /\ at'[p] = x /\ then'[p] = "msg"
      /\ \A u \in Threads : u # p => pc'[u] = pc[u] /\ at'[u] = at[u] /\ then'[u] = then[u]
      /\ UNCHANGED <<free, id, issued, curPipe, refs, dead, moving, destPipe, user,
                      userMap, phase,
                     visit>>
  BY <1>0, <1>t, <1>f DEF Types, Goto, Take, DequeueJob
<1> USE DEF Goto, Take, DequeueJob
<1>1. Types'
  <2>1. /\ free' \subseteq Slots /\ stamp' \in 0..MaxStamp /\ issued' \subseteq Sessions
        /\ id' \in [Slots -> Sessions \cup {None}] /\ refs' \in [Slots -> Nat]
        /\ dead' \in [Slots -> BOOLEAN] /\ canceled' \in [Slots -> BOOLEAN]
        /\ recv' \in [Slots -> BOOLEAN] /\ moving' \in [Slots -> BOOLEAN]
    BY <1>0, <1>t, <1>x, <1>q, <1>f DEF Types, PCs, Phases
  <2>2. /\ curPipe' \in [Slots -> Pipes \cup {None}]
        /\ destPipe' \in [Slots -> Pipes \cup {None}]
        /\ jobQ' \in [Slots -> Seq(Sessions)]
    BY <1>0, <1>t, <1>x, <1>q, <1>f DEF Types, PCs, Phases
  <2>3. /\ user' \in [DOMAIN user' -> [pipe : Pipes, moving : BOOLEAN]]
        /\ DOMAIN user' \subseteq Sessions
    BY <1>0, <1>t, <1>x, <1>q, <1>f DEF Types
  <2>4. userMap' \in [Pipes -> SUBSET Sessions] /\ visit' \in [Pipes -> SUBSET Sessions]
    BY <1>0, <1>t, <1>x, <1>q, <1>f DEF Types, PCs, Phases
  <2>7. /\ joinQ' \in [Pipes -> Seq(Sessions)] /\ moveInQ' \in [Pipes -> Seq(Sessions)]
        /\ moveOutQ' \in [Pipes -> Seq(Sessions)] /\ leaveQ' \in [Pipes -> Seq(Sessions)]
        /\ phase' \in [Pipes -> Phases]
    BY <1>0, <1>t, <1>x, <1>q, <1>f DEF Types, PCs, Phases
  <2>5. /\ pc' \in [Threads -> PCs] /\ at' \in [Threads -> Sessions \cup {None}]
        /\ then' \in [Threads -> {"loop", "msg", "moveEnd"}]
    BY <1>0, <1>t, <1>x, <1>q, <1>f DEF Types, PCs, Phases
  <2> HIDE DEF Goto, Take, DequeueJob
  <2>6. QED  BY <2>1, <2>2, <2>3, <2>4, <2>5, <2>7 DEF Types
<1>2. Counted'
  <2>1. \A u \in Threads : u # p => pc'[u] = pc[u] /\ at'[u] = at[u]
    BY <1>0, <1>t DEF Types
  <2>2. ASSUME NEW r \in Slots
        PROVE  /\ refs[r] \in Nat /\ refs'[r] \in Nat
               /\ Counts(r)' - Holds(p, r)' = Counts(r) - Holds(p, r)
               /\ dead'[r] <=> refs'[r] = 0
    BY <1>0, <1>t, <1>x, <1>q, <1>f DEF Types, InHand, Holding, Counts, Holds, Counted, Current
  <2>3. QED  BY <1>0, <1>t, <2>1, <2>2, CountStep
<1>3. Receiving'
  BY <1>0, <1>t, <1>x, <1>q, <1>f DEF Types, Receiving, Current, Receives
<1>4. InHand'
  <2> HIDE DEF Goto, Take, DequeueJob
  <2>1. QED  BY <1>0, <1>t, <1>x, <1>e DEF InHand, Current
<1>5. Clean'
  <2> HIDE DEF Goto, Take, DequeueJob
  <2>1. ASSUME NEW r \in Slots
        PROVE  /\ r \in free => jobQ'[r] = <<>>
               /\ Of(jobQ'[r]) \subseteq {id[r]}
    BY <1>0, <1>q, <1>x DEF Clean, Current
  <2>2. QED  BY <1>0, <1>e, <2>1 DEF Clean
<1>6. Stamped'
  BY <1>0, <1>t, <1>x, <1>q, <1>f DEF Types, Stamped, Current
<1>7. Mapped'
  <2> HIDE DEF Goto, Take, DequeueJob
  <2>1. ASSUME NEW r \in Pipes, NEW y \in userMap'[r]
        PROVE  Filed(r, y)'
    <3>1. Filed(r, y)
      BY <1>0, <1>e, <2>1 DEF Mapped
    <3>2. pc'[r] = "entered" /\ at'[r] = y <=> pc[r] = "entered" /\ at[r] = y
      BY <1>t, <1>e
    <3>3. QED  BY <1>e, <3>1, <3>2 DEF Filed, Current
  <2>2. QED  BY <2>1 DEF Mapped
<1>8. Own'
  <2> HIDE DEF Goto, Take, DequeueJob
  <2>1. QED  BY <1>0, <1>t, <1>x, <1>e DEF Own
<1>9. OnTheWay'
  BY <1>0, <1>t, <1>x, <1>q, <1>f DEF Types, OnTheWay, Current
<1>10. Settled'
  BY <1>0, <1>t, <1>x, <1>q, <1>f DEF Types, Settled, Current
<1>11. Requesting'
  BY <1>0, <1>t, <1>x, <1>q, <1>f DEF Types, Requesting, Current
<1>12. Joining'
  BY <1>0, <1>t, <1>x, <1>q, <1>f DEF Types, Joining, Current, Joins
<1>13. MovingOut'
  BY <1>0, <1>t, <1>x, <1>q, <1>f DEF Types, MovingOut, Current, MovesOut
<1>14. MovingIn'
  BY <1>0, <1>t, <1>x, <1>q, <1>f DEF Types, MovingIn, Current, MovesIn
<1>15. Leaving'
  BY <1>0, <1>t, <1>x, <1>q, <1>f DEF Types, Leaving, Current, Leaves
<1>16. Ending'
  <2> HIDE DEF Goto, Take, DequeueJob
  <2>1. ASSUME NEW u \in Threads, pc'[u] \in {"release", "destroy"}
        PROVE  pc'[u] = pc[u] /\ at'[u] = at[u]
    BY <1>e, <2>1
  <2>7. ASSUME NEW u \in Threads, pc'[u] = "release"
        PROVE  /\ dead'[at'[u][1]] /\ curPipe'[at'[u][1]] \in Pipes
               /\ at'[u] \in userMap'[curPipe'[at'[u][1]]]
    BY <1>0, <1>e, <2>1, <2>7 DEF Ending
  <2>8. ASSUME NEW u \in Threads, pc'[u] = "destroy"
        PROVE  dead'[at'[u][1]] /\ at'[u] \notin DOMAIN user'
    BY <1>0, <1>e, <2>1, <2>8 DEF Ending
  <2>9. ASSUME NEW u \in Threads, NEW v \in Threads, at'[u] = at'[v],
               pc'[u] \in {"release", "destroy"}, pc'[v] \in {"release", "destroy"}
        PROVE  u = v
    BY <1>0, <1>e, <2>1, <2>9 DEF Ending
  <2> HIDE DEF Goto, Take, DequeueJob
  <2>10. QED  BY <2>7, <2>8, <2>9 DEF Ending
<1>17. NeverErrorQuit'
  <2> HIDE DEF Goto, Take, DequeueJob
  <2>1. QED  BY <1>0, <1>e DEF NeverErrorQuit
<1> HIDE DEF Goto, Take, DequeueJob
<1>18. QED
  BY <1>1, <1>2, <1>3, <1>4, <1>5, <1>6, <1>7, <1>8, <1>9, <1>10, <1>11, <1>12, <1>13, <1>14,
     <1>15, <1>16, <1>17 DEF IInv

\* One user less is left to visit.
LEMMA NextUserKeepsInv ==
  ASSUME NEW p \in Pipes, NEW x \in visit[p], IInv, NextUser(p, x)
  PROVE  IInv'
<1>0. /\ Types /\ Counted /\ Receiving /\ InHand /\ Clean /\ Stamped /\ Mapped /\ Own
      /\ OnTheWay /\ Settled /\ Requesting /\ Joining /\ MovingOut /\ MovingIn /\ Leaving
      /\ Ending /\ NeverErrorQuit
  BY DEF IInv
<1>t. Pipes \subseteq Threads /\ Acceptor \notin Pipes
  BY DEF Threads, Pipes
<1>u. \A y \in DOMAIN user : y \in Sessions /\ Current(y)
  BY <1>0, UsersCurrent
<1> USE DEF Goto, Take, NextUser
<1>1. Types'
  BY <1>0, <1>t DEF Types, PCs, Phases
<1>2. Counted'
  <2>1. UNCHANGED <<refs, recv, moving, dead, pc, at>>
    OBVIOUS
  <2>2. QED  BY <1>0, <2>1 DEF Counted, Holders
<1>3. Receiving'
  BY <1>0, <1>t DEF Types, Receiving, Current, Receives
<1>4. InHand'
  BY <1>0, <1>t DEF Types, InHand, Current, NeverErrorQuit
<1>5. Clean'
  BY <1>0, <1>t DEF Types, Clean, Current
<1>6. Stamped'
  BY <1>0, <1>t DEF Types, Stamped, Current
<1>7. Mapped'
  BY <1>0, <1>t DEF Types, Mapped, Current, Filed
<1>8. Own'
  BY <1>0, <1>t DEF Types, Own, Current
<1>9. OnTheWay'
  BY <1>0, <1>t DEF Types, OnTheWay, Current
<1>10. Settled'
  BY <1>0, <1>t DEF Types, Settled, Current
<1>11. Requesting'
  BY <1>0, <1>t DEF Types, Requesting, Current
<1>12. Joining'
  BY <1>0, <1>t DEF Types, Joining, Current, Joins
<1>13. MovingOut'
  BY <1>0, <1>t DEF Types, MovingOut, Current, MovesOut
<1>14. MovingIn'
  BY <1>0, <1>t DEF Types, MovingIn, Current, MovesIn
<1>15. Leaving'
  BY <1>0, <1>t DEF Types, Leaving, Current, Leaves
<1>16. Ending'
  BY <1>0, <1>t DEF Types, Ending, Current
<1>17. NeverErrorQuit'
  BY <1>0, <1>t DEF Types, NeverErrorQuit, Current
<1> HIDE DEF Goto, Take, NextUser
<1>18. QED
  BY <1>1, <1>2, <1>3, <1>4, <1>5, <1>6, <1>7, <1>8, <1>9, <1>10, <1>11, <1>12, <1>13, <1>14,
     <1>15, <1>16, <1>17 DEF IInv

\* Only the thread's place changes.
LEMMA SetDoneKeepsInv ==
  ASSUME NEW p \in Pipes, IInv, SetDone(p)
  PROVE  IInv'
<1>0. /\ Types /\ Counted /\ Receiving /\ InHand /\ Clean /\ Stamped /\ Mapped /\ Own
      /\ OnTheWay /\ Settled /\ Requesting /\ Joining /\ MovingOut /\ MovingIn /\ Leaving
      /\ Ending /\ NeverErrorQuit
  BY DEF IInv
<1>t. Pipes \subseteq Threads /\ Acceptor \notin Pipes /\ p \in Threads /\ p # Acceptor
  BY DEF Threads, Pipes
<1>u. \A y \in DOMAIN user : y \in Sessions /\ Current(y)
  BY <1>0, UsersCurrent
<1> USE DEF Goto, Take, SetDone
<1>1. Types'
  BY <1>0, <1>t DEF Types, PCs, Phases
<1>2. Counted'
  <2>1. \A u \in Threads : u # p => pc'[u] = pc[u] /\ at'[u] = at[u]
    BY <1>0, <1>t DEF Types
  <2>2. ASSUME NEW r \in Slots
        PROVE  /\ refs[r] \in Nat /\ refs'[r] \in Nat
               /\ Counts(r)' - Holds(p, r)' = Counts(r) - Holds(p, r)
               /\ dead'[r] <=> refs'[r] = 0
    BY <1>0, <1>t DEF Types, InHand, Holding, Counts, Holds, Counted, Current
  <2>3. QED  BY <1>0, <1>t, <2>1, <2>2, CountStep
<1>3. Receiving'
  BY <1>0, <1>t DEF Types, Receiving, Current, Receives
<1>4. InHand'
  BY <1>0, <1>t DEF Types, InHand, Current, NeverErrorQuit
<1>5. Clean'
  BY <1>0, <1>t DEF Types, Clean, Current
<1>6. Stamped'
  BY <1>0, <1>t DEF Types, Stamped, Current
<1>7. Mapped'
  BY <1>0, <1>t DEF Types, Mapped, Current, Filed
<1>8. Own'
  BY <1>0, <1>t DEF Types, Own, Current
<1>9. OnTheWay'
  BY <1>0, <1>t DEF Types, OnTheWay, Current
<1>10. Settled'
  BY <1>0, <1>t DEF Types, Settled, Current
<1>11. Requesting'
  BY <1>0, <1>t DEF Types, Requesting, Current
<1>12. Joining'
  BY <1>0, <1>t DEF Types, Joining, Current, Joins
<1>13. MovingOut'
  BY <1>0, <1>t DEF Types, MovingOut, Current, MovesOut
<1>14. MovingIn'
  BY <1>0, <1>t DEF Types, MovingIn, Current, MovesIn
<1>15. Leaving'
  BY <1>0, <1>t DEF Types, Leaving, Current, Leaves
<1>16. Ending'
  BY <1>0, <1>t DEF Types, Ending, Current
<1>17. NeverErrorQuit'
  BY <1>0, <1>t DEF Types, NeverErrorQuit, Current
<1> HIDE DEF Goto, Take, SetDone
<1>18. QED
  BY <1>1, <1>2, <1>3, <1>4, <1>5, <1>6, <1>7, <1>8, <1>9, <1>10, <1>11, <1>12, <1>13, <1>14,
     <1>15, <1>16, <1>17 DEF IInv

\* A session that is found is counted for the pipe.
LEMMA FindSessionKeepsInv ==
  ASSUME NEW p \in Pipes, NEW to \in {"found", "cancel"}, IInv, FindSession(p, to)
  PROVE  IInv'
<1>0. /\ Types /\ Counted /\ Receiving /\ InHand /\ Clean /\ Stamped /\ Mapped /\ Own
      /\ OnTheWay /\ Settled /\ Requesting /\ Joining /\ MovingOut /\ MovingIn /\ Leaving
      /\ Ending /\ NeverErrorQuit
  BY DEF IInv
<1>t. Pipes \subseteq Threads /\ Acceptor \notin Pipes /\ p \in Threads /\ p # Acceptor
  BY DEF Threads, Pipes
<1>u. \A y \in DOMAIN user : y \in Sessions /\ Current(y)
  BY <1>0, UsersCurrent
<1>x. /\ at[p] \in Sessions /\ at[p][1] \in Slots /\ Current(at[p])
      /\ at[p][1] \notin free /\ id[at[p][1]] = at[p]
  BY <1>0, <1>t, SlotIs DEF InHand, Current, Goto, Take, FindSession
<1>e. /\ at' = at /\ pc[p] \in {"msg", "failed"} /\ then'[p] \in {then[p], "loop"}
      /\ \/ pc'[p] \in {"msg", "loop"} /\ refs' = refs
         \/ /\ pc'[p] \in {"found", "cancel"} /\ ~dead[at[p][1]]
            /\ refs'[at[p][1]] = refs[at[p][1]] + 1
            /\ \A r \in Slots : r # at[p][1] => refs'[r] = refs[r]
      /\ \A u \in Threads : u # p => then'[u] = then[u]
      /\ UNCHANGED <<dead, recv, moving, user, userMap, visit, phase, free, id, curPipe,
                      destPipe,
                     joinQ>>
      /\ \A r \in Slots : refs[r] \in Nat /\ (dead[r] <=> refs[r] = 0)
      /\ \A u \in Threads : u # p => pc'[u] = pc[u] /\ at'[u] = at[u]
  BY <1>0, <1>t, <1>x DEF Types, Counted, Goto, Take, FindSession
<1>y. /\ pc' \in [Threads -> PCs] /\ then' \in [Threads -> {"loop", "msg", "moveEnd"}]
  <2>1. CASE to = "found"
    BY <1>0, <2>1 DEF Types, PCs, Goto, Take, FindSession
  <2>2. CASE to = "cancel"
    BY <1>0, <2>2 DEF Types, PCs, Goto, Take, FindSession
  <2>3. QED  BY <2>1, <2>2
<1>r. refs' \in [Slots -> Nat]
  <2>1. refs' = refs \/ refs' = [refs EXCEPT ![at[p][1]] = @ + 1]
    BY DEF Goto, Take, FindSession
  <2>2. refs \in [Slots -> Nat]
    BY <1>0 DEF Types
  <2>3. QED  BY <1>x, <2>1, <2>2
<1> USE DEF Goto, Take, FindSession
<1>1. Types'
  <2>1. /\ free' \subseteq Slots /\ stamp' \in 0..MaxStamp /\ issued' \subseteq Sessions
        /\ id' \in [Slots -> Sessions \cup {None}] /\ refs' \in [Slots -> Nat]
        /\ dead' \in [Slots -> BOOLEAN] /\ canceled' \in [Slots -> BOOLEAN]
        /\ recv' \in [Slots -> BOOLEAN] /\ moving' \in [Slots -> BOOLEAN]
    BY <1>0, <1>t, <1>r, <1>y DEF Types, PCs, Phases
  <2>2. /\ curPipe' \in [Slots -> Pipes \cup {None}]
        /\ destPipe' \in [Slots -> Pipes \cup {None}]
        /\ jobQ' \in [Slots -> Seq(Sessions)]
    BY <1>0, <1>t, <1>r, <1>y DEF Types, PCs, Phases
  <2>3. /\ user' \in [DOMAIN user' -> [pipe : Pipes, moving : BOOLEAN]]
        /\ DOMAIN user' \subseteq Sessions
    BY <1>0, <1>t, <1>r, <1>y DEF Types
  <2>4. userMap' \in [Pipes -> SUBSET Sessions] /\ visit' \in [Pipes -> SUBSET Sessions]
    BY <1>0, <1>t, <1>r, <1>y DEF Types, PCs, Phases
  <2>7. /\ joinQ' \in [Pipes -> Seq(Sessions)] /\ moveInQ' \in [Pipes -> Seq(Sessions)]
        /\ moveOutQ' \in [Pipes -> Seq(Sessions)] /\ leaveQ' \in [Pipes -> Seq(Sessions)]
        /\ phase' \in [Pipes -> Phases]
    BY <1>0, <1>t, <1>r, <1>y DEF Types, PCs, Phases
  <2>5. /\ pc' \in [Threads -> PCs] /\ at' \in [Threads -> Sessions \cup {None}]
        /\ then' \in [Threads -> {"loop", "msg", "moveEnd"}]
    BY <1>0, <1>t, <1>r, <1>y DEF Types, PCs, Phases
  <2> HIDE DEF Goto, Take, FindSession
  <2>6. QED  BY <2>1, <2>2, <2>3, <2>4, <2>5, <2>7 DEF Types
<1>2. Counted'
  <2> HIDE DEF Goto, Take, FindSession
  <2>1. \A u \in Threads : u # p => pc'[u] = pc[u] /\ at'[u] = at[u]
    BY <1>e
  <2>2. ASSUME NEW r \in Slots
        PROVE  /\ refs[r] \in Nat /\ refs'[r] \in Nat
               /\ Counts(r)' - Holds(p, r)' = Counts(r) - Holds(p, r)
               /\ dead'[r] <=> refs'[r] = 0
    BY <1>e, <1>x DEF Counts, Holds, Holding
  <2>3. QED  BY <1>0, <1>t, <2>1, <2>2, CountStep
<1>3. Receiving'
  BY <1>0, <1>t, <1>x DEF Types, Receiving, Current, Receives
<1>4. InHand'
  <2> HIDE DEF Goto, Take, FindSession
  <2>1. QED  BY <1>0, <1>t, <1>x, <1>e DEF InHand, Current
<1>5. Clean'
  BY <1>0, <1>t, <1>x DEF Types, Clean, Current
<1>6. Stamped'
  BY <1>0, <1>t, <1>x DEF Types, Stamped, Current
<1>7. Mapped'
  <2>1. UNCHANGED <<free, id, user, userMap, curPipe, destPipe, moving>>
    OBVIOUS
  <2>2. \A r \in Pipes : at'[r] = at[r] /\ (pc'[r] = "entered" <=> pc[r] = "entered")
    BY <1>0, <1>t, <1>e DEF Types
  <2> HIDE DEF Goto, Take, FindSession
  <2>3. QED  BY <1>0, <2>1, <2>2 DEF Mapped, Filed, Current
<1>8. Own'
  <2> HIDE DEF Goto, Take, FindSession
  <2>1. QED  BY <1>0, <1>t, <1>e DEF Own
<1>9. OnTheWay'
  BY <1>0, <1>t, <1>x DEF Types, OnTheWay, Current
<1>10. Settled'
  BY <1>0, <1>t, <1>x DEF Types, Settled, Current
<1>11. Requesting'
  <2> HIDE DEF Goto, Take, FindSession
  <2>1. QED  BY <1>0, <1>t, <1>e DEF Requesting, Threads
<1>12. Joining'
  BY <1>0, <1>t, <1>x DEF Types, Joining, Current, Joins
<1>13. MovingOut'
  BY <1>0, <1>t, <1>x DEF Types, MovingOut, Current, MovesOut
<1>14. MovingIn'
  BY <1>0, <1>t, <1>x DEF Types, MovingIn, Current, MovesIn
<1>15. Leaving'
  BY <1>0, <1>t, <1>x DEF Types, Leaving, Current, Leaves
<1>16. Ending'
  <2>1. UNCHANGED <<dead, curPipe, userMap, user, at>>
    OBVIOUS
  <2>2. \A u \in Threads : pc'[u] \in {"release", "destroy"} => pc'[u] = pc[u]
    BY <1>0, <1>t, <1>e DEF Types
  <2> HIDE DEF Goto, Take, FindSession
  <2>3. QED  BY <1>0, <2>1, <2>2 DEF Ending
<1>17. NeverErrorQuit'
  BY <1>0, <1>t, <1>x DEF Types, NeverErrorQuit, Current
<1> HIDE DEF Goto, Take, FindSession
<1>18. QED
  BY <1>1, <1>2, <1>3, <1>4, <1>5, <1>6, <1>7, <1>8, <1>9, <1>10, <1>11, <1>12, <1>13, <1>14,
     <1>15, <1>16, <1>17 DEF IInv

\* Only the thread's place changes.
LEMMA MoveRefusedKeepsInv ==
  ASSUME NEW p \in Pipes, IInv, MoveRefused(p)
  PROVE  IInv'
<1>0. /\ Types /\ Counted /\ Receiving /\ InHand /\ Clean /\ Stamped /\ Mapped /\ Own
      /\ OnTheWay /\ Settled /\ Requesting /\ Joining /\ MovingOut /\ MovingIn /\ Leaving
      /\ Ending /\ NeverErrorQuit
  BY DEF IInv
<1>t. Pipes \subseteq Threads /\ Acceptor \notin Pipes /\ p \in Threads /\ p # Acceptor
  BY DEF Threads, Pipes
<1>u. \A y \in DOMAIN user : y \in Sessions /\ Current(y)
  BY <1>0, UsersCurrent
<1> USE DEF Goto, Take, MoveRefused
<1>1. Types'
  BY <1>0, <1>t DEF Types, PCs, Phases
<1>2. Counted'
  <2>1. \A u \in Threads : u # p => pc'[u] = pc[u] /\ at'[u] = at[u]
    BY <1>0, <1>t DEF Types
  <2>2. ASSUME NEW r \in Slots
        PROVE  /\ refs[r] \in Nat /\ refs'[r] \in Nat
               /\ Counts(r)' - Holds(p, r)' = Counts(r) - Holds(p, r)
               /\ dead'[r] <=> refs'[r] = 0
    BY <1>0, <1>t DEF Types, InHand, Holding, Counts, Holds, Counted, Current
  <2>3. QED  BY <1>0, <1>t, <2>1, <2>2, CountStep
<1>3. Receiving'
  BY <1>0, <1>t DEF Types, Receiving, Current, Receives
<1>4. InHand'
  BY <1>0, <1>t DEF Types, InHand, Current, NeverErrorQuit
<1>5. Clean'
  BY <1>0, <1>t DEF Types, Clean, Current
<1>6. Stamped'
  BY <1>0, <1>t DEF Types, Stamped, Current
<1>7. Mapped'
  BY <1>0, <1>t, SMTT(30) DEF Types, Mapped, Current, Filed
<1>8. Own'
  BY <1>0, <1>t DEF Types, Own, Current
<1>9. OnTheWay'
  BY <1>0, <1>t DEF Types, OnTheWay, Current
<1>10. Settled'
  BY <1>0, <1>t DEF Types, Settled, Current
<1>11. Requesting'
  BY <1>0, <1>t DEF Types, Requesting, Current
<1>12. Joining'
  BY <1>0, <1>t DEF Types, Joining, Current, Joins
<1>13. MovingOut'
  BY <1>0, <1>t DEF Types, MovingOut, Current, MovesOut
<1>14. MovingIn'
  BY <1>0, <1>t DEF Types, MovingIn, Current, MovesIn
<1>15. Leaving'
  BY <1>0, <1>t DEF Types, Leaving, Current, Leaves
<1>16. Ending'
  BY <1>0, <1>t DEF Types, Ending, Current
<1>17. NeverErrorQuit'
  BY <1>0, <1>t DEF Types, NeverErrorQuit, Current
<1> HIDE DEF Goto, Take, MoveRefused
<1>18. QED
  BY <1>1, <1>2, <1>3, <1>4, <1>5, <1>6, <1>7, <1>8, <1>9, <1>10, <1>11, <1>12, <1>13, <1>14,
     <1>15, <1>16, <1>17 DEF IInv

\* The reference that was found becomes the move's.
LEMMA MovePipeKeepsInv ==
  ASSUME NEW p \in Pipes, NEW d \in GamePipes, IInv, MovePipe(p, d)
  PROVE  IInv'
<1>0. /\ Types /\ Counted /\ Receiving /\ InHand /\ Clean /\ Stamped /\ Mapped /\ Own
      /\ OnTheWay /\ Settled /\ Requesting /\ Joining /\ MovingOut /\ MovingIn /\ Leaving
      /\ Ending /\ NeverErrorQuit
  BY DEF IInv
<1>t. Pipes \subseteq Threads /\ Acceptor \notin Pipes /\ p \in Threads /\ p # Acceptor
  BY DEF Threads, Pipes
<1>u. \A y \in DOMAIN user : y \in Sessions /\ Current(y)
  BY <1>0, UsersCurrent
<1>x. /\ at[p] \in Sessions /\ at[p][1] \in Slots /\ Current(at[p])
      /\ at[p][1] \notin free /\ id[at[p][1]] = at[p]
  BY <1>0, <1>t, SlotIs DEF InHand, Current, Goto, Take, MovePipe
<1>f. /\ at[p] \in userMap[p] /\ at[p] \in DOMAIN user /\ user[at[p]].pipe = p
      /\ p \in AuthPipes /\ ~moving[at[p][1]] /\ curPipe[at[p][1]] = p /\ d \in Pipes
      /\ user[at[p]] \in [pipe : Pipes, moving : BOOLEAN]
      /\ \A r \in Pipes : at[p] \notin Of(moveOutQ[r])
  <2>1. at[p] \in userMap[p] /\ pc[p] = "found"
    BY <1>0 DEF Own, Goto, Take, MovePipe
  <2>2. Filed(p, at[p])
    BY <1>0, <2>1 DEF Mapped
  <2>3. ~moving[at[p][1]] /\ p \in AuthPipes /\ curPipe[at[p][1]] = p
    BY <2>1, <2>2 DEF Filed, Pipes, Goto, Take, MovePipe
  <2>4. user[at[p]] \in [pipe : Pipes, moving : BOOLEAN]
    BY <1>0, <2>2 DEF Filed, Types
  <2>5. QED  BY <1>0, <2>1, <2>2, <2>3, <2>4 DEF Filed, MovingOut, MovesOut, Pipes
<1>k. \A y : Current(y) /\ y # at[p] => y[1] # at[p][1]
  BY <1>x DEF Current
<1>h. /\ moveOutQ' = Enqueue(moveOutQ, curPipe[at[p][1]], at[p])
      /\ moveOutQ \in [Pipes -> Seq(Sessions)] /\ curPipe[at[p][1]] \in Pipes
      /\ at[p] \in Sessions
  BY <1>0, <1>x, <1>f DEF Types, Goto, Take, MovePipe
<1>q. /\ moveOutQ' \in [Pipes -> Seq(Sessions)]
      /\ Of(moveOutQ'[curPipe[at[p][1]]]) = Of(moveOutQ[curPipe[at[p][1]]]) \cup {at[p]}
      /\ Once(moveOutQ[curPipe[at[p][1]]]) /\ at[p] \notin Of(moveOutQ[curPipe[at[p][1]]])
           => Once(moveOutQ'[curPipe[at[p][1]]])
      /\ \A r \in Pipes : r # curPipe[at[p][1]] => moveOutQ'[r] = moveOutQ[r]
  <2>1. Enqueued(moveOutQ', Pipes, moveOutQ, curPipe[at[p][1]], at[p])
    BY <1>h, EnqueueIs
  <2>2. QED  BY <2>1 DEF Enqueued
<1>y. /\ DOMAIN user' = DOMAIN user /\ user'[at[p]] \in [pipe : Pipes, moving : BOOLEAN]
      /\ user'[at[p]].pipe = p /\ user'[at[p]].moving
      /\ \A y \in DOMAIN user : y # at[p] => user'[y] = user[y]
  <2>1. user' = [user EXCEPT ![at[p]].moving = TRUE]
    BY DEF Goto, Take, MovePipe
  <2>2. user \in [DOMAIN user -> [pipe : Pipes, moving : BOOLEAN]]
    BY <1>0 DEF Types
  <2>3. QED  BY <1>f, <2>1, <2>2
<1>e. /\ pc[p] = "found" /\ pc'[p] = "msg" /\ moving'[at[p][1]] = TRUE
      /\ destPipe'[at[p][1]] = d /\ jobQ'[at[p][1]] = <<>>
      /\ \A r \in Slots : r # at[p][1] =>
           moving'[r] = moving[r] /\ destPipe'[r] = destPipe[r] /\ jobQ'[r] = jobQ[r]
      /\ UNCHANGED <<at, then, refs, recv, dead, userMap, visit, phase, free, id, issued,
                      curPipe,
                     joinQ, moveInQ, leaveQ>>
      /\ \A r \in Slots : refs[r] \in Nat /\ (dead[r] <=> refs[r] = 0)
      /\ \A u \in Threads : u # p => pc'[u] = pc[u] /\ at'[u] = at[u]
  BY <1>0, <1>t, <1>x, <1>f DEF Types, Counted, Goto, Take, MovePipe
<1> USE DEF Goto, Take, MovePipe
<1>1. Types'
  <2>1. /\ free' \subseteq Slots /\ stamp' \in 0..MaxStamp /\ issued' \subseteq Sessions
        /\ id' \in [Slots -> Sessions \cup {None}] /\ refs' \in [Slots -> Nat]
        /\ dead' \in [Slots -> BOOLEAN] /\ canceled' \in [Slots -> BOOLEAN]
        /\ recv' \in [Slots -> BOOLEAN] /\ moving' \in [Slots -> BOOLEAN]
    BY <1>0, <1>t, <1>x, <1>f, <1>q DEF Types, PCs, Phases
  <2>2. /\ curPipe' \in [Slots -> Pipes \cup {None}]
        /\ destPipe' \in [Slots -> Pipes \cup {None}]
        /\ jobQ' \in [Slots -> Seq(Sessions)]
    BY <1>0, <1>t, <1>x, <1>f, <1>q, SMTT(30) DEF Types, PCs, Phases
  <2>3. /\ user' \in [DOMAIN user' -> [pipe : Pipes, moving : BOOLEAN]]
        /\ DOMAIN user' \subseteq Sessions
    BY <1>0, <1>t, <1>x, <1>f, <1>q, <1>y DEF Types
  <2>4. userMap' \in [Pipes -> SUBSET Sessions] /\ visit' \in [Pipes -> SUBSET Sessions]
    BY <1>0, <1>t, <1>x, <1>f, <1>q DEF Types, PCs, Phases
  <2>7. /\ joinQ' \in [Pipes -> Seq(Sessions)] /\ moveInQ' \in [Pipes -> Seq(Sessions)]
        /\ moveOutQ' \in [Pipes -> Seq(Sessions)] /\ leaveQ' \in [Pipes -> Seq(Sessions)]
        /\ phase' \in [Pipes -> Phases]
    BY <1>0, <1>t, <1>x, <1>f, <1>q DEF Types, PCs, Phases
  <2>5. /\ pc' \in [Threads -> PCs] /\ at' \in [Threads -> Sessions \cup {None}]
        /\ then' \in [Threads -> {"loop", "msg", "moveEnd"}]
    BY <1>0, <1>t, <1>x, <1>f, <1>q DEF Types, PCs, Phases
  <2> HIDE DEF Goto, Take, MovePipe
  <2>6. QED  BY <2>1, <2>2, <2>3, <2>4, <2>5, <2>7 DEF Types
<1>2. Counted'
  <2> HIDE DEF Goto, Take, MovePipe
  <2>1. \A u \in Threads : u # p => pc'[u] = pc[u] /\ at'[u] = at[u]
    BY <1>e
  <2>2. ASSUME NEW r \in Slots
        PROVE  /\ refs[r] \in Nat /\ refs'[r] \in Nat
               /\ Counts(r)' - Holds(p, r)' = Counts(r) - Holds(p, r)
               /\ dead'[r] <=> refs'[r] = 0
    BY <1>e, <1>x, <1>f DEF Counts, Holds, Holding
  <2>3. QED  BY <1>0, <1>t, <2>1, <2>2, CountStep
<1>3. Receiving'
  BY <1>0, <1>t, <1>x, <1>f, <1>q DEF Types, Receiving, Current, Receives
<1>4. InHand'
  BY <1>0, <1>t, <1>x, <1>f, <1>q, SMTT(30) DEF Types, InHand, Current, NeverErrorQuit
<1>5. Clean'
  <2> HIDE DEF Goto, Take, MovePipe
  <2>1. ASSUME NEW r \in Slots
        PROVE  /\ r \in free => jobQ'[r] = <<>>
               /\ Of(jobQ'[r]) \subseteq {id[r]}
    <3>1. CASE r = at[p][1]
      BY <1>e, <3>1, OfEmpty
    <3>2. CASE r # at[p][1]
      BY <1>0, <1>e, <3>2 DEF Clean
    <3>3. QED  BY <3>1, <3>2
  <2>2. QED  BY <1>0, <1>e, <2>1 DEF Clean
<1>6. Stamped'
  BY <1>0, <1>t, <1>x, <1>f, <1>q DEF Types, Stamped, Current
<1>7. Mapped'
  <2> HIDE DEF Goto, Take, MovePipe
  <2>1. ASSUME NEW r \in Pipes, NEW y \in userMap'[r]
        PROVE  Filed(r, y)'
    <3>1. Filed(r, y) /\ r \in Threads
      BY <1>0, <1>t, <1>e DEF Mapped
    <3>2. CASE y = at[p]
      <4>1. r = p
        BY <1>f, <3>1, <3>2 DEF Filed
      <4>2. QED  BY <1>x, <1>f, <1>e, <1>y, <3>1, <3>2, <4>1 DEF Filed, Current
    <3>3. CASE y # at[p]
      <4>1. y[1] # at[p][1] /\ y[1] \in Slots
        BY <1>k, <1>u, <3>1, <3>3, SlotIs DEF Filed
      <4>2. pc'[r] = "entered" <=> pc[r] = "entered"
        BY <1>e, <1>y, <3>1
      <4>3. QED  BY <1>e, <1>y, <3>1, <3>3, <4>1, <4>2 DEF Filed, Current
    <3>4. QED  BY <3>2, <3>3
  <2>2. QED  BY <2>1 DEF Mapped
<1>8. Own'
  <2> HIDE DEF Goto, Take, MovePipe
  <2>1. QED  BY <1>0, <1>t, <1>e DEF Own
<1>9. OnTheWay'
  BY <1>0, <1>t, <1>x, <1>f, <1>q DEF Types, OnTheWay, Current
<1>10. Settled'
  BY <1>0, <1>t, <1>x, <1>f, <1>q DEF Types, Settled, Current
<1>11. Requesting'
  <2> HIDE DEF Goto, Take, MovePipe
  <2>1. ASSUME pc'[Acceptor] = "request"
        PROVE  /\ pc[Acceptor] = "request" /\ at[Acceptor][1] # at[p][1]
               /\ at[Acceptor][1] \in Slots
    <3>1. Acceptor \in Threads /\ pc[Acceptor] = "request"
      BY <1>t, <1>e, <1>y, <2>1 DEF Threads
    <3>2. at[Acceptor] \in Sessions /\ Current(at[Acceptor]) /\ at[Acceptor] # at[p]
      BY <1>0, <1>f, <3>1 DEF InHand, Requesting
    <3>3. QED  BY <1>k, <3>1, <3>2, SlotIs
  <2>2. QED  BY <1>0, <1>e, <1>y, <2>1 DEF Requesting
<1>12. Joining'
  <2>1. ASSUME NEW r \in Pipes
        PROVE  Once(joinQ'[r])
    BY <1>0 DEF Joining
  <2>2. ASSUME NEW r \in Pipes, NEW y \in Of(joinQ'[r])
        PROVE  Joins(r, y)'
    <3> HIDE DEF Goto, Take, MovePipe
    <3>1. Joins(r, y)
      BY <1>0, <1>e DEF Joining
    <3>2. y[1] # at[p][1] /\ y[1] \in Slots
      BY <1>k, <1>f, <3>1, SlotIs DEF Joins
    <3>3. QED  BY <1>e, <1>y, <3>1, <3>2 DEF Joins, Current
  <2> HIDE DEF Goto, Take, MovePipe
  <2>3. QED  BY <2>1, <2>2 DEF Joining
<1>13. MovingOut'
  <2>1. ASSUME NEW r \in Pipes
        PROVE  Once(moveOutQ'[r])
    BY <1>0, <1>f, <1>q DEF MovingOut
  <2>2. ASSUME NEW r \in Pipes, NEW y \in Of(moveOutQ'[r])
        PROVE  MovesOut(r, y)'
    <3> HIDE DEF Goto, Take, MovePipe
    <3>1. CASE y = at[p] /\ r = p
      BY <1>e, <1>y, <1>f, <1>x, <3>1 DEF MovesOut
    <3>2. CASE y \in Of(moveOutQ[r])
      <4>1. MovesOut(r, y) /\ y # at[p]
        BY <1>0, <1>f, <3>2 DEF MovingOut
      <4>2. y[1] # at[p][1] /\ y[1] \in Slots
        <5>1. Filed(r, y)
          BY <1>0, <4>1 DEF Mapped, MovesOut
        <5>2. QED  BY <1>k, <1>u, <4>1, <5>1, SlotIs DEF Filed
      <4>3. QED  BY <1>e, <1>y, <4>1, <4>2 DEF MovesOut
    <3>3. QED  BY <1>q, <1>f, <3>1, <3>2
  <2> HIDE DEF Goto, Take, MovePipe
  <2>3. QED  BY <2>1, <2>2 DEF MovingOut
<1>14. MovingIn'
  <2>1. ASSUME NEW r \in Pipes
        PROVE  Once(moveInQ'[r])
    BY <1>0 DEF MovingIn
  <2>2. ASSUME NEW r \in Pipes, NEW y \in Of(moveInQ'[r])
        PROVE  MovesIn(r, y)'
    <3> HIDE DEF Goto, Take, MovePipe
    <3>1. MovesIn(r, y)
      BY <1>0, <1>e DEF MovingIn
    <3>2. y # at[p]
      BY <1>f, <3>1 DEF MovesIn
    <3>3. y[1] # at[p][1] /\ y[1] \in Slots
      BY <1>k, <1>u, <3>1, <3>2, SlotIs DEF MovesIn
    <3>4. QED  BY <1>e, <1>y, <3>1, <3>3 DEF MovesIn, Current
  <2> HIDE DEF Goto, Take, MovePipe
  <2>3. QED  BY <2>1, <2>2 DEF MovingIn
<1>15. Leaving'
  BY <1>0, <1>t, <1>x, <1>f, <1>q DEF Types, Leaving, Current, Leaves
<1>16. Ending'
  BY <1>0, <1>t, <1>x, <1>f, <1>q, SMTT(30) DEF Types, Ending, Current
<1>17. NeverErrorQuit'
  BY <1>0, <1>t, <1>x, <1>f, <1>q DEF Types, NeverErrorQuit, Current
<1> HIDE DEF Goto, Take, MovePipe
<1>18. QED
  BY <1>1, <1>2, <1>3, <1>4, <1>5, <1>6, <1>7, <1>8, <1>9, <1>10, <1>11, <1>12, <1>13, <1>14,
     <1>15, <1>16, <1>17 DEF IInv

\* The user's other messages are left for the next frame.
LEMMA RefuseKeepsInv ==
  ASSUME NEW p \in Pipes, IInv, Refuse(p)
  PROVE  IInv'
<1>0. /\ Types /\ Counted /\ Receiving /\ InHand /\ Clean /\ Stamped /\ Mapped /\ Own
      /\ OnTheWay /\ Settled /\ Requesting /\ Joining /\ MovingOut /\ MovingIn /\ Leaving
      /\ Ending /\ NeverErrorQuit
  BY DEF IInv
<1>t. Pipes \subseteq Threads /\ Acceptor \notin Pipes /\ p \in Threads /\ p # Acceptor
  BY DEF Threads, Pipes
<1>u. \A y \in DOMAIN user : y \in Sessions /\ Current(y)
  BY <1>0, UsersCurrent
<1>x. /\ at[p] \in Sessions /\ at[p][1] \in Slots /\ Current(at[p])
      /\ at[p][1] \notin free /\ id[at[p][1]] = at[p]
  BY <1>0, <1>t, SlotIs DEF InHand, Current, Goto, Take, Refuse
<1>e. /\ pc[p] = "msg" /\ pc'[p] = "failed"
      /\ visit'[p] = visit[p] \ {at[p]} /\ \A r \in Pipes : r # p => visit'[r] = visit[r]
      /\ UNCHANGED <<at, userMap, phase>>
      /\ \A r \in Slots : refs[r] \in Nat /\ (dead[r] <=> refs[r] = 0)
      /\ \A u \in Threads : u # p => pc'[u] = pc[u] /\ at'[u] = at[u]
  BY <1>0, <1>t DEF Types, Counted, Goto, Take, Refuse
<1> USE DEF Goto, Take, Refuse
<1>1. Types'
  BY <1>0, <1>t, <1>x DEF Types, PCs, Phases
<1>2. Counted'
  <2>1. \A u \in Threads : u # p => pc'[u] = pc[u] /\ at'[u] = at[u]
    BY <1>0, <1>t DEF Types
  <2>2. ASSUME NEW r \in Slots
        PROVE  /\ refs[r] \in Nat /\ refs'[r] \in Nat
               /\ Counts(r)' - Holds(p, r)' = Counts(r) - Holds(p, r)
               /\ dead'[r] <=> refs'[r] = 0
    BY <1>0, <1>t, <1>x DEF Types, InHand, Holding, Counts, Holds, Counted, Current
  <2>3. QED  BY <1>0, <1>t, <2>1, <2>2, CountStep
<1>3. Receiving'
  BY <1>0, <1>t, <1>x DEF Types, Receiving, Current, Receives
<1>4. InHand'
  BY <1>0, <1>t, <1>x DEF Types, InHand, Current, NeverErrorQuit
<1>5. Clean'
  BY <1>0, <1>t, <1>x DEF Types, Clean, Current
<1>6. Stamped'
  BY <1>0, <1>t, <1>x DEF Types, Stamped, Current
<1>7. Mapped'
  <2>1. UNCHANGED <<free, id, user, userMap, curPipe, destPipe, moving>>
    OBVIOUS
  <2>2. \A r \in Pipes : at'[r] = at[r] /\ (pc'[r] = "entered" <=> pc[r] = "entered")
    BY <1>0, <1>t DEF Types
  <2> HIDE DEF Goto, Take, Refuse
  <2>3. QED  BY <1>0, <2>1, <2>2 DEF Mapped, Filed, Current
<1>8. Own'
  <2> HIDE DEF Goto, Take, Refuse
  <2>1. QED  BY <1>0, <1>t, <1>e DEF Own
<1>9. OnTheWay'
  BY <1>0, <1>t, <1>x DEF Types, OnTheWay, Current
<1>10. Settled'
  BY <1>0, <1>t, <1>x DEF Types, Settled, Current
<1>11. Requesting'
  BY <1>0, <1>t, <1>x DEF Types, Requesting, Current
<1>12. Joining'
  BY <1>0, <1>t, <1>x DEF Types, Joining, Current, Joins
<1>13. MovingOut'
  BY <1>0, <1>t, <1>x DEF Types, MovingOut, Current, MovesOut
<1>14. MovingIn'
  BY <1>0, <1>t, <1>x DEF Types, MovingIn, Current, MovesIn
<1>15. Leaving'
  BY <1>0, <1>t, <1>x DEF Types, Leaving, Current, Leaves
<1>16. Ending'
  BY <1>0, <1>t, <1>x DEF Types, Ending, Current
<1>17. NeverErrorQuit'
  BY <1>0, <1>t, <1>x DEF Types, NeverErrorQuit, Current
<1> HIDE DEF Goto, Take, Refuse
<1>18. QED
  BY <1>1, <1>2, <1>3, <1>4, <1>5, <1>6, <1>7, <1>8, <1>9, <1>10, <1>11, <1>12, <1>13, <1>14,
     <1>15, <1>16, <1>17 DEF IInv

\* Nothing but the flag changes.
LEMMA DisconnectKeepsInv ==
  ASSUME NEW p \in Pipes, IInv, Disconnect(p)
  PROVE  IInv'
<1>0. /\ Types /\ Counted /\ Receiving /\ InHand /\ Clean /\ Stamped /\ Mapped /\ Own
      /\ OnTheWay /\ Settled /\ Requesting /\ Joining /\ MovingOut /\ MovingIn /\ Leaving
      /\ Ending /\ NeverErrorQuit
  BY DEF IInv
<1>t. Pipes \subseteq Threads /\ Acceptor \notin Pipes /\ p \in Threads /\ p # Acceptor
  BY DEF Threads, Pipes
<1>u. \A y \in DOMAIN user : y \in Sessions /\ Current(y)
  BY <1>0, UsersCurrent
<1>x. /\ at[p] \in Sessions /\ at[p][1] \in Slots /\ Current(at[p])
      /\ at[p][1] \notin free /\ id[at[p][1]] = at[p]
  BY <1>0, <1>t, SlotIs DEF InHand, Current, Goto, Take, Disconnect
<1> USE DEF Goto, Take, Disconnect
<1>1. Types'
  BY <1>0, <1>t, <1>x DEF Types, PCs, Phases
<1>2. Counted'
  <2>1. \A u \in Threads : u # p => pc'[u] = pc[u] /\ at'[u] = at[u]
    BY <1>0, <1>t DEF Types
  <2>2. ASSUME NEW r \in Slots
        PROVE  /\ refs[r] \in Nat /\ refs'[r] \in Nat
               /\ Counts(r)' - Holds(p, r)' = Counts(r) - Holds(p, r)
               /\ dead'[r] <=> refs'[r] = 0
    BY <1>0, <1>t, <1>x DEF Types, InHand, Holding, Counts, Holds, Counted, Current
  <2>3. QED  BY <1>0, <1>t, <2>1, <2>2, CountStep
<1>3. Receiving'
  BY <1>0, <1>t, <1>x DEF Types, Receiving, Current, Receives
<1>4. InHand'
  BY <1>0, <1>t, <1>x DEF Types, InHand, Current, NeverErrorQuit
<1>5. Clean'
  BY <1>0, <1>t, <1>x DEF Types, Clean, Current
<1>6. Stamped'
  BY <1>0, <1>t, <1>x DEF Types, Stamped, Current
<1>7. Mapped'
  BY <1>0, <1>t, <1>x DEF Types, Mapped, Current, Filed
<1>8. Own'
  BY <1>0, <1>t, <1>x DEF Types, Own, Current
<1>9. OnTheWay'
  BY <1>0, <1>t, <1>x DEF Types, OnTheWay, Current
<1>10. Settled'
  BY <1>0, <1>t, <1>x DEF Types, Settled, Current
<1>11. Requesting'
  BY <1>0, <1>t, <1>x DEF Types, Requesting, Current
<1>12. Joining'
  BY <1>0, <1>t, <1>x DEF Types, Joining, Current, Joins
<1>13. MovingOut'
  BY <1>0, <1>t, <1>x DEF Types, MovingOut, Current, MovesOut
<1>14. MovingIn'
  BY <1>0, <1>t, <1>x DEF Types, MovingIn, Current, MovesIn
<1>15. Leaving'
  BY <1>0, <1>t, <1>x DEF Types, Leaving, Current, Leaves
<1>16. Ending'
  BY <1>0, <1>t, <1>x DEF Types, Ending, Current
<1>17. NeverErrorQuit'
  BY <1>0, <1>t, <1>x DEF Types, NeverErrorQuit, Current
<1> HIDE DEF Goto, Take, Disconnect
<1>18. QED
  BY <1>1, <1>2, <1>3, <1>4, <1>5, <1>6, <1>7, <1>8, <1>9, <1>10, <1>11, <1>12, <1>13, <1>14,
     <1>15, <1>16, <1>17 DEF IInv

-----------------------------------------------------------------------------
(***************************************************************************)
(* The invariant holds, and what follows from it.                          *)
(***************************************************************************)
LEMMA InitInv == Init => IInv
<1> SUFFICES ASSUME Init PROVE IInv
  OBVIOUS
<1>1. Types
  <2>1. /\ user = <<>> /\ DOMAIN user = {} /\ <<>> \in Seq(Sessions)
        /\ user \in [DOMAIN user -> [pipe : Pipes, moving : BOOLEAN]]
    BY DEF Init
  <2>2. QED  BY <2>1 DEF Init, Types, Phases, PCs
<1>2. Counted
  <2>1. \A s \in Slots : Holders(s) = {}
    BY DEF Init, Holders, Holding
  <2>2. Cardinality({}) = 0
    BY FS_EmptySet
  <2>3. ASSUME NEW s \in Slots
        PROVE  refs[s] = 0 /\ dead[s] /\ ~recv[s] /\ ~moving[s]
    BY DEF Init
  <2>4. QED  BY <2>1, <2>2, <2>3 DEF Counted
<1>3. DOMAIN user = {}
  BY DEF Init
<1>4. \A s \in Slots : Of(jobQ[s]) = {}
  BY OfEmpty DEF Init
<1>5. /\ \A p \in Pipes : Of(joinQ[p]) = {} /\ Of(moveInQ[p]) = {}
      /\ \A p \in Pipes : Of(moveOutQ[p]) = {} /\ Of(leaveQ[p]) = {}
  BY OfEmpty DEF Init
<1>6. \A p \in Pipes : /\ Once(joinQ[p]) /\ Once(moveInQ[p])
                    /\ Once(moveOutQ[p]) /\ Once(leaveQ[p])
  BY DEF Init, Once
<1>7. Receiving /\ InHand /\ Clean /\ Stamped /\ NeverErrorQuit
  BY <1>4 DEF Init, Receiving, Receives, InHand, Clean, Stamped, NeverErrorQuit
<1>8. Mapped /\ Own /\ OnTheWay /\ Settled
  <2>1. Pipes \subseteq Threads
    BY DEF Threads
  <2>2. \A p \in Pipes : userMap[p] = {} /\ visit[p] = {} /\ pc[p] = "loop"
    BY <2>1 DEF Init
  <2>3. \A s \in Slots : dead[s]
    BY DEF Init
  <2>4. Mapped
    BY <2>2 DEF Mapped
  <2>5. Own
    BY <2>2 DEF Own
  <2>6. OnTheWay
    BY <1>3 DEF OnTheWay
  <2>7. Settled
    BY <2>3 DEF Settled
  <2>8. QED  BY <2>4, <2>5, <2>6, <2>7
<1>9. Requesting /\ Ending
  BY DEF Init, Requesting, Ending, Threads
<1>10. Joining /\ MovingOut /\ MovingIn /\ Leaving
  BY <1>5, <1>6 DEF Joining, MovingOut, MovingIn, Leaving
<1>11. QED  BY <1>1, <1>2, <1>7, <1>8, <1>9, <1>10 DEF IInv

\* A step that changes nothing.
LEMMA StutterInv == IInv /\ UNCHANGED vars => IInv'
<1> SUFFICES ASSUME IInv, UNCHANGED vars PROVE IInv'
  OBVIOUS
<1>1. Types'
  BY DEF IInv, vars, Types
<1>2. Counted'
  BY DEF IInv, vars, Counted, Holders
<1>3. Receiving'
  BY DEF IInv, vars, Receiving
<1>4. InHand'
  BY DEF IInv, vars, InHand, Current
<1>5. Clean'
  BY DEF IInv, vars, Clean
<1>6. Stamped'
  BY DEF IInv, vars, Stamped
<1>7. Mapped'
  BY DEF IInv, vars, Mapped, Filed, Current
<1>8. Own'
  BY DEF IInv, vars, Own
<1>9. OnTheWay'
  BY DEF IInv, vars, OnTheWay
<1>10. Settled'
  BY DEF IInv, vars, Settled
<1>11. Requesting'
  BY DEF IInv, vars, Requesting
<1>12. Joining'
  BY DEF IInv, vars, Joining, Joins, Current
<1>13. MovingOut'
  BY DEF IInv, vars, MovingOut, MovesOut
<1>14. MovingIn'
  BY DEF IInv, vars, MovingIn, MovesIn, Current
<1>15. Leaving'
  BY DEF IInv, vars, Leaving, Leaves
<1>16. Ending'
  BY DEF IInv, vars, Ending
<1>17. NeverErrorQuit'
  BY DEF IInv, vars, NeverErrorQuit
<1>18. QED
  BY <1>1, <1>2, <1>3, <1>4, <1>5, <1>6, <1>7, <1>8, <1>9, <1>10, <1>11, <1>12, <1>13, <1>14,
     <1>15, <1>16, <1>17 DEF IInv

\* One step for each action of Next.
LEMMA NextInv == IInv /\ [Next]_vars => IInv'
<1> SUFFICES ASSUME IInv, [Next]_vars PROVE IInv'
  OBVIOUS
<1>1. ASSUME NEW s \in Slots, NEW p \in AuthPipes, Accept(s, p)
      PROVE  IInv'
  BY <1>1, AcceptKeepsInv
<1>2. CASE RequestEnter
  BY <1>2, RequestEnterKeepsInv
<1>3. ASSUME NEW t \in Threads, RecvPost(t)
      PROVE  IInv'
  BY <1>3, RecvPostKeepsInv
<1>4. ASSUME NEW t \in Threads, GiveBack(t)
      PROVE  IInv'
  BY <1>4, GiveBackKeepsInv
<1>5. ASSUME NEW t \in Threads, ReleaseSession(t)
      PROVE  IInv'
  BY <1>5, ReleaseSessionKeepsInv
<1>6. ASSUME NEW t \in Threads, DeleteSession(t)
      PROVE  IInv'
  BY <1>6, DeleteSessionKeepsInv
<1>7. ASSUME NEW w \in Workers, OnRecv(w)
      PROVE  IInv'
  BY <1>7, OnRecvKeepsInv
<1>8. ASSUME NEW w \in Workers, OnRecvEnds(w)
      PROVE  IInv'
  BY <1>8, OnRecvEndsKeepsInv
<1>9. ASSUME NEW w \in Workers, NEW s \in Slots, TakeReceive(w, s)
      PROVE  IInv'
  BY <1>9, TakeReceiveKeepsInv
<1>10. ASSUME NEW p \in Pipes, Frame(p) \/ Message(p)
      PROVE  IInv'
  <2>1. CASE NextPhase(p)
    BY <2>1, NextPhaseKeepsInv
  <2>2. CASE Join(p)
    BY <2>2, JoinKeepsInv
  <2>3. CASE MoveIn(p)
    BY <2>3, MoveInKeepsInv
  <2>4. CASE AfterPipeEnter(p)
    BY <2>4, AfterPipeEnterKeepsInv
  <2>5. CASE MoveEnd(p)
    BY <2>5, MoveEndKeepsInv
  <2>6. CASE MoveOut(p)
    BY <2>6, MoveOutKeepsInv
  <2>7. CASE Leave(p)
    BY <2>7, LeaveKeepsInv
  <2>8. ASSUME NEW x \in visit[p], DequeueJob(p, x)
        PROVE  IInv'
    BY <2>8, DequeueJobKeepsInv
  <2>9. ASSUME NEW x \in visit[p], NextUser(p, x)
        PROVE  IInv'
    BY <2>9, NextUserKeepsInv
  <2>10. CASE FindSession(p, "cancel")
    BY <2>10, FindSessionKeepsInv
  <2>11. CASE FindSession(p, "found")
    BY <2>11, FindSessionKeepsInv
  <2>12. CASE Disconnect(p)
    BY <2>12, DisconnectKeepsInv
  <2>13. CASE MoveRefused(p)
    BY <2>13, MoveRefusedKeepsInv
  <2>14. ASSUME NEW d \in GamePipes, MovePipe(p, d)
        PROVE  IInv'
    BY <2>14, MovePipeKeepsInv
  <2>15. CASE Refuse(p)
    BY <2>15, RefuseKeepsInv
  <2>16. CASE SetDone(p)
    BY <2>16, SetDoneKeepsInv
  <2>17. QED
    BY <1>10, <2>1, <2>2, <2>3, <2>4, <2>5, <2>6, <2>7, <2>8, <2>9, <2>10, <2>11, <2>12,
       <2>13, <2>14, <2>15, <2>16 DEF Frame, Message
<1>11. CASE UNCHANGED vars
  BY <1>11, StutterInv
<1>12. QED
  BY <1>1, <1>2, <1>3, <1>4, <1>5, <1>6, <1>7, <1>8, <1>9, <1>10, <1>11 DEF Next, Letting

\* IInv is inductive: it holds in every state of every behaviour.
THEOREM InvHolds == Spec => []IInv
  BY InitInv, NextInv, PTL DEF Spec

\* Every variable keeps its type.
THEOREM TypeCorrect == Spec => []TypeOK
<1>1. IInv => TypeOK
  BY TypesIs DEF IInv
<1>2. QED  BY <1>1, InvHolds, PTL

\* None of the ErrorQuit and Crash calls of the pipes is reached, for any number of
\* slots, pipes and workers.
THEOREM NeverErrorQuitTheorem == Spec => []NeverErrorQuit
<1>1. IInv => NeverErrorQuit
  BY DEF IInv
<1>2. QED  BY <1>1, InvHolds, PTL

\* There are finitely many sessions.
LEMMA SessionsFinite == IsFiniteSet(Sessions) /\ Cardinality(Sessions) \in Nat
<1>1. IsFiniteSet(1..MaxStamp)
  BY FS_Interval
<1>2. IsFiniteSet(Slots \X (1..MaxStamp))
  BY <1>1, FS_Product
<1>3. QED  BY <1>2, FS_CardinalityType DEF Sessions

\* A queue that has nobody twice is no longer than there are sessions.
LEMMA OnceIsShort ==
  ASSUME NEW q \in Seq(Sessions), Once(q)
  PROVE  Len(q) <= Cardinality(Sessions)
<1>1. SUFFICES ASSUME Cardinality(Sessions) < Len(q)
      PROVE  FALSE
  BY SessionsFinite, LenProperties
<1>2. Len(q) \in Nat /\ DOMAIN q = 1..Len(q) /\ q \in [1..Len(q) -> Sessions]
  BY LenProperties
<1>3. IsFiniteSet(1..Len(q)) /\ Cardinality(1..Len(q)) = Len(q)
  BY <1>2, FS_Interval, SMTT(30)
<1>4. Cardinality(Sessions) < Cardinality(1..Len(q))
  BY <1>1, <1>3
<1>5. \E i, j \in 1..Len(q) : i # j /\ q[i] = q[j]
  BY <1>2, <1>3, <1>4, SessionsFinite, FS_PigeonHole
<1>6. QED  BY <1>2, <1>5 DEF Once

\* How often a session is in four queues of a kind: never, or once.
LEMMA TimesNone ==
  ASSUME NEW q, NEW x, \A p \in Pipes : x \notin Of(q[p])
  PROVE  Times(q, x) = 0
<1>1. {o \in Pipes \X (1..Cardinality(Sessions)) : o[2] \in DOMAIN q[o[1]] /\ q[o[1]][o[2]] = x}
        = {}
  BY DEF Of
<1>2. QED  BY <1>1, FS_EmptySet DEF Times

\* A session that is in one queue, once, is counted once.
LEMMA TimesOnce ==
  ASSUME NEW q \in [Pipes -> Seq(Sessions)], NEW x, NEW p \in Pipes, Once(q[p]), x \in Of(q[p]),
         \A r \in Pipes : x \in Of(q[r]) => r = p
  PROVE  Times(q, x) = 1
<1>1. PICK i \in DOMAIN q[p] : q[p][i] = x
  BY DEF Of
<1>2. q[p] \in Seq(Sessions) /\ DOMAIN q[p] = 1..Len(q[p]) /\ Len(q[p]) \in Nat
  BY LenProperties
<1>3. i \in 1..Cardinality(Sessions)
  BY <1>1, <1>2, OnceIsShort, SessionsFinite
<1>4. {o \in Pipes \X (1..Cardinality(Sessions)) : o[2] \in DOMAIN q[o[1]] /\ q[o[1]][o[2]] = x}
        = {<<p, i>>}
  <2>1. ASSUME NEW o \in Pipes \X (1..Cardinality(Sessions)), o[2] \in DOMAIN q[o[1]],
               q[o[1]][o[2]] = x
        PROVE  o = <<p, i>>
    <3>1. o[1] = p
      BY <2>1 DEF Of
    <3>2. o[2] = i
      BY <1>1, <2>1, <3>1 DEF Once
    <3>3. QED  BY <3>1, <3>2
  <2>2. <<p, i>> \in Pipes \X (1..Cardinality(Sessions)) /\ <<p, i>>[1] = p /\ <<p, i>>[2] = i
    BY <1>3
  <2>3. QED  BY <1>1, <2>1, <2>2
<1>5. QED  BY <1>4, FS_Singleton DEF Times

\* What the queues of a kind hold between them.
LEMMA InIs ==
  ASSUME NEW q, NEW x
  PROVE  x \in In(q) <=> \E p \in Pipes : x \in Of(q[p])
<1>1. In(q) = UNION {Of(q[p]) : p \in Pipes}
  BY DEF In, Of
<1>2. QED  BY <1>1

\* A NetUser lives exactly as long as it is in one map or on the way to one, and no
\* queue and no thread holds the pointer of a user that was freed.
THEOREM OnePlaceTheorem == Spec => []OnePlace
<1>1. IInv => OnePlace
  <2> SUFFICES ASSUME IInv PROVE OnePlace
    OBVIOUS
  <2>0. Types /\ Mapped /\ Own /\ OnTheWay /\ MovingOut /\ MovingIn
    BY DEF IInv
  <2>1. ASSUME NEW x \in Sessions, x \notin DOMAIN user
        PROVE  Cardinality({p \in Pipes : x \in userMap[p]}) + Times(moveInQ, x) = 0
    <3>1. {p \in Pipes : x \in userMap[p]} = {}
      BY <2>0, <2>1 DEF Mapped, Filed
    <3>2. Times(moveInQ, x) = 0
      BY <2>0, <2>1, TimesNone DEF MovingIn, MovesIn
    <3>3. QED  BY <3>1, <3>2, FS_EmptySet
  <2>2. ASSUME NEW x \in DOMAIN user
        PROVE  Cardinality({p \in Pipes : x \in userMap[p]}) + Times(moveInQ, x) = 1
    <3>1. CASE x \in userMap[user[x].pipe]
      <4>1. user[x].pipe \in Pipes
        BY <2>0 DEF Types
      <4>2. {p \in Pipes : x \in userMap[p]} = {user[x].pipe}
        BY <2>0, <3>1, <4>1 DEF Mapped, Filed
      <4>3. Times(moveInQ, x) = 0
        BY <2>0, <3>1, <4>1, TimesNone DEF MovingIn, MovesIn
      <4>4. Cardinality({user[x].pipe}) = 1
        BY FS_Singleton
      <4>5. QED  BY <4>2, <4>3, <4>4
    <3>2. CASE \E p \in Pipes : x \in Of(moveInQ[p])
      <4>1. PICK p \in Pipes : x \in Of(moveInQ[p])
        BY <3>2
      <4>2. MovesIn(p, x) /\ Once(moveInQ[p])
        BY <2>0, <4>1 DEF MovingIn
      <4>3. \A r \in Pipes : x \in Of(moveInQ[r]) => r = p
        BY <2>0, <4>2 DEF MovingIn, MovesIn
      <4>4. moveInQ \in [Pipes -> Seq(Sessions)]
        BY <2>0 DEF Types
      <4>5. Times(moveInQ, x) = 1
        BY <4>1, <4>2, <4>3, <4>4, TimesOnce
      <4>6. {r \in Pipes : x \in userMap[r]} = {}
        BY <4>2 DEF MovesIn
      <4>7. Cardinality({r \in Pipes : x \in userMap[r]}) = 0
        BY <4>6, FS_EmptySet
      <4>8. QED  BY <4>5, <4>7
    <3>3. QED  BY <2>0, <3>1, <3>2 DEF OnTheWay
  <2>3. In(moveOutQ) \subseteq DOMAIN user
    BY <2>0, InIs DEF MovingOut, MovesOut, Mapped, Filed
  <2>4. QED  BY <2>0, <2>1, <2>2, <2>3 DEF OnePlace, Own
<1>2. QED  BY <1>1, InvHolds, PTL

\* A session is told to leave once, by the pipe that has its user, and after every
\* move of it has ended.
THEOREM LeavesFromItsPipeTheorem == Spec => []LeavesFromItsPipe
<1>1. IInv => LeavesFromItsPipe
  <2> SUFFICES ASSUME IInv, NEW p \in Pipes, NEW i \in DOMAIN leaveQ[p], NEW x, x = leaveQ[p][i]
               PROVE  /\ x \in userMap[p] /\ Times(leaveQ, x) = 1
                      /\ dead[x[1]] /\ id[x[1]] = x
                      /\ x \notin In(joinQ) \cup In(moveInQ) \cup In(moveOutQ)
    BY DEF LeavesFromItsPipe
  <2>0. Types /\ Counted /\ Mapped /\ Joining /\ MovingOut /\ MovingIn /\ Leaving
    BY DEF IInv
  <2>1. x \in Of(leaveQ[p])
    BY DEF Of
  <2>2. Leaves(p, x) /\ Once(leaveQ[p])
    BY <2>0, <2>1 DEF Leaving
  <2>3. Filed(p, x)
    BY <2>0, <2>2 DEF Leaves, Mapped
  <2>4. x[1] \in Slots
    BY <2>0, <2>3, SlotIs DEF Filed, Types
  <2>5. Times(leaveQ, x) = 1
    <3>1. \A r \in Pipes : x \in Of(leaveQ[r]) => r = p
      BY <2>0, <2>3 DEF Leaving, Leaves, Mapped, Filed
    <3>2. leaveQ \in [Pipes -> Seq(Sessions)]
      BY <2>0 DEF Types
    <3>3. QED  BY <2>1, <2>2, <3>1, <3>2, TimesOnce
  <2>6. ~moving[x[1]]
    BY <2>0, <2>2, <2>4, DeadIs DEF Leaves
  <2>7. x \notin In(joinQ) /\ x \notin In(moveInQ) /\ x \notin In(moveOutQ)
    BY <2>0, <2>6, InIs DEF Joining, Joins, MovingIn, MovesIn, MovingOut, MovesOut
  <2>8. QED  BY <2>2, <2>3, <2>5, <2>7 DEF Leaves, Filed, Current
<1>2. QED  BY <1>1, InvHolds, PTL

\* Nothing of a session is left anywhere when its slot can be reused.
THEOREM RecycledIsForgottenTheorem == Spec => []RecycledIsForgotten
<1>1. IInv => RecycledIsForgotten
  <2> SUFFICES ASSUME IInv PROVE RecycledIsForgotten
    OBVIOUS
  <2>0. Types /\ Counted /\ Clean /\ Mapped /\ Joining /\ MovingOut /\ MovingIn /\ Leaving
    BY DEF IInv
  <2>1. ASSUME NEW s \in free
        PROVE  jobQ[s] = <<>> /\ ~moving[s] /\ curPipe[s] = None
    <3>1. s \in Slots /\ jobQ[s] = <<>> /\ curPipe[s] = None /\ dead[s]
      BY <2>0 DEF Types, Clean, Counted
    <3>2. QED  BY <2>0, <3>1, DeadIs
  <2>2. ASSUME NEW p \in Pipes, NEW x \in userMap[p]
        PROVE  x[1] \notin free
    BY <2>0 DEF Mapped, Filed, Current
  <2>3. ASSUME NEW x \in In(joinQ) \cup In(moveInQ) \cup In(moveOutQ) \cup In(leaveQ)
        PROVE  x[1] \notin free
    <3>1. PICK p \in Pipes : \/ x \in Of(joinQ[p]) \/ x \in Of(moveInQ[p])
                             \/ x \in Of(moveOutQ[p]) \/ x \in Of(leaveQ[p])
      BY InIs
    <3>2. Joins(p, x) \/ MovesIn(p, x) \/ MovesOut(p, x) \/ Leaves(p, x)
      BY <2>0, <3>1 DEF Joining, MovingIn, MovingOut, Leaving
    <3>3. QED  BY <2>2, <3>2 DEF Joins, MovesIn, MovesOut, Leaves, Current
  <2>4. ASSUME NEW x \in UNION {userMap[p] : p \in Pipes}
        PROVE  x[1] \notin free
    BY <2>2
  <2>5. QED  BY <2>1, <2>3, <2>4 DEF RecycledIsForgotten
<1>2. QED  BY <1>1, InvHolds, PTL

-----------------------------------------------------------------------------
(***************************************************************************)
(* What content sees is a UserJourney: six actions are steps of it, and    *)
(* the others leave every user where it is.                                *)
(***************************************************************************)
\* The place of one session.
Here(x) == {p \in Pipes : x \in userMap[p]}
Where(x) == IF Here(x) # {} THEN CHOOSE p \in Here(x) : TRUE
            ELSE IF x \notin issued THEN "before"
            ELSE IF id[x[1]] # x \/ dead[x[1]] THEN "after"
            ELSE IF x \in DOMAIN user THEN "moving" ELSE "joining"

\* The place of each session, one by one.
LEMMA PlaceIs == /\ place = [x \in Sessions |-> Where(x)]
                 /\ place' = [x \in Sessions |-> Where(x)']
<1>1. place = [x \in Sessions |-> Where(x)]
  BY DEF place, Where, Here
<1>2. place' = [x \in Sessions |-> Where(x)']
  BY DEF place, Where, Here
<1>3. QED  BY <1>1, <1>2

\* A user that a pipe has is there and nowhere else.
LEMMA HereIs ==
  ASSUME NEW p \in Pipes, NEW x \in Sessions
  PROVE  /\ Mapped /\ x \in userMap[p] => Here(x) = {p} /\ Where(x) = p
         /\ Mapped' /\ x \in userMap'[p] => Here(x)' = {p} /\ Where(x)' = p
<1>1. ASSUME Mapped, x \in userMap[p]
      PROVE  Here(x) = {p}
  BY <1>1 DEF Here, Mapped, Filed
<1>2. ASSUME Mapped', x \in userMap'[p]
      PROVE  Here(x)' = {p}
  BY <1>2 DEF Here, Mapped, Filed
<1>3. (CHOOSE q \in {p} : TRUE) = p
  OBVIOUS
<1>4. QED  BY <1>1, <1>2, <1>3 DEF Where

\* One session goes somewhere while the others stay.
LEMMA GoesTo ==
  ASSUME NEW x \in Sessions, NEW to, Where(x)' = to,
         \A y \in Sessions : y # x => Where(y)' = Where(y)
  PROVE  Journey!Goes(x, to)
  BY PlaceIs DEF Journey!Goes

\* When each session is where it was, so is everybody.
LEMMA StaysPut ==
  ASSUME \A y \in Sessions : Where(y)' = Where(y)
  PROVE  place' = place
  BY PlaceIs

\* Where a session is depends on these variables only.
LEMMA SamePlaces ==
  ASSUME UNCHANGED <<issued, id, dead, userMap>>, DOMAIN user' = DOMAIN user
  PROVE  place' = place
<1>1. \A y \in Sessions : Where(y)' = Where(y)
  BY DEF Where, Here
<1>2. QED  BY <1>1, StaysPut

\* Accept is a step of the journey.
LEMMA AcceptGoes ==
  ASSUME NEW s \in Slots, NEW p \in AuthPipes, IInv, Accept(s, p)
  PROVE  [Journey!Next]_place
<1>0. Types /\ Counted /\ Clean /\ Stamped /\ Mapped /\ OnTheWay /\ MovingIn
  BY DEF IInv
<1>1. PICK x \in Sessions : /\ x = <<s, stamp + 1>> /\ x[1] = s
                           /\ s \in free /\ dead[s] /\ x \notin issued
  <2> DEFINE z == <<s, stamp + 1>>
  <2>1. z \in Sessions /\ z[1] = s /\ z[2] = stamp + 1 /\ stamp \in Nat
    BY <1>0 DEF Types, Accept, Sessions
  <2>2. s \in free /\ dead[s]
    BY <1>0 DEF Accept, Clean, Counted
  <2>3. z \notin issued
    BY <1>0, <2>1 DEF Stamped
  <2>4. QED  BY <2>1, <2>2, <2>3
<1>2. /\ UNCHANGED <<user, userMap>> /\ issued' = issued \cup {x}
      /\ id'[s] = x /\ ~dead'[s]
      /\ \A r \in Slots : r # s => id'[r] = id[r] /\ dead'[r] = dead[r]
  BY <1>0, <1>1 DEF Types, Accept
<1>3. ASSUME NEW y \in Sessions, y[1] = s
      PROVE  Here(y) = {} /\ Here(y)' = {} /\ y \notin DOMAIN user
  <2>1. y \notin DOMAIN user
    BY <1>0, <1>1, <1>3, UsersCurrent DEF Current
  <2>2. QED  BY <1>0, <1>2, <2>1 DEF Here, Mapped, Filed
<1>4. Where(x) = "before" /\ Where(x)' = "joining"
  BY <1>1, <1>2, <1>3 DEF Where
<1>5. ASSUME NEW y \in Sessions, y # x
      PROVE  Where(y)' = Where(y)
  <2>1. CASE y[1] = s
    BY <1>1, <1>2, <1>3, <1>5, <2>1 DEF Where
  <2>2. CASE y[1] # s
    BY <1>1, <1>2, <1>5, <2>2, SlotIs DEF Where, Here
  <2>3. QED  BY <2>1, <2>2
<1>6. place[x] = "before" /\ Journey!Goes(x, "joining")
  BY <1>1, <1>4, <1>5, GoesTo, PlaceIs
<1>7. QED  BY <1>1, <1>6 DEF Journey!Next, Journey!Accept

\* A session that dies has its user in a pipe: what was a user before is one after.
LEMMA GiveBackStays ==
  ASSUME NEW t \in Threads, IInv, GiveBack(t)
  PROVE  place' = place
<1>0. Types /\ Counted /\ InHand /\ Settled
  BY DEF IInv
<1>1. PICK s \in Slots : s = at[t][1] /\ pc[t] \in Holding
  BY <1>0, SlotIs DEF InHand, GiveBack, Goto, Holding
<1>2. /\ UNCHANGED <<issued, id, user, userMap>> /\ dead'[s] = (refs[s] = 1)
      /\ \A r \in Slots : r # s => dead'[r] = dead[r]
  BY <1>0, <1>1 DEF Types, GiveBack
<1>3. dead'[s] # dead[s] => id[s] \in userMap[curPipe[s]] /\ curPipe[s] \in Pipes
  <2>1. SUFFICES ASSUME dead'[s] # dead[s]
        PROVE  ~dead[s] /\ ~moving[s]
    BY <1>0, <1>1 DEF Settled
  <2>2. ~dead[s]
    BY <1>0, <1>1, CountedOnce
  <2>3. refs[s] = 1
    BY <1>0, <1>1, <1>2, <2>1, <2>2 DEF Types
  <2>4. QED  BY <1>0, <1>1, <2>2, <2>3, CountedOnce
<1>4. ASSUME NEW y \in Sessions
      PROVE  Where(y)' = Where(y)
  <2>1. Here(y)' = Here(y)
    BY <1>2 DEF Here
  <2>2. CASE Here(y) # {} \/ id[y[1]] # y \/ dead'[y[1]] = dead[y[1]]
    BY <1>2, <2>1, <2>2 DEF Where
  <2>3. CASE y[1] = s /\ id[s] = y /\ dead'[s] # dead[s]
    BY <1>3, <2>1, <2>2, <2>3 DEF Here
  <2>4. QED  BY <1>2, <2>2, <2>3, SlotIs
<1>5. QED  BY <1>4, StaysPut

\* Join is a step of the journey.
LEMMA JoinGoes ==
  ASSUME NEW p \in Pipes, IInv, IInv', Join(p)
  PROVE  [Journey!Next]_place
<1>0. Types /\ Counted /\ Clean /\ Mapped /\ Joining /\ Mapped'
  BY DEF IInv
<1>1. PICK x \in Sessions : x = Head(joinQ[p]) /\ x \in Of(joinQ[p])
  <2>1. joinQ \in [Pipes -> Seq(Sessions)] /\ joinQ[p] # <<>>
    BY <1>0 DEF Types, Join, Begins, Queue
  <2>2. Head(joinQ[p]) \in Sessions /\ Head(joinQ[p]) \in Of(joinQ[p])
    BY <2>1, DequeueIs DEF Dequeued
  <2>3. QED  BY <2>2
<1>2. Joins(p, x) /\ x[1] \in Slots
  BY <1>0, <1>1, SlotIs DEF Joining
<1>3. /\ UNCHANGED <<issued, id, dead>> /\ DOMAIN user' = DOMAIN user \cup {x}
      /\ x \in userMap'[p]
      /\ \A r \in Pipes : \A y \in Sessions : y # x => (y \in userMap'[r] <=> y \in userMap[r])
  BY <1>0, <1>1 DEF Types, Join
<1>4. Where(x) = "joining"
  <2>1. Here(x) = {}
    BY <1>0, <1>2 DEF Here, Mapped, Filed, Joins
  <2>2. x \in issued /\ id[x[1]] = x /\ ~dead[x[1]]
    BY <1>0, <1>2, CountedOnce DEF Joins, Current, Clean
  <2>3. QED  BY <1>2, <2>1, <2>2 DEF Where, Joins
<1>5. Where(x)' = p
  BY <1>0, <1>1, <1>3, HereIs
<1>6. ASSUME NEW y \in Sessions, y # x
      PROVE  Where(y)' = Where(y)
  <2>1. Here(y)' = Here(y)
    BY <1>3, <1>6 DEF Here
  <2>2. QED  BY <1>3, <1>6, <2>1 DEF Where
<1>7. place[x] = "joining" /\ p \in AuthPipes /\ Journey!Goes(x, p)
  BY <1>1, <1>2, <1>4, <1>5, <1>6, GoesTo, PlaceIs DEF Joins
<1>8. QED  BY <1>1, <1>7 DEF Journey!Next, Journey!Join

\* MoveIn is a step of the journey.
LEMMA MoveInGoes ==
  ASSUME NEW p \in Pipes, IInv, IInv', MoveIn(p)
  PROVE  [Journey!Next]_place
<1>0. Types /\ Counted /\ Clean /\ MovingIn /\ Mapped'
  BY DEF IInv
<1>1. PICK x \in Sessions : x = Head(moveInQ[p]) /\ x \in Of(moveInQ[p])
  <2>1. moveInQ \in [Pipes -> Seq(Sessions)] /\ moveInQ[p] # <<>>
    BY <1>0 DEF Types, MoveIn, Begins, Queue
  <2>2. Head(moveInQ[p]) \in Sessions /\ Head(moveInQ[p]) \in Of(moveInQ[p])
    BY <2>1, DequeueIs DEF Dequeued
  <2>3. QED  BY <2>2
<1>2. MovesIn(p, x) /\ x[1] \in Slots
  BY <1>0, <1>1, SlotIs DEF MovingIn
<1>3. /\ UNCHANGED <<issued, id, dead>> /\ DOMAIN user' = DOMAIN user
      /\ x \in userMap'[p]
      /\ \A r \in Pipes : \A y \in Sessions : y # x => (y \in userMap'[r] <=> y \in userMap[r])
  BY <1>0, <1>1 DEF Types, MoveIn
<1>4. Where(x) = "moving"
  <2>1. Here(x) = {}
    BY <1>2 DEF Here, MovesIn
  <2>2. x \in issued /\ id[x[1]] = x /\ ~dead[x[1]]
    BY <1>0, <1>2, CountedOnce DEF MovesIn, Current, Clean
  <2>3. QED  BY <1>2, <2>1, <2>2 DEF Where, MovesIn
<1>5. Where(x)' = p
  BY <1>0, <1>1, <1>3, HereIs
<1>6. ASSUME NEW y \in Sessions, y # x
      PROVE  Where(y)' = Where(y)
  <2>1. Here(y)' = Here(y)
    BY <1>3, <1>6 DEF Here
  <2>2. QED  BY <1>3, <1>6, <2>1 DEF Where
<1>7. place[x] = "moving" /\ p \in GamePipes /\ Journey!Goes(x, p)
  BY <1>1, <1>2, <1>4, <1>5, <1>6, GoesTo, PlaceIs DEF MovesIn
<1>8. QED  BY <1>1, <1>7 DEF Journey!Next, Journey!MoveIn

\* MoveOut is a step of the journey.
LEMMA MoveOutGoes ==
  ASSUME NEW p \in Pipes, IInv, MoveOut(p)
  PROVE  [Journey!Next]_place
<1>0. Types /\ Counted /\ Clean /\ Mapped /\ MovingOut
  BY DEF IInv
<1>1. PICK x \in Sessions : x = Head(moveOutQ[p]) /\ x \in Of(moveOutQ[p])
  <2>1. moveOutQ \in [Pipes -> Seq(Sessions)] /\ moveOutQ[p] # <<>>
    BY <1>0 DEF Types, MoveOut, Begins, Queue
  <2>2. Head(moveOutQ[p]) \in Sessions /\ Head(moveOutQ[p]) \in Of(moveOutQ[p])
    BY <2>1, DequeueIs DEF Dequeued
  <2>3. QED  BY <2>2
<1>2. MovesOut(p, x) /\ x[1] \in Slots
  BY <1>0, <1>1, SlotIs DEF MovingOut
<1>3. /\ UNCHANGED <<issued, id, dead, user>> /\ x \notin userMap'[p]
      /\ \A r \in Pipes : \A y \in Sessions :
           y # x \/ r # p => (y \in userMap'[r] <=> y \in userMap[r])
  BY <1>0, <1>1 DEF Types, MoveOut
<1>4. Where(x) = p
  BY <1>0, <1>1, <1>2, HereIs DEF MovesOut
<1>5. Where(x)' = "moving"
  <2>1. Here(x)' = {}
    BY <1>0, <1>1, <1>2, <1>3, HereIs DEF Here, MovesOut
  <2>2. Filed(p, x)
    BY <1>0, <1>2 DEF MovesOut, Mapped
  <2>3. x \in issued /\ id[x[1]] = x /\ ~dead[x[1]] /\ x \in DOMAIN user
    BY <1>0, <1>2, <2>2, CountedOnce DEF MovesOut, Filed, Current, Clean
  <2>4. QED  BY <1>3, <2>1, <2>3 DEF Where
<1>6. ASSUME NEW y \in Sessions, y # x
      PROVE  Where(y)' = Where(y)
  <2>1. Here(y)' = Here(y)
    BY <1>3, <1>6 DEF Here
  <2>2. QED  BY <1>3, <2>1 DEF Where
<1>7. place[x] \in AuthPipes /\ Journey!Goes(x, "moving")
  BY <1>1, <1>2, <1>4, <1>5, <1>6, GoesTo, PlaceIs DEF MovesOut
<1>8. QED  BY <1>1, <1>7 DEF Journey!Next, Journey!MoveOut

\* Leave is a step of the journey, or of none.
LEMMA LeaveGoes ==
  ASSUME NEW p \in Pipes, IInv, Leave(p)
  PROVE  [Journey!Next]_place
<1>0. Types /\ Clean /\ Mapped /\ Leaving
  BY DEF IInv
<1>1. PICK x \in Sessions : x = Head(leaveQ[p]) /\ x \in Of(leaveQ[p])
  <2>1. leaveQ \in [Pipes -> Seq(Sessions)] /\ leaveQ[p] # <<>>
    BY <1>0 DEF Types, Leave, Begins, Queue
  <2>2. Head(leaveQ[p]) \in Sessions /\ Head(leaveQ[p]) \in Of(leaveQ[p])
    BY <2>1, DequeueIs DEF Dequeued
  <2>3. QED  BY <2>2
<1>2. Leaves(p, x) /\ x[1] \in Slots
  BY <1>0, <1>1, SlotIs DEF Leaving
<1>3. /\ UNCHANGED <<issued, id, dead>> /\ DOMAIN user' = DOMAIN user \ {x}
      /\ x \notin userMap'[p]
      /\ \A r \in Pipes : \A y \in Sessions :
           y # x \/ r # p => (y \in userMap'[r] <=> y \in userMap[r])
  BY <1>0, <1>1 DEF Types, Leave
<1>4. Where(x) = p
  BY <1>0, <1>1, <1>2, HereIs DEF Leaves
<1>5. Where(x)' = "after"
  <2>1. Here(x)' = {}
    BY <1>0, <1>1, <1>2, <1>3, HereIs DEF Here, Leaves
  <2>2. Filed(p, x)
    BY <1>0, <1>2 DEF Leaves, Mapped
  <2>3. x \in issued /\ dead[x[1]]
    BY <1>0, <1>2, <2>2 DEF Leaves, Filed, Current, Clean
  <2>4. QED  BY <1>3, <2>1, <2>3 DEF Where
<1>6. ASSUME NEW y \in Sessions, y # x
      PROVE  Where(y)' = Where(y)
  <2>1. Here(y)' = Here(y)
    BY <1>3, <1>6 DEF Here
  <2>2. QED  BY <1>3, <1>6, <2>1 DEF Where
<1>7. place[x] \in AuthPipes \cup GamePipes /\ Journey!Goes(x, "after")
  BY <1>1, <1>4, <1>5, <1>6, GoesTo, PlaceIs DEF Pipes
<1>8. QED  BY <1>1, <1>7 DEF Journey!Next, Journey!Leave

\* The initial states are initial states of the journey.
LEMMA JourneyInit == Init => Journey!Init
<1> SUFFICES ASSUME Init PROVE Journey!Init
  OBVIOUS
<1>1. \A x \in Sessions : Where(x) = "before"
  BY DEF Init, Where, Here
<1>2. QED  BY <1>1, PlaceIs DEF Journey!Init

\* Every step is a step of the journey, or of none.
LEMMA JourneyNext == IInv /\ IInv' /\ [Next]_vars => [Journey!Next]_place
<1> SUFFICES ASSUME IInv, IInv', [Next]_vars
             PROVE  [Journey!Next]_place
  OBVIOUS
<1>1. ASSUME NEW s \in Slots, NEW p \in AuthPipes, Accept(s, p)
      PROVE  [Journey!Next]_place
  BY <1>1, AcceptGoes
<1>2. CASE RequestEnter
  BY <1>2, SamePlaces DEF RequestEnter
<1>3. ASSUME NEW t \in Threads, RecvPost(t) \/ Letting(t)
      PROVE  [Journey!Next]_place
  <2>1. CASE RecvPost(t)
    BY <2>1, SamePlaces DEF RecvPost
  <2>2. CASE GiveBack(t)
    BY <2>2, GiveBackStays
  <2>3. CASE ReleaseSession(t)
    BY <2>3, SamePlaces DEF ReleaseSession
  <2>4. CASE DeleteSession(t)
    BY <2>4, SamePlaces DEF DeleteSession
  <2>5. QED  BY <1>3, <2>1, <2>2, <2>3, <2>4 DEF Letting
<1>4. ASSUME NEW w \in Workers, OnRecv(w) \/ OnRecvEnds(w) \/ \E s \in Slots : TakeReceive(w, s)
      PROVE  [Journey!Next]_place
  <2>1. UNCHANGED <<issued, id, dead, userMap, user>>
    BY <1>4 DEF OnRecv, OnRecvEnds, TakeReceive
  <2>2. QED  BY <2>1, SamePlaces
<1>5. ASSUME NEW p \in Pipes, Frame(p)
      PROVE  [Journey!Next]_place
  <2>1. CASE Join(p)
    BY <2>1, JoinGoes
  <2>2. CASE MoveIn(p)
    BY <2>2, MoveInGoes
  <2>3. CASE MoveOut(p)
    BY <2>3, MoveOutGoes
  <2>4. CASE Leave(p)
    BY <2>4, LeaveGoes
  <2>5. CASE NextPhase(p) \/ AfterPipeEnter(p) \/ Disconnect(p) \/ MoveRefused(p)
    <3>1. UNCHANGED <<issued, id, dead, userMap, user>>
      BY <2>5 DEF NextPhase, AfterPipeEnter, Disconnect, MoveRefused
    <3>2. QED  BY <3>1, SamePlaces
  <2>6. CASE FindSession(p, "cancel")
    BY <2>6, SamePlaces DEF FindSession
  <2>7. ASSUME NEW x \in visit[p], DequeueJob(p, x) \/ NextUser(p, x)
        PROVE  [Journey!Next]_place
    BY <2>7, SamePlaces DEF DequeueJob, NextUser
  <2>8. CASE MoveEnd(p)
    BY <2>8, SamePlaces DEF MoveEnd
  <2>9. ASSUME NEW d \in GamePipes, MovePipe(p, d)
        PROVE  [Journey!Next]_place
    <3>1. UNCHANGED <<issued, id, dead, userMap>> /\ DOMAIN user' = DOMAIN user
      BY <2>9 DEF MovePipe
    <3>2. QED  BY <3>1, SamePlaces
  <2>10. QED
    BY <1>5, <2>1, <2>2, <2>3, <2>4, <2>5, <2>6, <2>7, <2>8, <2>9 DEF Frame
<1>6. ASSUME NEW p \in Pipes, Message(p)
      PROVE  [Journey!Next]_place
  <2>1. UNCHANGED <<issued, id, dead, userMap, user>>
    BY <1>6 DEF Message, FindSession, Refuse, SetDone
  <2>2. QED  BY <2>1, SamePlaces
<1>7. CASE UNCHANGED vars
  BY <1>7, SamePlaces DEF vars
<1>8. QED  BY <1>1, <1>2, <1>3, <1>4, <1>5, <1>6, <1>7 DEF Next

\* What the queues between the threads do to a user is a journey: it is in one pipe at a
\* time, moves only from an authentication pipe to a game pipe, and goes nowhere else.
THEOREM JourneyTheorem == Spec => ImplementsJourney
<1>1. QED
  BY InvHolds, JourneyInit, JourneyNext, PTL DEF Spec, ImplementsJourney, Journey!Spec
=============================================================================
