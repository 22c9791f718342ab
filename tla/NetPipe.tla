------------------------------- MODULE NetPipe -------------------------------
(***************************************************************************)
(* The pipes of NetPipe.cpp and the moves of users between them.           *)
(*                                                                         *)
(* A pipe is a thread with its own users.  Other threads only put requests *)
(* into its four queues; every frame it joins, moves in, moves out, lets   *)
(* leave, and then handles the messages of its users.  A move spans two    *)
(* pipe threads and is kept alive by one reference to the session, which   *)
(* is given back when the user has entered.                                *)
(*                                                                         *)
(* Modelled as the game server uses it: a session joins an authentication  *)
(* pipe when it is accepted and its user moves on, once, to some game      *)
(* pipe.  A session is one counted object here, found and given back in    *)
(* one step each: that is SessionLease, which NetSession implements.       *)
(* Messages are abstracted to what they make the handler do.               *)
(***************************************************************************)
EXTENDS Integers, Sequences, FiniteSets

CONSTANTS
  Slots,      \* indices of sessionArray_
  AuthPipes, GamePipes,
  Workers,    \* threads in MyWorkerProc
  Acceptor,   \* the thread in MyAcceptProc
  MaxStamp,   \* bound: sessions accepted in a behaviour
  MaxJobs,    \* bound: packet sets waiting in one jobQ_
  None        \* nullptr

Pipes    == AuthPipes \cup GamePipes
Threads  == Pipes \cup Workers \cup {Acceptor}
Sessions == Slots \X (1..MaxStamp)

\* A pipe is of one kind and a thread of its own, and all are finitely many.
ASSUME PipeAssumption ==
  /\ AuthPipes \cap GamePipes = {} /\ Pipes \cap Workers = {} /\ Acceptor \notin Pipes
  /\ IsFiniteSet(Slots) /\ IsFiniteSet(Threads)
  /\ MaxStamp \in Nat /\ MaxJobs \in Nat
  /\ None \notin Pipes \cup Sessions

VARIABLES
  free,      \* slots in sessionIndexStack_
  stamp,     \* sessions accepted so far
  issued,    \* history: those sessions
  id,        \* ID_ of each slot; None before the first session
  refs,      \* IOcount_ of each slot
  dead,      \* its delete flag
  canceled,  \* isIOCanceled_
  recv,      \* a receive is outstanding
  curPipe, destPipe, moving,   \* of the session: curPipe_, destPipe_, isMoving_
  jobQ,      \* jobQ_: the sessions whose packet sets wait
  user,      \* the NetUser objects: their curPipe_ and isMoving_
  userMap,   \* userMap_ of each pipe
  joinQ, moveInQ, moveOutQ, leaveQ,
  phase,     \* what a pipe thread is at in its frame
  visit,     \* users whose messages it has still to handle in this frame
  pc,        \* where each thread is
  at,        \* with which session
  then       \* where it goes on after giving a reference back

countVars   == <<refs, dead>>
sessionVars == <<id, canceled, recv>>
moveVars    == <<curPipe, destPipe, moving>>
arrayVars   == <<free, stamp, issued>>
userVars    == <<user, userMap>>
queueVars   == <<joinQ, moveInQ, moveOutQ, leaveQ>>
frameVars   == <<phase, visit>>
threadVars  == <<pc, at, then>>
vars == <<arrayVars, countVars, sessionVars, moveVars, jobQ, userVars, queueVars,
          frameVars, threadVars>>

-----------------------------------------------------------------------------
Phases == {"join", "moveIn", "moveOut", "leave", "msgs"}
PCs == {"loop", "request", "recvPost", "entered", "moveEnd", "msg", "found",
        "failed", "cancel", "onRecv", "back", "release", "destroy", "crashed"}

TypeOK ==
  /\ free \subseteq Slots /\ stamp \in 0..MaxStamp /\ issued \subseteq Sessions
  /\ id \in [Slots -> Sessions \cup {None}]
  /\ refs \in [Slots -> Nat]
  /\ \A f \in {dead, canceled, recv, moving} : f \in [Slots -> BOOLEAN]
  /\ \A f \in {curPipe, destPipe} : f \in [Slots -> Pipes \cup {None}]
  /\ jobQ \in [Slots -> Seq(Sessions)]
  /\ user \in [DOMAIN user -> [pipe : Pipes, moving : BOOLEAN]] /\ DOMAIN user \subseteq Sessions
  /\ \A f \in {userMap, visit} : f \in [Pipes -> SUBSET Sessions]
  /\ \A q \in {joinQ, moveInQ, moveOutQ, leaveQ} : q \in [Pipes -> Seq(Sessions)]
  /\ phase \in [Pipes -> Phases]
  /\ pc \in [Threads -> PCs] /\ at \in [Threads -> Sessions \cup {None}]
  /\ then \in [Threads -> {"loop", "msg", "moveEnd"}]

Init ==
  /\ free = Slots /\ stamp = 0 /\ issued = {}
  /\ id = [s \in Slots |-> None]
  /\ refs = [s \in Slots |-> 0]
  /\ dead = [s \in Slots |-> TRUE]
  /\ canceled = [s \in Slots |-> FALSE] /\ recv = [s \in Slots |-> FALSE]
  /\ curPipe = [s \in Slots |-> None] /\ destPipe = [s \in Slots |-> None]
  /\ moving = [s \in Slots |-> FALSE]
  /\ jobQ = [s \in Slots |-> <<>>]
  /\ user = <<>> /\ userMap = [p \in Pipes |-> {}]
  /\ joinQ = [p \in Pipes |-> <<>>] /\ leaveQ = [p \in Pipes |-> <<>>]
  /\ moveInQ = [p \in Pipes |-> <<>>] /\ moveOutQ = [p \in Pipes |-> <<>>]
  /\ phase = [p \in Pipes |-> "join"] /\ visit = [p \in Pipes |-> {}]
  /\ pc = [t \in Threads |-> "loop"] /\ at = [t \in Threads |-> None]
  /\ then = [t \in Threads |-> "loop"]

Goto(t, from, to) ==
  /\ pc[t] = from
  /\ pc' = [pc EXCEPT ![t] = to]

\* The thread takes x in hand, and knows where to go on once it is done with it.
Take(t, from, to, x, next) ==
  /\ Goto(t, from, to)
  /\ at' = [at EXCEPT ![t] = x]
  /\ then' = [then EXCEPT ![t] = next]

Enqueue(q, p, x) == [q EXCEPT ![p] = Append(@, x)]
Dequeue(q, p)    == [q EXCEPT ![p] = Tail(@)]

-----------------------------------------------------------------------------
(***************************************************************************)
(* Accepting a session and sending it to an authentication pipe.           *)
(***************************************************************************)
\* AllocSession, and MovePipe(ID) up to RequestEnter: the session is not known
\* to anyone else yet.  The sizes FindPipe_LoadBalanced compares are read while
\* the pipes run: any pipe of the code may come out.
Accept(s, p) ==
  LET x == <<s, stamp + 1>>
  IN  /\ s \in free /\ stamp < MaxStamp
      /\ Take(Acceptor, "loop", "request", x, "loop")
      /\ free' = free \ {s} /\ stamp' = stamp + 1 /\ issued' = issued \cup {x}
      /\ id' = [id EXCEPT ![s] = x]
      /\ refs' = [refs EXCEPT ![s] = 2]
      /\ dead' = [dead EXCEPT ![s] = FALSE]
      /\ canceled' = [canceled EXCEPT ![s] = FALSE]
      /\ moving' = [moving EXCEPT ![s] = TRUE]
      /\ destPipe' = [destPipe EXCEPT ![s] = p]
      /\ UNCHANGED <<recv, curPipe, jobQ, userVars, queueVars, frameVars>>

RequestEnter ==
  LET x == at[Acceptor]
  IN  /\ Goto(Acceptor, "request", "recvPost")
      /\ joinQ' = Enqueue(joinQ, destPipe[x[1]], x)
      /\ UNCHANGED <<arrayVars, countVars, sessionVars, moveVars, jobQ, userVars,
                     moveInQ, moveOutQ, leaveQ, frameVars, at, then>>

-----------------------------------------------------------------------------
(***************************************************************************)
(* The workers: receiving for a session, and losing it.                    *)
(***************************************************************************)
TakeReceive(w, s) ==
  /\ recv[s]
  /\ Take(w, "loop", "onRecv", id[s], "loop")
  /\ recv' = [recv EXCEPT ![s] = FALSE]
  /\ UNCHANGED <<arrayVars, countVars, id, canceled, moveVars, jobQ, userVars, queueVars,
                 frameVars>>

\* EnqueueJob finds the queue by the slot of the set's session.
OnRecv(w) ==
  LET x == at[w] IN
  /\ Goto(w, "onRecv", "recvPost")
  /\ ~canceled[x[1]]
  /\ Len(jobQ[x[1]]) < MaxJobs
  /\ jobQ' = Enqueue(jobQ, x[1], x)
  /\ UNCHANGED <<arrayVars, countVars, sessionVars, moveVars, userVars, queueVars, frameVars,
                 at, then>>

\* The client is gone, the receive was canceled, or the bytes do not parse.
OnRecvEnds(w) ==
  /\ Goto(w, "onRecv", "back")
  /\ canceled' = [canceled EXCEPT ![at[w][1]] = TRUE]
  /\ UNCHANGED <<arrayVars, countVars, id, recv, moveVars, jobQ, userVars, queueVars,
                 frameVars, at, then>>

RecvPost(t) ==
  LET s == at[t][1]
  IN  /\ Goto(t, "recvPost", "back")
      /\ refs' = [refs EXCEPT ![s] = @ + 1]
      /\ recv' = [recv EXCEPT ![s] = TRUE]
      /\ UNCHANGED <<arrayVars, dead, id, canceled, moveVars, jobQ, userVars, queueVars,
                     frameVars, at, then>>

-----------------------------------------------------------------------------
(***************************************************************************)
(* Giving a reference back, and what the last one does.                    *)
(***************************************************************************)
GiveBack(t) ==
  LET s == at[t][1]
  IN  /\ Goto(t, "back", IF refs[s] = 1 THEN "release" ELSE then[t])
      /\ refs' = [refs EXCEPT ![s] = @ - 1]
      /\ dead' = [dead EXCEPT ![s] = (refs[s] = 1)]
      /\ UNCHANGED <<arrayVars, sessionVars, moveVars, jobQ, userVars, queueVars, frameVars,
                     at, then>>

\* Mutant: the slot is destroyed by whoever released it.
ReleaseAtOnce(t) ==
  /\ Goto(t, "release", "destroy")
  /\ UNCHANGED <<arrayVars, countVars, sessionVars, moveVars, jobQ, userVars, queueVars,
                 frameVars, at, then>>

\* ReleaseSession: a session in a pipe is left to the pipe.
ReleaseSession(t) ==
  LET x == at[t]
      p == curPipe[x[1]]
  IN  /\ Goto(t, "release", IF p = None THEN "destroy" ELSE then[t])
      /\ leaveQ' = IF p = None THEN leaveQ ELSE Enqueue(leaveQ, p, x)
      /\ UNCHANGED <<arrayVars, countVars, sessionVars, moveVars, jobQ, userVars, joinQ,
                     moveInQ, moveOutQ, frameVars, at, then>>

\* Mutant: the jobs of the last session stay in the queue.
DestroyKeepsJobs(t) ==
  LET s == at[t][1]
  IN  /\ Goto(t, "destroy", then[t])
      /\ curPipe' = [curPipe EXCEPT ![s] = None]
      /\ destPipe' = [destPipe EXCEPT ![s] = None]
      /\ moving' = [moving EXCEPT ![s] = FALSE]
      /\ free' = free \cup {s}
      /\ UNCHANGED <<stamp, issued, countVars, sessionVars, jobQ, userVars, queueVars, frameVars, at, then>>

\* DeleteSession: Destroy and PushSessionIndex.
DeleteSession(t) ==
  LET s == at[t][1]
  IN  /\ Goto(t, "destroy", then[t])
      /\ curPipe' = [curPipe EXCEPT ![s] = None]
      /\ destPipe' = [destPipe EXCEPT ![s] = None]
      /\ moving' = [moving EXCEPT ![s] = FALSE]
      /\ jobQ' = [jobQ EXCEPT ![s] = <<>>]
      /\ free' = free \cup {s}
      /\ UNCHANGED <<stamp, issued, countVars, sessionVars, userVars, queueVars, frameVars, at, then>>

-----------------------------------------------------------------------------
(***************************************************************************)
(* The frame of a pipe: Join, Move, Leave.                                 *)
(***************************************************************************)
Queue(p) == [join |-> joinQ[p], moveIn |-> moveInQ[p],
             moveOut |-> moveOutQ[p], leave |-> leaveQ[p], msgs |-> <<>>][phase[p]]
After(ph) == [join |-> "moveIn", moveIn |-> "moveOut", moveOut |-> "leave",
              leave |-> "msgs", msgs |-> "join"][ph]

\* A queue is drained before the next one is looked at.
NextPhase(p) ==
  /\ pc[p] = "loop" /\ Queue(p) = <<>> /\ visit[p] = {}
  /\ phase' = [phase EXCEPT ![p] = After(@)]
  /\ visit' = [visit EXCEPT ![p] = IF phase[p] = "leave" THEN userMap[p] ELSE {}]
  /\ UNCHANGED <<arrayVars, countVars, sessionVars, moveVars, jobQ, userVars, queueVars,
                 threadVars>>

\* What the pipe finds at the head of the queue of this phase.
Begins(p, ph) == phase[p] = ph /\ Queue(p) # <<>>

Join(p) ==
  LET x == Head(joinQ[p]) IN
  /\ Begins(p, "join")
  /\ Take(p, "loop", IF x \in userMap[p] THEN "crashed" ELSE "entered", x, "loop")
  /\ joinQ' = Dequeue(joinQ, p)
  /\ user' = [y \in DOMAIN user \cup {x} |->
               IF y = x THEN [pipe |-> p, moving |-> FALSE] ELSE user[y]]
  /\ userMap' = [userMap EXCEPT ![p] = @ \cup {x}]
  /\ UNCHANGED <<arrayVars, countVars, sessionVars, moveVars, jobQ, moveInQ, moveOutQ,
                 leaveQ, frameVars>>

\* A user that is in the map already, or comes to an authentication pipe, is fatal.
MoveIn(p) ==
  LET x == Head(moveInQ[p]) IN
  /\ Begins(p, "moveIn")
  /\ Take(p, "loop", IF x \in userMap[p] \/ p \in AuthPipes
                     THEN "crashed" ELSE "entered", x, "moveEnd")
  /\ moveInQ' = Dequeue(moveInQ, p)
  /\ user' = [y \in DOMAIN user |-> IF y = x THEN [user[y] EXCEPT !.pipe = p] ELSE user[y]]
  /\ userMap' = [userMap EXCEPT ![p] = @ \cup {x}]
  /\ UNCHANGED <<arrayVars, countVars, sessionVars, moveVars, jobQ, joinQ, moveOutQ,
                 leaveQ, frameVars>>

\* Mutant: curPipe_ is set when the user joins only.
AfterPipeEnterKeeps(p) ==
  LET s == at[p][1]
  IN  /\ Goto(p, "entered", IF destPipe[s] = p THEN "back" ELSE "crashed")
      /\ curPipe' = [curPipe EXCEPT ![s] = IF @ = None THEN destPipe[s] ELSE @]
      /\ destPipe' = [destPipe EXCEPT ![s] = None]
      /\ moving' = [moving EXCEPT ![s] = FALSE]
      /\ UNCHANGED <<arrayVars, countVars, sessionVars, jobQ, userVars, queueVars, frameVars,
                     at, then>>

\* Mutant: PipeMoveEnd of the session is forgotten.
AfterPipeEnterMoving(p) ==
  LET s == at[p][1]
  IN  /\ Goto(p, "entered", IF destPipe[s] = p THEN "back" ELSE "crashed")
      /\ curPipe' = [curPipe EXCEPT ![s] = destPipe[s]]
      /\ destPipe' = [destPipe EXCEPT ![s] = None]
      /\ UNCHANGED <<arrayVars, countVars, sessionVars, moving, jobQ, userVars, queueVars,
                     frameVars, at, then>>

AfterPipeEnter(p) ==
  LET s == at[p][1]
  IN  /\ Goto(p, "entered", IF destPipe[s] = p THEN "back" ELSE "crashed")
      /\ curPipe' = [curPipe EXCEPT ![s] = destPipe[s]]
      /\ destPipe' = [destPipe EXCEPT ![s] = None]
      /\ moving' = [moving EXCEPT ![s] = FALSE]
      /\ UNCHANGED <<arrayVars, countVars, sessionVars, jobQ, userVars, queueVars, frameVars,
                     at, then>>

\* PipeMoveEnd of the user comes last, when the reference is gone already.
MoveEnd(p) ==
  /\ Goto(p, "moveEnd", "loop")
  /\ user' = [y \in DOMAIN user |->
                IF y = at[p] THEN [user[y] EXCEPT !.moving = FALSE] ELSE user[y]]
  /\ UNCHANGED <<arrayVars, countVars, sessionVars, moveVars, jobQ, userMap, queueVars,
                 frameVars, at, then>>

\* Mutant: the user stays in the map it moves out of.
MoveOutKeeps(p) ==
  LET x == Head(moveOutQ[p])
      d == destPipe[x[1]]
  IN
  /\ Begins(p, "moveOut")
  /\ Goto(p, "loop", IF x \notin userMap[p] \/ p \in GamePipes \/ d = None
                     THEN "crashed" ELSE "loop")
  /\ moveOutQ' = Dequeue(moveOutQ, p)
  /\ moveInQ' = IF d = None THEN moveInQ ELSE Enqueue(moveInQ, d, x)
  /\ UNCHANGED <<arrayVars, countVars, sessionVars, moveVars, jobQ, userVars, joinQ, leaveQ,
                 frameVars, at, then>>

\* MoveOut and AfterPipeMoveOut, which looks the destination up in the session.
MoveOut(p) ==
  LET x == Head(moveOutQ[p])
      d == destPipe[x[1]]
  IN
  /\ Begins(p, "moveOut")
  /\ Goto(p, "loop", IF x \notin userMap[p] \/ p \in GamePipes \/ d = None
                     THEN "crashed" ELSE "loop")
  /\ moveOutQ' = Dequeue(moveOutQ, p)
  /\ userMap' = [userMap EXCEPT ![p] = @ \ {x}]
  /\ moveInQ' = IF d = None THEN moveInQ ELSE Enqueue(moveInQ, d, x)
  /\ UNCHANGED <<arrayVars, countVars, sessionVars, moveVars, jobQ, user, joinQ, leaveQ,
                 frameVars, at, then>>

\* OnUserLeave frees the user; DeletePipeUser destroys the session.
Leave(p) ==
  LET x == Head(leaveQ[p]) IN
  /\ Begins(p, "leave")
  /\ Take(p, "loop", IF x \in userMap[p] THEN "destroy" ELSE "crashed", x, "loop")
  /\ leaveQ' = Dequeue(leaveQ, p)
  /\ userMap' = [userMap EXCEPT ![p] = @ \ {x}]
  /\ user' = [y \in DOMAIN user \ {x} |-> user[y]]
  /\ UNCHANGED <<arrayVars, countVars, sessionVars, moveVars, jobQ, joinQ, moveInQ,
                 moveOutQ, frameVars>>

-----------------------------------------------------------------------------
(***************************************************************************)
(* The messages of a frame.  What a handler does is up to the client.      *)
(***************************************************************************)
\* The next packet set of a user; one of another session is fatal.
DequeueJob(p, x) ==
  LET q == jobQ[x[1]] IN
  /\ x \in visit[p] /\ ~user[x].moving /\ q # <<>>
  /\ Take(p, "loop", IF Head(q) = x THEN "msg" ELSE "crashed", x, "msg")
  /\ jobQ' = Dequeue(jobQ, x[1])
  /\ UNCHANGED <<arrayVars, countVars, sessionVars, moveVars, userVars, queueVars, frameVars>>

\* The pipe goes to the next user once the queue is empty or the user moves.
NextUser(p, x) ==
  /\ pc[p] = "loop" /\ x \in visit[p]
  /\ user[x].moving \/ jobQ[x[1]] = <<>>
  /\ visit' = [visit EXCEPT ![p] = @ \ {x}]
  /\ UNCHANGED <<arrayVars, countVars, sessionVars, moveVars, jobQ, userVars, queueVars,
                 phase, threadVars>>

\* Every packet of the set was handled.
SetDone(p) ==
  /\ Goto(p, "msg", "loop")
  /\ UNCHANGED <<arrayVars, countVars, sessionVars, moveVars, jobQ, userVars, queueVars,
                 frameVars, at, then>>

\* FindSession, for MovePipe and for the Disconnect of a user whose packet failed;
\* after a failure the rest of the user's messages wait for the next frame.
FindSession(p, to) ==
  LET s == at[p][1]
      found == ~dead[s] /\ id[s] = at[p]
  IN  /\ \/ to = "found" /\ p \in AuthPipes /\ Goto(p, "msg", IF found THEN to ELSE "msg")
            /\ UNCHANGED then
         \/ to = "cancel" /\ Goto(p, "failed", IF found THEN to ELSE "loop")
            /\ then' = [then EXCEPT ![p] = "loop"]
      /\ refs' = IF found THEN [refs EXCEPT ![s] = @ + 1] ELSE refs
      /\ UNCHANGED <<arrayVars, dead, sessionVars, moveVars, jobQ, userVars, queueVars,
                     frameVars, at>>

\* A user on the move already, or in a pipe of this code, does not move.
MoveRefused(p) ==
  LET u == user[at[p]]
  IN  /\ Goto(p, "found", "back")
      /\ u.moving \/ u.pipe \in GamePipes
      /\ UNCHANGED <<arrayVars, countVars, sessionVars, moveVars, jobQ, userVars, queueVars,
                     frameVars, at, then>>

\* Mutant: the reference is given back when the move has been requested.
MovePipeGivesBack(p, d) ==
  LET x == at[p]
      s == x[1]
  IN  /\ Goto(p, "found", "back")
      /\ ~user[x].moving /\ user[x].pipe \notin GamePipes
      /\ moving' = [moving EXCEPT ![s] = TRUE]
      /\ user' = [user EXCEPT ![x].moving = TRUE]
      /\ jobQ' = [jobQ EXCEPT ![s] = <<>>]
      /\ destPipe' = [destPipe EXCEPT ![s] = d]
      /\ moveOutQ' = Enqueue(moveOutQ, curPipe[s], x)
      /\ UNCHANGED <<arrayVars, countVars, sessionVars, curPipe, userMap, joinQ, moveInQ,
                     leaveQ, frameVars, at, then>>

\* MovePipe(user): what the client sent before is dropped; the reference found
\* goes with the user.
MovePipe(p, d) ==
  LET x == at[p]
      s == x[1]
  IN  /\ Goto(p, "found", "msg")
      /\ ~user[x].moving /\ user[x].pipe \notin GamePipes
      /\ moving' = [moving EXCEPT ![s] = TRUE]
      /\ user' = [user EXCEPT ![x].moving = TRUE]
      /\ jobQ' = [jobQ EXCEPT ![s] = <<>>]
      /\ destPipe' = [destPipe EXCEPT ![s] = d]
      /\ moveOutQ' = Enqueue(moveOutQ, curPipe[s], x)
      /\ UNCHANGED <<arrayVars, countVars, sessionVars, curPipe, userMap, joinQ, moveInQ,
                     leaveQ, frameVars, at, then>>

\* A packet is refused: the user's other messages are left for the next frame.
Refuse(p) ==
  /\ Goto(p, "msg", "failed")
  /\ visit' = [visit EXCEPT ![p] = @ \ {at[p]}]
  /\ UNCHANGED <<arrayVars, countVars, sessionVars, moveVars, jobQ, userVars, queueVars,
                 phase, at, then>>

\* Disconnect: a session canceled before is left alone.
Disconnect(p) ==
  /\ Goto(p, "cancel", "back")
  /\ canceled' = [canceled EXCEPT ![at[p][1]] = TRUE]
  /\ UNCHANGED <<arrayVars, countVars, id, recv, moveVars, jobQ, userVars, queueVars,
                 frameVars, at, then>>

-----------------------------------------------------------------------------
Frame(p) ==
  \/ NextPhase(p) \/ Join(p) \/ MoveIn(p) \/ AfterPipeEnter(p) \/ MoveEnd(p)
  \/ MoveOut(p) \/ Leave(p)
  \/ \E x \in visit[p] : DequeueJob(p, x) \/ NextUser(p, x)
  \/ FindSession(p, "cancel") \/ Disconnect(p)
  \/ MoveRefused(p) \/ \E d \in GamePipes : MovePipe(p, d)

Message(p) == FindSession(p, "found") \/ Refuse(p) \/ SetDone(p)

Letting(t) == GiveBack(t) \/ ReleaseSession(t) \/ DeleteSession(t)

Next ==
  \/ \E s \in Slots, p \in AuthPipes : Accept(s, p)
  \/ RequestEnter
  \/ \E t \in Threads : RecvPost(t) \/ Letting(t)
  \/ \E w \in Workers : OnRecv(w) \/ OnRecvEnds(w) \/ \E s \in Slots : TakeReceive(w, s)
  \/ \E p \in Pipes : Frame(p) \/ Message(p)

Spec == Init /\ [][Next]_vars

\* Threads run on, and a canceled receive completes.  A packet set ends; and a
\* client does not fill its queue as fast as the pipe drains it, for the pipe
\* stays with a user until the queue is empty.
Fairness ==
  /\ \A p \in Pipes : WF_vars(Frame(p)) /\ SF_vars(SetDone(p))
  /\ \A p \in Pipes, x \in Sessions : SF_vars(NextUser(p, x))
  /\ \A t \in Threads : WF_vars(RecvPost(t) \/ Letting(t))
  /\ WF_vars(RequestEnter)
  /\ \A w \in Workers : WF_vars(OnRecvEnds(w) \/ OnRecv(w))
  /\ \A s \in Slots : SF_vars(canceled[s] /\ \E w \in Workers : TakeReceive(w, s))

FairSpec == Spec /\ Fairness

-----------------------------------------------------------------------------
(***************************************************************************)
(* What the pipes have to achieve.                                         *)
(***************************************************************************)
\* None of the ErrorQuit and Crash calls of NetPipe.cpp:127-217 and of
\* AfterPipeEnter is reached, nor those of the pipes' OnUserMoveIn and OnUserMoveOut.
NeverErrorQuit == \A t \in Threads : pc[t] # "crashed"

In(q) == UNION {{q[p][i] : i \in DOMAIN q[p]} : p \in Pipes}
Times(q, x) == Cardinality({o \in Pipes \X (1..Cardinality(Sessions)) :
                              o[2] \in DOMAIN q[o[1]] /\ q[o[1]][o[2]] = x})

\* A NetUser lives exactly as long as it is in one map or on the way to one; no
\* queue holds the pointer of a user that was freed.
OnePlace ==
  /\ \A x \in Sessions : Cardinality({p \in Pipes : x \in userMap[p]}) + Times(moveInQ, x)
                          = IF x \in DOMAIN user THEN 1 ELSE 0
  /\ In(moveOutQ) \subseteq DOMAIN user
  /\ \A p \in Pipes : /\ pc[p] \in {"entered", "moveEnd", "msg", "found"} => at[p] \in userMap[p]
                       /\ visit[p] \subseteq userMap[p]

\* A session is told to leave once, by the pipe that has its user, and after
\* every move of it has ended.
LeavesFromItsPipe ==
  \A p \in Pipes : \A i \in DOMAIN leaveQ[p] :
    LET x == leaveQ[p][i] IN
    /\ x \in userMap[p] /\ Times(leaveQ, x) = 1
    /\ dead[x[1]] /\ id[x[1]] = x
    /\ x \notin In(joinQ) \cup In(moveInQ) \cup In(moveOutQ)

\* Nothing of a session is left anywhere when its slot can be reused.
RecycledIsForgotten ==
  \A s \in free :
    /\ jobQ[s] = <<>> /\ ~moving[s] /\ curPipe[s] = None
    /\ \A x \in In(joinQ) \cup In(moveInQ) \cup In(moveOutQ) \cup In(leaveQ)
                \cup UNION {userMap[p] : p \in Pipes} : x[1] # s

\* A move that was requested ends in the other pipe, or with the session.
MovesArrive == \A s \in Slots : moving[s] ~> ~moving[s]

\* A client that is cut off leaves, wherever its user is.
CanceledLeaves == \A x \in Sessions :
  (id[x[1]] = x /\ canceled[x[1]]) ~> x \notin DOMAIN user

\* What content sees of it is a UserJourney.
place == [x \in Sessions |->
  LET here == {p \in Pipes : x \in userMap[p]} IN
  IF here # {} THEN CHOOSE p \in here : TRUE
  ELSE IF x \notin issued THEN "before"
  ELSE IF id[x[1]] # x \/ dead[x[1]] THEN "after"
  ELSE IF x \in DOMAIN user THEN "moving" ELSE "joining"]

Journey == INSTANCE UserJourney
             WITH Users <- Sessions, First <- AuthPipes, Second <- GamePipes

\* NetPipe implements UserJourney.
ImplementsJourney == Journey!Spec
=============================================================================
