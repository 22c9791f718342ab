------------------------------ MODULE JobQueue ------------------------------
(***************************************************************************)
(* The job queue of a session slot: QueueWithoutCount of Queue.h, a ring   *)
(* without a count, and NetSession::ClearJobQ.                             *)
(*                                                                         *)
(* One worker at a time enqueues the packet sets a session receives (its   *)
(* receive is posted again only afterwards); the pipe the user is in       *)
(* dequeues them.  front_ is written by the pipe, rear_ by the worker, so  *)
(* the two need no lock.  ClearJobQ breaks that rule: the pipe resets both *)
(* indices, when it moves the user while the client may go on sending, and *)
(* when it destroys the session, when nobody sends any more.               *)
(*                                                                         *)
(* Every access to an index or a slot of the ring is a step.  Packet sets  *)
(* are numbered in the order they are received.                            *)
(***************************************************************************)
EXTENDS Integers, Sequences, FiniteSets

CONSTANTS
  Size,         \* QUEUE_MAX_SIZE, a power of two
  Moves,        \* bound: how often MovePipe is called for a session
  MaxSets,      \* bound: packet sets received in a behaviour
  MaxSessions   \* bound: sessions that use the slot in a behaviour

ASSUME SizeAssumption == Size \in Nat \ {0, 1}
ASSUME BoundsAssumption == Moves \in Nat /\ MaxSets \in Nat /\ MaxSessions \in Nat \ {0}

NULL == 0

VARIABLES
  arr, front, rear,  \* arr_, front_, rear_
  worker,    \* where Enqueue is
  seen,      \* its localFront, and rear_ as it read it last
  set,       \* the set it enqueues: the number of sets received so far
  pipe,      \* where Dequeue or ClearJobQ is
  why,       \* on behalf of what: "job", "move" or "destroy"
  taken,     \* *buf of Dequeue
  session,   \* the session that has the slot
  moved,     \* how often it was moved
  moves,     \* how often it is: in some behaviours never
  owner,     \* history: the session of each set
  handled,   \* history: the sets given to the packet handler, in order
  freed      \* history: the sets freed without being handled

ringVars    == <<arr, front, rear>>
workerVars  == <<worker, seen, set, owner>>
pipeVars    == <<pipe, why, taken>>
sessionVars == <<session, moved, moves>>
endVars     == <<handled, freed>>
vars == <<ringVars, workerVars, pipeVars, sessionVars, endVars>>

Indices == 0..(Size - 1)
Sets    == 1..MaxSets
After(i) == (i + 1) % Size

TypeOK ==
  /\ arr \in [Indices -> Sets \cup {NULL}] /\ front \in Indices /\ rear \in Indices
  /\ worker \in {"idle", "full1", "full2", "store", "read", "write", "crashed"}
  /\ seen \in [front : Indices, rear : Indices]
  /\ set \in 0..MaxSets /\ owner \in [1..set -> 1..MaxSessions]
  /\ pipe \in {"idle", "empty", "take", "null", "advance", "use", "reset1", "reset2", "crashed"}
  /\ why \in {"job", "move", "destroy"} /\ taken \in Sets \cup {NULL}
  /\ session \in 1..MaxSessions /\ moves \in 0..Moves /\ moved \in 0..moves
  /\ handled \in Seq(Sets) /\ freed \subseteq Sets

Init ==
  /\ arr = [i \in Indices |-> NULL] /\ front = 0 /\ rear = 0
  /\ worker = "idle" /\ seen = [front |-> 0, rear |-> 0] /\ set = 0 /\ owner = <<>>
  /\ pipe = "idle" /\ why = "job" /\ taken = NULL
  /\ session = 1 /\ moved = 0 /\ moves \in 0..Moves
  /\ handled = <<>> /\ freed = {}

-----------------------------------------------------------------------------
(***************************************************************************)
(* The worker: Enqueue.                                                    *)
(***************************************************************************)
Worker(from, to) ==
  /\ worker = from /\ worker' = to
  /\ UNCHANGED <<pipeVars, sessionVars, endVars>>

Receive ==
  /\ set < MaxSets
  /\ why # "destroy"
  /\ Worker("idle", "full1")
  /\ set' = set + 1 /\ owner' = Append(owner, session)
  /\ UNCHANGED <<ringVars, seen>>

\* isFull looks at front_, then at rear_.
FullFront ==
  /\ Worker("full1", "full2")
  /\ seen' = [seen EXCEPT !.front = front]
  /\ UNCHANGED <<ringVars, set, owner>>

\* Mutant: every place of the ring is used.
FullNever ==
  /\ Worker("full2", "store")
  /\ UNCHANGED <<ringVars, seen, set, owner>>

\* A full queue is fatal: ErrorQuit "Array Queue Full".
FullRear ==
  /\ Worker("full2", IF After(rear) = seen.front THEN "crashed" ELSE "store")
  /\ UNCHANGED <<ringVars, seen, set, owner>>

Store ==
  /\ Worker("store", "read")
  /\ arr' = [arr EXCEPT ![rear] = set]
  /\ UNCHANGED <<front, rear, seen, set, owner>>

ReadRear ==
  /\ Worker("read", "write")
  /\ seen' = [seen EXCEPT !.rear = rear]
  /\ UNCHANGED <<ringVars, set, owner>>

WriteRear ==
  /\ Worker("write", "idle")
  /\ rear' = After(seen.rear)
  /\ UNCHANGED <<arr, front, seen, set, owner>>

-----------------------------------------------------------------------------
(***************************************************************************)
(* The pipe: Dequeue, for the messages of a frame and in ClearJobQ.        *)
(***************************************************************************)
Pipe(from, to) ==
  /\ pipe = from /\ pipe' = to
  /\ UNCHANGED workerVars

\* A frame comes to the user, or a handler moves it.
Begin(reason) ==
  /\ Pipe("idle", "empty")
  /\ why' = reason
  /\ \/ reason = "job" /\ UNCHANGED moved
     \/ reason = "move" /\ moved < moves /\ moved' = moved + 1
     \/ reason = "destroy" /\ worker = "idle" /\ session < MaxSessions /\ UNCHANGED moved
  /\ UNCHANGED <<ringVars, taken, session, moves, endVars>>

LookEmpty ==
  /\ Pipe("empty", IF front # rear THEN "take" ELSE IF why = "job" THEN "idle" ELSE "reset1")
  /\ UNCHANGED <<ringVars, why, taken, sessionVars, endVars>>

TakeSlot ==
  /\ Pipe("take", "null")
  /\ taken' = arr[front]
  /\ UNCHANGED <<ringVars, why, sessionVars, endVars>>

ClearSlot ==
  /\ Pipe("null", "advance")
  /\ arr' = [arr EXCEPT ![front] = NULL]
  /\ UNCHANGED <<front, rear, why, taken, sessionVars, endVars>>

\* Mutant: the index is advanced by the worker's end.
AdvanceToRear ==
  /\ Pipe("advance", "use")
  /\ front' = rear
  /\ UNCHANGED <<arr, rear, why, taken, sessionVars, endVars>>

Advance ==
  /\ Pipe("advance", "use")
  /\ front' = After(front)
  /\ UNCHANGED <<arr, rear, why, taken, sessionVars, endVars>>

\* A job that is null ends the user's frame; ClearJobQ frees what it takes, and
\* falls over a null.
Use ==
  /\ Pipe("use", IF why = "job" THEN (IF taken = NULL THEN "idle" ELSE "empty")
                 ELSE IF taken = NULL THEN "crashed" ELSE "empty")
  /\ handled' = IF why = "job" /\ taken # NULL THEN Append(handled, taken) ELSE handled
  /\ freed' = IF why # "job" /\ taken # NULL THEN freed \cup {taken} ELSE freed
  /\ UNCHANGED <<ringVars, why, taken, sessionVars>>

\* QueueWithoutCount::Clear.
ResetFront ==
  /\ Pipe("reset1", "reset2")
  /\ front' = 0
  /\ UNCHANGED <<arr, rear, why, taken, sessionVars, endVars>>

\* Mutant: rear_ is not reset.
ResetRearNot ==
  /\ Pipe("reset2", "idle")
  /\ session' = IF why = "destroy" THEN session + 1 ELSE session
  /\ moved' = IF why = "destroy" THEN 0 ELSE moved
  /\ why' = "job"
  /\ UNCHANGED <<ringVars, taken, moves, endVars>>

\* After a destroy the slot goes to the next session.
ResetRear ==
  /\ Pipe("reset2", "idle")
  /\ rear' = 0
  /\ session' = IF why = "destroy" THEN session + 1 ELSE session
  /\ moved' = IF why = "destroy" THEN 0 ELSE moved
  /\ why' = "job"
  /\ UNCHANGED <<arr, front, taken, moves, endVars>>

-----------------------------------------------------------------------------
WorkerStep == FullFront \/ FullRear \/ Store \/ ReadRear \/ WriteRear
PipeStep   == LookEmpty \/ TakeSlot \/ ClearSlot \/ Advance \/ Use \/ ResetFront \/ ResetRear

\* A crash ends the process: nobody runs on.
Next ==
  /\ worker # "crashed" /\ pipe # "crashed"
  /\ Receive \/ WorkerStep \/ PipeStep \/ \E r \in {"job", "move", "destroy"} : Begin(r)

Spec == Init /\ [][Next]_vars

\* Both threads run on, and every frame comes to the user.
Fairness == WF_vars(Next /\ WorkerStep) /\ WF_vars(Next /\ (PipeStep \/ Begin("job")))
FairSpec == Spec /\ Fairness

-----------------------------------------------------------------------------
(***************************************************************************)
(* What the queue has to achieve.                                          *)
(***************************************************************************)
\* Sets are handled in the order they were received, none twice, also around a
\* Clear that the worker overtakes (Queue.h:110-140), and none is handled by one
\* side and freed by the other.
HandledInOrder ==
  /\ \A i, j \in DOMAIN handled : i < j => handled[i] < handled[j]
  /\ \A i \in DOMAIN handled : handled[i] \notin freed

\* A pipe handles sets of the session the slot belongs to: ErrorQuit "packet ID,
\* user ID Not Equal" is not reached (NetPipe.cpp:216).
OwnSessionOnly ==
  pipe = "use" /\ why = "job" /\ taken # NULL => owner[taken] = session

\* Where no user moves, the ring is a queue that holds Size - 1 sets; the other
\* behaviours are not looked at.
Pending == LET Count == (rear - front) % Size
           IN  [i \in 1..Count |-> arr[(front + i - 1) % Size]]
waiting == IF moves > 0 \/ pipe = "reset2" THEN <<>>
           ELSE IF pipe = "advance" THEN <<taken>> \o Tail(Pending) ELSE Pending
refused == moves = 0 /\ ((worker = "full2" /\ After(rear) = seen.front) \/ worker = "crashed")

Queue == INSTANCE Fifo WITH Values <- Sets, Capacity <- Size - 1
ImplementsFifo == Queue!Spec

\* Where no user moves, every set that is received is handled, or freed with
\* the session, unless the queue overflows and ends the process.
EverySetEnds == \A n \in Sets : (moves = 0 /\ set = n /\ worker = "write") ~>
  (n \in freed \/ (\E i \in DOMAIN handled : handled[i] = n) \/ worker = "crashed")
=============================================================================
