----------------------------- MODULE PipeManager ------------------------------
(***************************************************************************)
(* The pipes of one code, managed automatically: a thread of the manager   *)
(* makes another pipe when one is overloaded and stops pipes that have     *)
(* been empty for many passes, while other threads choose pipes for their  *)
(* users and the pipes run.                                                *)
(*                                                                         *)
(* Nobody counts the users that are on their way to a pipe.  They are safe *)
(* by patience only: a pipe is not chosen any more long before it is       *)
(* stopped, and a way is shorter than the passes in between.  A pipe that  *)
(* stops moves its users in and out once more but lets nobody join.        *)
(*                                                                         *)
(* Modelled: pipeMap_ with its lock, zeroUserCount_, the choice pipe by    *)
(* pipe, the manager's thread, and of a pipe's frame what changes its user *)
(* map.  The memory of a deleted pipe may be the next pipe's.  The list of *)
(* a code is a set: walks take its pipes in any order, and the first one   *)
(* of a list is any of it.                                                 *)
(***************************************************************************)
EXTENDS Integers, FiniteSets

CONSTANTS
  Users,
  Pipes,          \* the memory that pipes are made of
  NoPipe,         \* nullptr
  maxPipeCount,   \* maxPipeCount_
  maxPipeUser,    \* maxPipeUser_
  ChosenUpTo,     \* 3: a pipe found empty more often is not chosen
  StoppedAbove,   \* 10: a pipe found empty more often is stopped
  Patience        \* bound: passes of the manager while one user is on its way

\* The passes between the last choice of a pipe and its end outlast a way.
ASSUME ManagerAssumption ==
  /\ NoPipe \notin Pipes /\ IsFiniteSet(Pipes) /\ IsFiniteSet(Users)
  /\ maxPipeCount \in Nat \ {0} /\ maxPipeUser \in Nat
  /\ ChosenUpTo \in Nat /\ StoppedAbove \in Nat /\ Patience \in Nat
  /\ ChosenUpTo + Patience <= StoppedAbove

VARIABLES
  pipes,           \* pipeMap_: the pipes of the code
  zeroUserCount,   \* zeroUserCount_ of each pipe
  stopFlag,        \* stopFlag_ of each pipe
  thread,          \* the thread of each pipe
  where,           \* the pipe whose userMap_ has the user
  dest,            \* destPipe_ of its session
  stage,           \* how far the user is
  retPipe, left,   \* FindPipe_LoadBalanced: its choice so far, the pipes to come
  manager,         \* where the manager's thread is
  uncounted,       \* DestroyZeroUserPipe: the pipes to come
  current,         \* DestroyZeroUserPipe: the pipe that was just counted
  pipeList,        \* DestroyZeroUserPipe: the pipes it found
  pipeCount,       \* pipeCount_
  passes           \* history: the passes since a user's pipe was chosen

userVars    == <<where, dest, stage, passes>>
findVars    == <<retPipe, left>>
pipeVars    == <<pipes, stopFlag, thread>>
managerVars == <<manager, uncounted, current, pipeList, pipeCount>>
vars == <<userVars, findVars, pipeVars, zeroUserCount, managerVars>>

-----------------------------------------------------------------------------
\* A user for whom a pipe was chosen that it is not in yet.
OnTheWay(u) == stage[u] \in {"request", "join", "moveIn"}

\* pipeLock_: held shared by everyone who chooses, exclusively by the manager.
NobodyChooses == \A u \in Users : stage[u] # "choose"
LockIsFree    == manager \in {"create", "new", "collect"}

GetUserSize(p) == Cardinality({u \in Users : where[u] = p})

\* Start makes the first pipe.
Init ==
  /\ \E p \in Pipes :
       /\ pipes = {p}
       /\ thread = [q \in Pipes |-> IF q = p THEN "runs" ELSE "none"]
  /\ zeroUserCount = [p \in Pipes |-> 0] /\ stopFlag = [p \in Pipes |-> FALSE]
  /\ where = [u \in Users |-> NoPipe] /\ dest = [u \in Users |-> NoPipe]
  /\ stage = [u \in Users |-> "rest"] /\ passes = [u \in Users |-> 0]
  /\ retPipe = [u \in Users |-> NoPipe] /\ left = [u \in Users |-> {}]
  /\ manager = "create" /\ uncounted = {} /\ current = NoPipe /\ pipeList = {}
  /\ pipeCount = 1

-----------------------------------------------------------------------------
(***************************************************************************)
(* FindPipe_LoadBalanced, for a session that was accepted or a user that   *)
(* comes from another code: nobody moves within one.                       *)
(***************************************************************************)
BeginFind(u) ==
  /\ stage[u] = "rest" /\ where[u] = NoPipe /\ LockIsFree
  /\ stage' = [stage EXCEPT ![u] = "choose"]
  /\ retPipe' = [retPipe EXCEPT ![u] = NoPipe] /\ left' = [left EXCEPT ![u] = pipes]
  /\ UNCHANGED <<pipeVars, zeroUserCount, managerVars, where, dest, passes>>

\* Of the pipes that are not about to go, the one with the fewest users.
LookAt(u, p) ==
  /\ stage[u] = "choose" /\ p \in left[u]
  /\ retPipe' = [retPipe EXCEPT ![u] =
                   IF /\ zeroUserCount[p] <= ChosenUpTo
                      /\ @ = NoPipe \/ GetUserSize(p) < GetUserSize(@)
                   THEN p ELSE @]
  /\ left' = [left EXCEPT ![u] = @ \ {p}]
  /\ UNCHANGED <<pipeVars, zeroUserCount, managerVars, userVars>>

Choose(u, p) ==
  /\ dest' = [dest EXCEPT ![u] = p]
  /\ stage' = [stage EXCEPT ![u] = "request"]
  /\ retPipe' = [retPipe EXCEPT ![u] = NoPipe]
  /\ UNCHANGED <<pipeVars, managerVars, left, where, passes>>

EndFind(u) ==
  /\ stage[u] = "choose" /\ left[u] = {} /\ retPipe[u] # NoPipe
  /\ Choose(u, retPipe[u]) /\ UNCHANGED zeroUserCount

\* Mutant: the pipe that must do, for want of another, is not revived.
FindAnyNoRevival(u) ==
  /\ stage[u] = "choose" /\ left[u] = {} /\ retPipe[u] = NoPipe
  /\ \E p \in pipes : Choose(u, p) /\ UNCHANGED zeroUserCount

\* If all of them are about to go the first one must do, and is revived.
FindAny(u) ==
  /\ stage[u] = "choose" /\ left[u] = {} /\ retPipe[u] = NoPipe
  /\ \E p \in pipes : /\ Choose(u, p)
                      /\ zeroUserCount' = [zeroUserCount EXCEPT ![p] = 0]

\* An accepted session is queued to join; a user of another code is let out there and
\* queued to move in.
RequestEnter(u) ==
  /\ stage[u] = "request"
  /\ \E to \in {"join", "moveIn"} : stage' = [stage EXCEPT ![u] = to]
  /\ UNCHANGED <<pipeVars, zeroUserCount, managerVars, findVars, where, dest, passes>>

\* A user disconnects, or moves to another code.
RequestLeave(u) ==
  /\ stage[u] = "rest" /\ where[u] # NoPipe
  /\ \E to \in {"leave", "moveOut"} : stage' = [stage EXCEPT ![u] = to]
  /\ UNCHANGED <<pipeVars, zeroUserCount, managerVars, findVars, where, dest, passes>>

-----------------------------------------------------------------------------
(***************************************************************************)
(* The thread of a pipe.                                                   *)
(***************************************************************************)
Enter(p, u) ==
  /\ dest[u] = p
  /\ where' = [where EXCEPT ![u] = p] /\ dest' = [dest EXCEPT ![u] = NoPipe]
  /\ stage' = [stage EXCEPT ![u] = "rest"] /\ passes' = [passes EXCEPT ![u] = 0]
  /\ UNCHANGED <<pipeVars, zeroUserCount, managerVars, findVars>>

Join(p, u)   == thread[p] = "runs" /\ stage[u] = "join" /\ Enter(p, u)
MoveIn(p, u) == thread[p] \in {"runs", "lastMove"} /\ stage[u] = "moveIn" /\ Enter(p, u)

LetOut(p, u) ==
  /\ where[u] = p
  /\ where' = [where EXCEPT ![u] = NoPipe] /\ stage' = [stage EXCEPT ![u] = "rest"]
  /\ UNCHANGED <<pipeVars, zeroUserCount, managerVars, findVars, dest, passes>>

MoveOut(p, u) == thread[p] \in {"runs", "lastMove"} /\ stage[u] = "moveOut" /\ LetOut(p, u)
Leave(p, u)   == thread[p] \in {"runs", "lastLeave"} /\ stage[u] = "leave" /\ LetOut(p, u)

\* The frame loop ends; Move and Leave once more; the pipe is deleted.
SeeStop(p) ==
  /\ thread[p] = "runs" /\ stopFlag[p]
  /\ thread' = [thread EXCEPT ![p] = "lastMove"]
  /\ UNCHANGED <<pipes, stopFlag, zeroUserCount, managerVars, findVars, userVars>>

EndMove(p) ==
  /\ thread[p] = "lastMove"
  /\ \A u \in Users : /\ ~(stage[u] = "moveIn" /\ dest[u] = p)
                      /\ ~(stage[u] = "moveOut" /\ where[u] = p)
  /\ thread' = [thread EXCEPT ![p] = "lastLeave"]
  /\ UNCHANGED <<pipes, stopFlag, zeroUserCount, managerVars, findVars, userVars>>

DeletePipe(p) ==
  /\ thread[p] = "lastLeave"
  /\ \A u \in Users : ~(stage[u] = "leave" /\ where[u] = p)
  /\ thread' = [thread EXCEPT ![p] = "none"]
  /\ UNCHANGED <<pipes, stopFlag, zeroUserCount, managerVars, findVars, userVars>>

-----------------------------------------------------------------------------
(***************************************************************************)
(* The manager's thread.                                                   *)
(***************************************************************************)
\* The walk for overloaded pipes visits those of every code: another code's may be.
AutoCreate ==
  /\ manager = "create"
  /\ \E elsewhere \in BOOLEAN :
       manager' = IF /\ pipeCount < maxPipeCount
                     /\ elsewhere \/ \E p \in pipes : GetUserSize(p) >= maxPipeUser
                  THEN "new" ELSE "collect"
  /\ UNCHANGED <<pipeVars, zeroUserCount, userVars, findVars, uncounted, current, pipeList,
                 pipeCount>>

NewPipe(p) ==
  /\ manager = "new" /\ thread[p] = "none" /\ NobodyChooses
  /\ pipes' = pipes \cup {p}
  /\ thread' = [thread EXCEPT ![p] = "runs"]
  /\ stopFlag' = [stopFlag EXCEPT ![p] = FALSE]
  /\ zeroUserCount' = [zeroUserCount EXCEPT ![p] = 0]
  /\ pipeCount' = pipeCount + 1 /\ manager' = "collect"
  /\ UNCHANGED <<userVars, findVars, uncounted, current, pipeList>>

RevivePipe ==
  /\ manager = "collect" /\ pipeCount <= 1 /\ NobodyChooses
  /\ zeroUserCount' = [p \in Pipes |-> IF p \in pipes THEN 0 ELSE zeroUserCount[p]]
  /\ manager' = "create"
  /\ UNCHANGED <<pipeVars, userVars, findVars, uncounted, current, pipeList, pipeCount>>

\* DestroyZeroUserPipe: a pass over the pipes, which go on meanwhile.
BeginDestroy ==
  /\ manager = "collect" /\ pipeCount > 1 /\ NobodyChooses
  /\ \A u \in Users : OnTheWay(u) => passes[u] < Patience
  /\ passes' = [u \in Users |-> IF OnTheWay(u) THEN passes[u] + 1 ELSE passes[u]]
  /\ manager' = "count" /\ uncounted' = pipes /\ pipeList' = {}
  /\ UNCHANGED <<pipeVars, zeroUserCount, where, dest, stage, findVars, current, pipeCount>>

CountZeroUsers(p) ==
  /\ manager = "count" /\ p \in uncounted
  /\ zeroUserCount' = [zeroUserCount EXCEPT ![p] = IF GetUserSize(p) = 0 THEN @ + 1 ELSE 0]
  /\ uncounted' = uncounted \ {p} /\ current' = p /\ manager' = "check"
  /\ UNCHANGED <<pipeVars, userVars, findVars, pipeList, pipeCount>>

CheckZeroUsers ==
  /\ manager = "check"
  /\ pipeList' = IF zeroUserCount[current] > StoppedAbove /\ GetUserSize(current) = 0
                 THEN pipeList \cup {current} ELSE pipeList
  /\ manager' = "count" /\ current' = NoPipe
  /\ UNCHANGED <<pipeVars, zeroUserCount, userVars, findVars, uncounted, pipeCount>>

Destroy(ps) ==
  /\ stopFlag' = [p \in Pipes |-> stopFlag[p] \/ p \in ps]
  /\ pipes' = pipes \ ps
  /\ pipeCount' = pipeCount - Cardinality(ps)
  /\ manager' = "create" /\ pipeList' = {}
  /\ UNCHANGED <<zeroUserCount, thread, userVars, findVars, uncounted, current>>

\* Mutant: all the pipes found are destroyed, the last one of the code included.
DestroyAll == manager = "count" /\ uncounted = {} /\ Destroy(pipeList)

\* The pipes found are stopped and removed from the list, except the first one when
\* no other pipe would be left.
DestroyZeroUserPipe ==
  /\ manager = "count" /\ uncounted = {}
  /\ \/ pipeList # pipes /\ Destroy(pipeList)
     \/ pipeList = pipes /\ \E first \in pipes : Destroy(pipeList \ {first})

-----------------------------------------------------------------------------
UserStep(u) ==
  \/ BeginFind(u) \/ EndFind(u) \/ FindAny(u) \/ RequestEnter(u) \/ RequestLeave(u)
  \/ \E p \in Pipes : LookAt(u, p)

PipeStep(p) ==
  \/ \E u \in Users : Join(p, u) \/ MoveIn(p, u) \/ MoveOut(p, u) \/ Leave(p, u)
  \/ SeeStop(p) \/ EndMove(p) \/ DeletePipe(p)

ManagerStep ==
  \/ AutoCreate \/ RevivePipe \/ BeginDestroy \/ CheckZeroUsers
  \/ DestroyZeroUserPipe
  \/ \E p \in Pipes : NewPipe(p) \/ CountZeroUsers(p)

Next ==
  \/ \E u \in Users : UserStep(u)
  \/ \E p \in Pipes : PipeStep(p)
  \/ ManagerStep

Spec == Init /\ [][Next]_vars

-----------------------------------------------------------------------------
(***************************************************************************)
(* What the manager has to achieve.                                        *)
(***************************************************************************)
\* A pipe that was told to stop has no users, and nobody is on the way to it: no
\* user is left in a map that is deleted, and the pipe a session is in or goes to
\* is there (NetServer.cpp:629-667, 745-767, NetPipe.cpp:115-122).  The pipe a user
\* comes from may be gone; curPipe_ still points to it then, but nobody follows it
\* before PipeMoveEnd.
NobodyLeftBehind ==
  \A u \in Users, p \in Pipes :
    where[u] = p \/ dest[u] = p => p \in pipes /\ ~stopFlag[p] /\ thread[p] = "runs"

\* However pipes come and go, one of the code always stays to be found, and
\* pipeCount_, which the manager decides by, is the length of the list
\* (NetServer.cpp:652-658, 766-770, PipeManager.h:87-125).
SomePipeStays == pipes # {} /\ pipeCount = Cardinality(pipes) /\ pipeCount <= maxPipeCount
=============================================================================
