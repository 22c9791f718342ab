-------------------------- MODULE PipeManager_proofs --------------------------
(***************************************************************************)
(* Nobody is left behind in a pipe that stops, and some pipe always stays, *)
(* for any number of users and pipes and any two thresholds whose distance *)
(* outlasts a way.                                                         *)
(*                                                                         *)
(* The argument: the pipe chosen for a user was found empty at most        *)
(* ChosenUpTo times then, and at most once more in every pass since (Ways).*)
(* So it is never among those that were found empty more than StoppedAbove *)
(* times, and such a pipe, once found, stays empty until it is stopped     *)
(* (Found): nobody is on the way to it.  The lock keeps choices out of a   *)
(* pass (Locked); without it neither would be inductive.                   *)
(***************************************************************************)
EXTENDS PipeManager, AuthLogin, FiniteSetTheorems, SequenceTheorems, TLAPS

Stages == {"rest", "choose", "request", "join", "moveIn", "moveOut", "leave"}

TypeOK ==
  /\ pipes \in SUBSET Pipes
  /\ zeroUserCount \in [Pipes -> Nat] /\ stopFlag \in [Pipes -> BOOLEAN]
  /\ thread \in [Pipes -> {"none", "runs", "lastMove", "lastLeave"}]
  /\ where \in [Users -> Pipes \cup {NoPipe}] /\ dest \in [Users -> Pipes \cup {NoPipe}]
  /\ stage \in [Users -> Stages] /\ passes \in [Users -> Nat]
  /\ retPipe \in [Users -> Pipes \cup {NoPipe}] /\ left \in [Users -> SUBSET Pipes]
  /\ manager \in {"create", "new", "collect", "count", "check"}
  /\ uncounted \in SUBSET Pipes /\ current \in Pipes \cup {NoPipe}
  /\ pipeList \in SUBSET Pipes /\ pipeCount \in Nat

\* The pipes of the list run.
ListedRun == \A p \in pipes : ~stopFlag[p] /\ thread[p] = "runs"

\* pipeCount_ counts the list.
Counted ==
  /\ pipes # {} /\ pipeCount = Cardinality(pipes) /\ pipeCount <= maxPipeCount
  /\ manager = "new" => pipeCount < maxPipeCount

\* Nobody chooses while the manager has the lock.
Locked == LockIsFree \/ NobodyChooses

\* What the manager has found so far stays so until it is done.
Found ==
  /\ LockIsFree => uncounted = {} /\ pipeList = {}
  /\ uncounted \subseteq pipes /\ pipeList \subseteq pipes /\ pipeList \cap uncounted = {}
  /\ manager = "check" => current \in pipes /\ current \notin uncounted \cup pipeList
  /\ \A p \in pipeList : zeroUserCount[p] > StoppedAbove /\ \A u \in Users : where[u] # p

\* Users are in pipes of the list.
Residents == \A u \in Users : where[u] # NoPipe => where[u] \in pipes

\* What was chosen so far is a pipe that is not about to go.
Choices ==
  \A u \in Users : stage[u] = "choose" =>
    /\ left[u] \subseteq pipes
    /\ retPipe[u] # NoPipe =>
         retPipe[u] \in pipes /\ zeroUserCount[retPipe[u]] <= ChosenUpTo

\* How often the pipe that was chosen can have been found empty since; a pipe that
\* is still to be counted in this pass, once less.
Ways ==
  \A u \in Users :
    /\ ~OnTheWay(u) => dest[u] = NoPipe /\ passes[u] = 0
    /\ dest[u] # NoPipe =>
         /\ dest[u] \in pipes /\ passes[u] <= Patience
         /\ zeroUserCount[dest[u]]
              + (IF dest[u] \in uncounted THEN 1 ELSE 0) <= ChosenUpTo + passes[u]

IInv == TypeOK /\ ListedRun /\ Counted /\ Locked /\ Found /\ Residents /\ Choices /\ Ways

USE ManagerAssumption DEF userVars, findVars, pipeVars, managerVars, Stages, LockIsFree,
                          NobodyChooses, OnTheWay

-----------------------------------------------------------------------------
\* GetUserSize is a number.
LEMMA UserSizeIsNat == ASSUME NEW p PROVE GetUserSize(p) \in Nat
<1>. DEFINE S == {u \in Users : where[u] = p}
<1>1. IsFiniteSet(S)
  BY FS_Subset
<1>. QED  BY <1>1, FS_CardinalityType DEF GetUserSize

\* A pipe whose count is zero has no user.
LEMMA NoUsers ==
  ASSUME NEW p, GetUserSize(p) = 0 PROVE \A u \in Users : where[u] # p
<1>. DEFINE S == {u \in Users : where[u] = p}
<1>1. IsFiniteSet(S)
  BY FS_Subset
<1>2. S = {}
  BY <1>1, FS_EmptySet DEF GetUserSize
<1>. QED  BY <1>2

\* What is left of a set without one of its members.
LEMMA CardinalityOfRest ==
  ASSUME NEW S, NEW T \in SUBSET S, IsFiniteSet(S)
  PROVE  /\ Cardinality(S \ T) = Cardinality(S) - Cardinality(T)
         /\ Cardinality(S) \in Nat /\ Cardinality(T) \in Nat /\ Cardinality(S \ T) \in Nat
<1>1. IsFiniteSet(T) /\ IsFiniteSet(S \ T)
  BY FS_Subset
<1>2. Cardinality((S \ T) \cup T)
        = Cardinality(S \ T) + Cardinality(T) - Cardinality((S \ T) \cap T)
  BY <1>1, FS_Union
<1>3. (S \ T) \cup T = S /\ (S \ T) \cap T = {}
  OBVIOUS
<1>4. Cardinality(S) = Cardinality(S \ T) + Cardinality(T) - 0
  BY <1>2, <1>3, FS_EmptySet
<1>5. Cardinality(S) \in Nat /\ Cardinality(T) \in Nat /\ Cardinality(S \ T) \in Nat
  BY <1>1, FS_CardinalityType
<1>. QED  BY <1>4, <1>5

-----------------------------------------------------------------------------
\* Start makes the first pipe, and nobody is anywhere.
LEMMA InitInv == Init => IInv
<1>. SUFFICES ASSUME Init PROVE IInv
  OBVIOUS
<1>1. TypeOK
  BY DEF Init, TypeOK
<1>2. Counted
  BY FS_Singleton DEF Init, Counted
<1>. QED
  BY <1>1, <1>2 DEF Init, IInv, ListedRun, Locked, Found, Residents, Choices, Ways

\* Choosing disturbs what was chosen and what is on the way.
LEMMA BeginFindInv == ASSUME IInv, NEW u \in Users, BeginFind(u) PROVE IInv'
<1>1. TypeOK' /\ ListedRun' /\ Counted' /\ Locked' /\ Found' /\ Residents'
  BY DEF IInv, BeginFind, TypeOK, ListedRun, Counted, Locked, Found, Residents
<1>2. Choices' /\ Ways'
  BY DEF IInv, BeginFind, TypeOK, Choices, Ways
<1>. QED  BY <1>1, <1>2 DEF IInv

\* FindPipe_LoadBalanced looks at one more pipe of the list.
LEMMA LookAtInv == ASSUME IInv, NEW u \in Users, NEW p \in Pipes, LookAt(u, p) PROVE IInv'
<1>1. TypeOK' /\ ListedRun' /\ Counted' /\ Locked' /\ Found' /\ Residents' /\ Ways'
  BY DEF IInv, LookAt, TypeOK, ListedRun, Counted, Locked, Found, Residents, Ways
<1>2. Choices'
  <2>. SUFFICES ASSUME NEW v \in Users, stage[v] = "choose"
                PROVE  /\ left'[v] \subseteq pipes
                       /\ retPipe'[v] # NoPipe =>
                            /\ retPipe'[v] \in pipes
                            /\ zeroUserCount[retPipe'[v]] <= ChosenUpTo
    BY DEF LookAt, Choices
  <2>1. p \in pipes
    BY DEF IInv, Choices, LookAt
  <2>2. retPipe'[v] = retPipe[v]
          \/ (retPipe'[v] = p /\ zeroUserCount[p] <= ChosenUpTo)
    <3>. DEFINE low   == zeroUserCount[p] <= ChosenUpTo
                fewer == GetUserSize(p) < GetUserSize(retPipe[u])
                new   == IF low /\ (retPipe[u] = NoPipe \/ fewer) THEN p ELSE retPipe[u]
    <3>1. retPipe' = [retPipe EXCEPT ![u] = new]
      BY Zenon DEF LookAt
    <3>2. new = retPipe[u] \/ (new = p /\ low)
      <4>. HIDE DEF low, fewer
      <4>. QED  BY Zenon
    <3>3. retPipe'[v] = IF v = u THEN new ELSE retPipe[v]
      <4>. HIDE DEF new
      <4>. QED  BY <3>1 DEF IInv, TypeOK
    <3>. QED  BY <3>2, <3>3, Zenon
  <2>3. left'[v] \subseteq left[v]
    BY DEF LookAt, IInv, TypeOK
  <2>. QED  BY <2>1, <2>2, <2>3 DEF IInv, Choices
<1>. QED  BY <1>1, <1>2 DEF IInv

\* It chooses the pipe with the fewest users.
LEMMA EndFindInv == ASSUME IInv, NEW u \in Users, EndFind(u) PROVE IInv'
<1>. USE DEF EndFind, Choose
<1>1. TypeOK' /\ ListedRun' /\ Counted' /\ Locked' /\ Found' /\ Residents'
  BY DEF IInv, TypeOK, ListedRun, Counted, Locked, Found, Residents
<1>2. uncounted = {}
  BY DEF IInv, Locked, Found
<1>3. retPipe[u] \in pipes /\ zeroUserCount[retPipe[u]] <= ChosenUpTo
  BY DEF IInv, Choices
<1>4. Choices'
  BY DEF IInv, TypeOK, Choices
<1>5. Ways'
  BY <1>2, <1>3 DEF IInv, TypeOK, Ways
<1>. QED  BY <1>1, <1>4, <1>5 DEF IInv

\* It chooses the first one when all are about to go, and revives it.
LEMMA FindAnyInv == ASSUME IInv, NEW u \in Users, FindAny(u) PROVE IInv'
<1>. PICK p \in pipes : Choose(u, p) /\ zeroUserCount' = [zeroUserCount EXCEPT ![p] = 0]
  BY DEF FindAny
<1>. USE DEF Choose
<1>1. stage[u] = "choose" /\ p \in Pipes
  BY DEF FindAny, IInv, TypeOK
<1>2. uncounted = {} /\ pipeList = {} /\ LockIsFree
  BY <1>1 DEF IInv, Locked, Found
<1>3. TypeOK' /\ ListedRun' /\ Counted' /\ Locked' /\ Residents'
  BY <1>1, <1>2 DEF IInv, TypeOK, ListedRun, Counted, Locked, Residents
<1>4. Found'
  BY <1>2 DEF IInv, Found
<1>5. \A q \in Pipes : zeroUserCount'[q] <= zeroUserCount[q] /\ zeroUserCount'[q] \in Nat
  BY <1>1 DEF IInv, TypeOK
<1>6. Choices'
  BY <1>5 DEF IInv, TypeOK, Choices
<1>7. Ways'
  <2>1. zeroUserCount'[p] = 0
    BY <1>1 DEF IInv, TypeOK
  <2>. SUFFICES ASSUME NEW v \in Users
                PROVE  /\ ~OnTheWay(v)' => dest'[v] = NoPipe /\ passes'[v] = 0
                       /\ dest'[v] # NoPipe =>
                            /\ dest'[v] \in pipes' /\ passes'[v] <= Patience
                            /\ zeroUserCount'[dest'[v]] <= ChosenUpTo + passes'[v]
    <3>1. uncounted' = {}
      BY <1>2
    <3>2. \A v \in Users : dest'[v] # NoPipe => zeroUserCount'[dest'[v]] \in Nat
      BY <1>1, <1>5 DEF IInv, TypeOK
    <3>. QED  BY <3>1, <3>2 DEF Ways
  <2>2. CASE v = u
    BY <1>1, <2>1, <2>2 DEF IInv, TypeOK, Ways
  <2>3. CASE v # u
    BY <1>2, <1>5, <2>3 DEF IInv, TypeOK, Ways
  <2>. QED  BY <2>2, <2>3
<1>. QED  BY <1>3, <1>4, <1>6, <1>7 DEF IInv

\* The user is queued, to come into a pipe or to go out of one.
LEMMA RequestInv ==
  ASSUME IInv, NEW u \in Users, RequestEnter(u) \/ RequestLeave(u) PROVE IInv'
<1>1. TypeOK' /\ ListedRun' /\ Counted' /\ Locked' /\ Found' /\ Residents'
  BY DEF IInv, RequestEnter, RequestLeave, TypeOK, ListedRun, Counted, Locked, Found, Residents
<1>2. Choices' /\ Ways'
  BY DEF IInv, RequestEnter, RequestLeave, TypeOK, Choices, Ways
<1>. QED  BY <1>1, <1>2 DEF IInv

-----------------------------------------------------------------------------
\* Who enters a pipe was on the way to it: the manager has not found it.
LEMMA EnterInv ==
  ASSUME IInv, NEW p \in Pipes, NEW u \in Users, Join(p, u) \/ MoveIn(p, u) PROVE IInv'
<1>. USE DEF Join, MoveIn, Enter
<1>1. dest[u] = p /\ p \in pipes /\ p \notin pipeList
  <2>1. dest[u] = p /\ p # NoPipe
    OBVIOUS
  <2>2. p \in pipes /\ passes[u] <= Patience /\ zeroUserCount[p] <= ChosenUpTo + passes[u]
    BY <2>1 DEF IInv, TypeOK, Ways
  <2>. QED  BY <2>1, <2>2 DEF IInv, TypeOK, Found
<1>2. TypeOK' /\ ListedRun' /\ Counted' /\ Locked'
  BY DEF IInv, TypeOK, ListedRun, Counted, Locked
<1>3. Found' /\ Residents'
  BY <1>1 DEF IInv, TypeOK, Found, Residents
<1>4. Choices' /\ Ways'
  BY DEF IInv, TypeOK, Choices, Ways
<1>. QED  BY <1>2, <1>3, <1>4 DEF IInv

\* A user is let out of its pipe.
LEMMA OutInv ==
  ASSUME IInv, NEW p \in Pipes, NEW u \in Users, MoveOut(p, u) \/ Leave(p, u) PROVE IInv'
<1>. USE DEF MoveOut, Leave, LetOut
<1>1. TypeOK' /\ ListedRun' /\ Counted' /\ Locked'
  BY DEF IInv, TypeOK, ListedRun, Counted, Locked
<1>2. Found' /\ Residents'
  BY DEF IInv, TypeOK, Found, Residents
<1>3. Choices' /\ Ways'
  BY DEF IInv, TypeOK, Choices, Ways
<1>. QED  BY <1>1, <1>2, <1>3 DEF IInv

\* A pipe that is stopped moves, lets out, and is deleted.
LEMMA EndOfPipeInv ==
  ASSUME IInv, NEW p \in Pipes, SeeStop(p) \/ EndMove(p) \/ DeletePipe(p) PROVE IInv'
<1>. USE DEF SeeStop, EndMove, DeletePipe
<1>1. p \notin pipes
  BY DEF IInv, ListedRun
<1>2. TypeOK' /\ ListedRun' /\ Counted' /\ Locked' /\ Found'
  BY <1>1 DEF IInv, TypeOK, ListedRun, Counted, Locked, Found
<1>3. Residents' /\ Choices' /\ Ways'
  BY DEF IInv, Residents, Choices, Ways
<1>. QED  BY <1>2, <1>3 DEF IInv

-----------------------------------------------------------------------------
\* The manager sees whether a pipe is overloaded.
LEMMA AutoCreateInv == ASSUME IInv, AutoCreate PROVE IInv'
<1>1. TypeOK' /\ ListedRun' /\ Counted' /\ Locked' /\ Found'
  BY DEF IInv, AutoCreate, TypeOK, ListedRun, Counted, Locked, Found
<1>2. Residents' /\ Choices' /\ Ways'
  BY DEF IInv, AutoCreate, Residents, Choices, Ways
<1>. QED  BY <1>1, <1>2 DEF IInv

\* A pipe that is made has no users.
LEMMA NewPipeInv == ASSUME IInv, NEW p \in Pipes, NewPipe(p) PROVE IInv'
<1>. USE DEF NewPipe
<1>1. p \notin pipes
  BY DEF IInv, ListedRun
<1>2. TypeOK' /\ ListedRun' /\ Locked' /\ Found' /\ Residents' /\ Choices'
  BY DEF IInv, TypeOK, ListedRun, Locked, Found, Residents, Choices
<1>3. Counted'
  <2>1. IsFiniteSet(pipes)
    BY FS_Subset DEF IInv, TypeOK
  <2>2. Cardinality(pipes \cup {p}) = Cardinality(pipes) + 1
    BY <1>1, <2>1, FS_AddElement
  <2>. QED  BY <2>2 DEF IInv, TypeOK, Counted
<1>4. Ways'
  BY <1>1 DEF IInv, TypeOK, Ways
<1>. QED  BY <1>2, <1>3, <1>4 DEF IInv

\* The manager forgets the counts of all pipes when at most one is counted.
LEMMA RevivePipeInv == ASSUME IInv, RevivePipe PROVE IInv'
<1>. USE DEF RevivePipe
<1>1. \A q \in Pipes : zeroUserCount'[q] <= zeroUserCount[q] /\ zeroUserCount'[q] \in Nat
  BY DEF IInv, TypeOK
<1>2. TypeOK' /\ ListedRun' /\ Counted' /\ Locked' /\ Residents'
  BY DEF IInv, TypeOK, ListedRun, Counted, Locked, Residents
<1>3. Found' /\ Choices'
  BY DEF IInv, Found, Choices
<1>4. Ways'
  BY <1>1 DEF IInv, TypeOK, Ways
<1>. QED  BY <1>2, <1>3, <1>4 DEF IInv

\* Every pass costs the users on the way one of their passes.
LEMMA BeginDestroyInv == ASSUME IInv, BeginDestroy PROVE IInv'
<1>. USE DEF BeginDestroy
<1>1. TypeOK' /\ ListedRun' /\ Counted' /\ Locked' /\ Residents'
  BY DEF IInv, TypeOK, ListedRun, Counted, Locked, Residents
<1>2. Found' /\ Choices'
  BY DEF IInv, Found, Choices
<1>3. Ways'
  BY DEF IInv, TypeOK, Found, Ways
<1>. QED  BY <1>1, <1>2, <1>3 DEF IInv

\* The manager counts for one pipe how often it was found empty.
LEMMA CountZeroUsersInv == ASSUME IInv, NEW p \in Pipes, CountZeroUsers(p) PROVE IInv'
<1>. USE DEF CountZeroUsers
<1>1. /\ p \in pipes /\ p \notin pipeList /\ ~LockIsFree
      /\ \A q \in Pipes : q # p => zeroUserCount'[q] = zeroUserCount[q]
      /\ zeroUserCount'[p] \in Nat /\ zeroUserCount'[p] <= zeroUserCount[p] + 1
  BY DEF IInv, TypeOK, Found
<1>2. TypeOK' /\ ListedRun' /\ Counted' /\ Locked' /\ Residents'
  BY DEF IInv, TypeOK, ListedRun, Counted, Locked, Residents
<1>3. Found'
  BY <1>1 DEF IInv, TypeOK, Found
<1>4. Choices'
  BY <1>1 DEF IInv, Locked, Choices
<1>5. Ways'
  <2>. SUFFICES ASSUME NEW v \in Users, dest[v] # NoPipe
                PROVE  zeroUserCount'[dest[v]]
                         + (IF dest[v] \in uncounted' THEN 1 ELSE 0) <= ChosenUpTo + passes[v]
    BY DEF IInv, Ways
  <2>1. CASE dest[v] = p
    BY <1>1, <2>1 DEF IInv, TypeOK, Ways
  <2>2. CASE dest[v] # p
    BY <1>1, <2>2 DEF IInv, TypeOK, Ways
  <2>. QED  BY <2>1, <2>2
<1>. QED  BY <1>2, <1>3, <1>4, <1>5 DEF IInv

\* The manager notes a pipe that was found empty too often.
LEMMA CheckZeroUsersInv == ASSUME IInv, CheckZeroUsers PROVE IInv'
<1>. USE DEF CheckZeroUsers
<1>1. TypeOK' /\ ListedRun' /\ Counted' /\ Locked' /\ Residents' /\ Choices' /\ Ways'
  BY DEF IInv, TypeOK, ListedRun, Counted, Locked, Residents, Found, Choices, Ways
<1>2. Found'
  <2>1. pipeList' = pipeList
          \/ /\ pipeList' = pipeList \cup {current} /\ zeroUserCount[current] > StoppedAbove
             /\ \A u \in Users : where[u] # current
    BY NoUsers
  <2>. QED  BY <2>1 DEF IInv, TypeOK, Found
<1>. QED  BY <1>1, <1>2 DEF IInv

\* Nobody is in a pipe that was found or on the way to it.
LEMMA DestroyInv ==
  ASSUME IInv, NEW ps \in SUBSET pipeList, ps # pipes, ~LockIsFree, uncounted = {}, Destroy(ps)
  PROVE  IInv'
<1>. USE DEF Destroy
<1>1. /\ ps \subseteq pipes
      /\ \A u \in Users : where[u] \notin ps /\ dest[u] \notin ps
  <2>1. ps \subseteq pipes /\ \A u \in Users : where[u] \notin ps
    BY DEF IInv, Found
  <2>2. ASSUME NEW u \in Users, dest[u] \in ps PROVE FALSE
    <3>1. dest[u] # NoPipe /\ dest[u] \in Pipes /\ zeroUserCount[dest[u]] > StoppedAbove
      BY <2>2 DEF IInv, TypeOK, Found
    <3>2. passes[u] <= Patience /\ zeroUserCount[dest[u]] <= ChosenUpTo + passes[u]
      BY <3>1 DEF IInv, TypeOK, Ways
    <3>. QED  BY <3>1, <3>2 DEF IInv, TypeOK
  <2>. QED  BY <2>1, <2>2
<1>2. Cardinality(pipes \ ps) = Cardinality(pipes) - Cardinality(ps)
      /\ Cardinality(pipes \ ps) \in Nat /\ Cardinality(ps) \in Nat
  <2>1. IsFiniteSet(pipes)
    BY FS_Subset DEF IInv, TypeOK
  <2>. QED  BY <1>1, <2>1, CardinalityOfRest
<1>3. pipes \ ps # {} /\ manager # "new"
  BY <1>1
<1>4. TypeOK' /\ Counted'
  <2>1. TypeOK'
    BY <1>1, <1>2 DEF IInv, TypeOK, Counted
  <2>. QED  BY <1>2, <1>3, <2>1 DEF IInv, TypeOK, Counted
<1>5. ListedRun' /\ Locked' /\ Found'
  BY <1>1 DEF IInv, TypeOK, ListedRun, Locked, Found
<1>6. Residents' /\ Choices'
  BY <1>1 DEF IInv, Locked, Residents, Choices
<1>7. Ways'
  BY <1>1 DEF IInv, TypeOK, Ways
<1>. QED  BY <1>4, <1>5, <1>6, <1>7 DEF IInv

\* The manager stops the pipes it noted, but never the last one.
LEMMA DestroyZeroUserPipeInv == ASSUME IInv, DestroyZeroUserPipe PROVE IInv'
<1>1. ~LockIsFree /\ uncounted = {}
  BY DEF DestroyZeroUserPipe
<1>2. CASE pipeList # pipes /\ Destroy(pipeList)
  BY <1>1, <1>2, DestroyInv
<1>3. ASSUME NEW first \in pipes, pipeList = pipes, Destroy(pipeList \ {first}) PROVE IInv'
  <2>1. pipeList \ {first} \in SUBSET pipeList /\ pipeList \ {first} # pipes
    BY <1>3
  <2>. QED  BY <1>1, <1>3, <2>1, DestroyInv
<1>. QED  BY <1>2, <1>3 DEF DestroyZeroUserPipe

-----------------------------------------------------------------------------
\* One step for each action of Next.
LEMMA NextInv == IInv /\ [Next]_vars => IInv'
<1>. SUFFICES ASSUME IInv, [Next]_vars PROVE IInv'
  OBVIOUS
<1>1. ASSUME NEW u \in Users, UserStep(u) PROVE IInv'
  BY <1>1, BeginFindInv, LookAtInv, EndFindInv, FindAnyInv, RequestInv DEF UserStep
<1>2. ASSUME NEW p \in Pipes, PipeStep(p) PROVE IInv'
  BY <1>2, EnterInv, OutInv, EndOfPipeInv DEF PipeStep
<1>3. CASE ManagerStep
  BY <1>3, AutoCreateInv, NewPipeInv, RevivePipeInv, BeginDestroyInv, CountZeroUsersInv,
     CheckZeroUsersInv, DestroyZeroUserPipeInv DEF ManagerStep
<1>4. CASE UNCHANGED vars
  BY <1>4 DEF vars, IInv, TypeOK, ListedRun, Counted, Locked, Found, Residents, Choices, Ways
<1>. QED  BY <1>1, <1>2, <1>3, <1>4 DEF Next

\* The invariant says both properties, and more.
LEMMA InvImplies == IInv => NobodyLeftBehind /\ SomePipeStays
BY DEF IInv, TypeOK, ListedRun, Counted, Residents, Ways, NobodyLeftBehind, SomePipeStays

\* The inductive invariant of DestroyZeroUserPipe and FindPipe_LoadBalanced: how often
\* the pipe somebody is on the way to can have been found empty.
THEOREM InvariantHolds == Spec => []IInv
<1>. QED  BY InitInv, NextInv, PTL DEF Spec

\* No user is in a pipe that was told to stop, or on the way to one, for any numbers
\* with ChosenUpTo + Patience <= StoppedAbove: 3 + 7 <= 10 in the code.
THEOREM NobodyLeftBehindHolds == Spec => []NobodyLeftBehind
<1>. QED  BY InvariantHolds, InvImplies, PTL

\* FindPipe_LoadBalanced always finds a pipe, and pipeCount_ is their number.
THEOREM SomePipeStaysHolds == Spec => []SomePipeStays
<1>. QED  BY InvariantHolds, InvImplies, PTL

-----------------------------------------------------------------------------
(***************************************************************************)
(* The pipe whose users choose from these pipes is the authentication      *)
(* pipe.  Its online map has the users that have logged in, for every      *)
(* number of sessions and accounts and whatever the clients send.          *)
(*                                                                         *)
(* The argument: the map never gives an account to a second session while  *)
(* the first is in the pipe, so a release by account hits the session's    *)
(* own entry.  A user that selects before it logs in moves without an      *)
(* account, and there the server ends.                                     *)
(* Logging in twice under two accounts leaves an entry behind, but of the  *)
(* session that has it: the invariant speaks of the latest account only.   *)
(***************************************************************************)
\* The session whose set is handled has not left the pipe.
CurInAuth == cur # None => InAuth(cur)

\* A session that has not joined has no account.
NotYet == \A s \in Sessions : place[s] = "out" => account[s] = None

LoginInv == LoginTypeOK /\ EntryOfPlayer /\ CurInAuth /\ NotYet

\* Initially every variable is in its range.
LEMMA LoginTypeInit == ASSUME LoginInit PROVE LoginTypeOK
<1> USE NoneAssumption, AccountsAssumption
<1>1. /\ place \in [Sessions -> Places] /\ account \in [Sessions -> Accounts \cup {None}]
      /\ onlineMap \in [Accounts -> Sessions \cup {None}]
  BY DEF LoginInit, Places
<1>2. cut \in [Sessions -> BOOLEAN] /\ dead \in [Sessions -> BOOLEAN] /\ crashed \in BOOLEAN
  BY DEF LoginInit
<1>3. /\ cur \in Sessions \cup {None} /\ rows \subseteq Accounts /\ saves \in Seq(Accounts)
  BY EmptySeq DEF LoginInit
<1>4. QED  BY <1>1, <1>2, <1>3 DEF LoginTypeOK

\* The types of the login hold: every step keeps each variable in its range.
THEOREM LoginTypeCorrect == LoginSpec => []LoginTypeOK
<1> USE NoneAssumption, AccountsAssumption DEF LoginTypeOK,
            Places, sessionVars, dbVars
<1>1. LoginInit => LoginTypeOK
  BY LoginTypeInit
<1>2. LoginTypeOK /\ [LoginNext]_loginVars => LoginTypeOK'
  <2> SUFFICES ASSUME LoginTypeOK, [LoginNext]_loginVars
               PROVE  LoginTypeOK'
    OBVIOUS
  <2>1. ASSUME NEW s \in Sessions,
               \/ OnUserJoin(s) \/ ClientGone(s) \/ ReleaseSession(s)
               \/ EnterGame(s) \/ LeaveGame(s) \/ BeginSet(s)
        PROVE  LoginTypeOK'
    BY <2>1 DEF OnUserJoin, ClientGone, ReleaseSession, EnterGame,
       LeaveGame, BeginSet
  <2>2. ASSUME NEW s \in Sessions, OnUserLeave(s) \/ OnUserMoveOut(s)
        PROVE  LoginTypeOK'
    <3>1. onlineMap' \in [Accounts -> Sessions \cup {None}]
      BY <2>2 DEF OnUserLeave, OnUserMoveOut, Release
    <3>2. crashed' \in BOOLEAN
      BY <2>2 DEF OnUserLeave, OnUserMoveOut
    <3>3. /\ place' \in [Sessions -> Places]
          /\ UNCHANGED <<account, cut, dead, cur, rows, saves>>
      BY <2>2 DEF OnUserLeave, OnUserMoveOut
    <3>4. QED  BY <3>1, <3>2, <3>3
  <2>3. CASE EndSet \/ SelectRefused
    BY <2>3 DEF EndSet, SelectRefused, Disconnect
  <2>4. CASE ReqCharacterSelect
    <3>1. saves' \in Seq(Accounts)
      <4>1. account[cur] # None => account[cur] \in Accounts  BY <2>4 DEF ReqCharacterSelect
      <4>2. QED  BY <2>4, <4>1, AppendProperties DEF ReqCharacterSelect
    <3>2. QED  BY <2>4, <3>1 DEF ReqCharacterSelect, MovePipe
  <2>5. ASSUME NEW a \in Accounts, LoginDuplicate(a) \/ LoginRefused(a)
        PROVE  LoginTypeOK'
    <3>1. cut' \in [Sessions -> BOOLEAN] /\ cur' = None
      BY <2>5 DEF LoginDuplicate, LoginRefused, Disconnect
    <3>2. onlineMap' \in [Accounts -> Sessions \cup {None}]
      BY <2>5 DEF LoginDuplicate, LoginRefused
    <3>3. UNCHANGED <<place, account, dead, rows, saves, crashed>>
      BY <2>5 DEF LoginDuplicate, LoginRefused
    <3>4. QED  BY <3>1, <3>2, <3>3
  <2>6. ASSUME NEW a \in Accounts, LoginNoCharacter(a) \/ LoginWithCharacter(a)
        PROVE  LoginTypeOK'
    BY <2>6 DEF LoginNoCharacter, LoginWithCharacter, LogIn, MovePipe
  <2>7. CASE SaveNext
    <3>1. saves' \in Seq(Accounts) /\ Head(saves) \in Accounts
      BY <2>7, HeadTailProperties DEF SaveNext
    <3>2. QED  BY <2>7, <3>1 DEF SaveNext
  <2>8. CASE UNCHANGED loginVars
    BY <2>8 DEF loginVars
  <2>9. QED
    BY <2>1, <2>2, <2>3, <2>4, <2>5, <2>6, <2>7, <2>8 DEF LoginNext, Handle
<1>3. QED
  BY <1>1, <1>2, PTL DEF LoginSpec

\* The invariant holds from the start.
LEMMA LoginInvInit == ASSUME LoginInit PROVE LoginInv
  BY LoginTypeInit DEF LoginInit, LoginInv, EntryOfPlayer, InAuth, CurInAuth, NotYet

\* And every step keeps it.
LEMMA LoginInvNext ==
  ASSUME LoginInv, [LoginNext]_loginVars, LoginTypeOK'
  PROVE  LoginInv'
<1> USE NoneAssumption, AccountsAssumption DEF LoginTypeOK,
            EntryOfPlayer, InAuth, CurInAuth, NotYet, sessionVars,
            dbVars
<1>0. LoginTypeOK /\ EntryOfPlayer /\ CurInAuth /\ NotYet
  BY DEF LoginInv
<1> SUFFICES EntryOfPlayer' /\ CurInAuth' /\ NotYet'
  BY DEF LoginInv
<1>1. ASSUME NEW s \in Sessions, ~crashed,
             \/ OnUserJoin(s) \/ EnterGame(s)
             \/ LeaveGame(s) \/ BeginSet(s)
      PROVE  EntryOfPlayer' /\ CurInAuth' /\ NotYet'
  BY <1>0, <1>1 DEF OnUserJoin, EnterGame, LeaveGame, BeginSet
<1>2. ASSUME NEW s \in Sessions, ClientGone(s) \/ ReleaseSession(s)
      PROVE  EntryOfPlayer' /\ CurInAuth' /\ NotYet'
  BY <1>0, <1>2 DEF ClientGone, ReleaseSession
<1>3. ASSUME NEW s \in Sessions, OnUserLeave(s)
      PROVE  EntryOfPlayer' /\ CurInAuth' /\ NotYet'
  BY <1>0, <1>3 DEF OnUserLeave, Release
<1>4. ASSUME NEW s \in Sessions, OnUserMoveOut(s)
      PROVE  EntryOfPlayer' /\ CurInAuth' /\ NotYet'
  BY <1>0, <1>4 DEF OnUserMoveOut, Release
<1>5. CASE EndSet \/ SelectRefused
  BY <1>0, <1>5 DEF EndSet, SelectRefused, Disconnect
<1>6. CASE ReqCharacterSelect
  BY <1>0, <1>6 DEF ReqCharacterSelect, MovePipe
<1>7. ASSUME NEW a \in Accounts, LoginDuplicate(a) \/ LoginRefused(a)
      PROVE  EntryOfPlayer' /\ CurInAuth' /\ NotYet'
  BY <1>0, <1>7 DEF LoginDuplicate, LoginRefused, Disconnect
<1>8. ASSUME NEW a \in Accounts, LoginNoCharacter(a)
      PROVE  EntryOfPlayer' /\ CurInAuth' /\ NotYet'
  BY <1>0, <1>8 DEF LoginNoCharacter, LogIn
<1>9. ASSUME NEW a \in Accounts, LoginWithCharacter(a)
      PROVE  EntryOfPlayer' /\ CurInAuth' /\ NotYet'
  BY <1>0, <1>9 DEF LoginWithCharacter, LogIn, MovePipe
<1>10. CASE SaveNext \/ UNCHANGED loginVars
  BY <1>0, <1>10 DEF SaveNext, loginVars
<1>11. QED
  BY <1>1, <1>2, <1>3, <1>4, <1>5, <1>6, <1>7, <1>8, <1>9, <1>10 DEF LoginNext, Handle

\* A user of the authentication pipe that has logged in is the one the map has for
\* its account; whom OnUserMoveOut does not find there, and crashes for, selected a
\* character without a login (AuthPipe.cpp:27-50).
THEOREM EntryTheorem == LoginSpec => []EntryOfPlayer
<1>1. LoginTypeOK /\ LoginTypeOK' /\ LoginInv /\ [LoginNext]_loginVars => LoginInv'
  BY LoginInvNext
<1>2. LoginInv => EntryOfPlayer
  BY DEF LoginInv
<1>3. QED
  BY <1>1, <1>2, LoginInvInit, LoginTypeCorrect, PTL DEF LoginSpec
=============================================================================
