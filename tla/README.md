# MyOnlineGameServer in TLA+

Specifications of the concurrent core of MyOnlineGameServer: the IOCP network
library under `src/NetRoot/NetServer`, the lock-free and sequential structures of
`src/NetRoot/Common` it stands on, and the login and game logic of
`src/OnlineGameServer` that run on top of it. Each module is translated from the
code it names; `PROJECT.json` maps every definition to its lines. TLC checks small
instances; the theorems of the eight modules `NetSession_proofs`, `NetSend_proofs`,
`NetPipe_proofs`, `Queues_proofs`, `NetRecv_proofs`, `PipeManager_proofs`,
`MemoryPool_proofs` and `GamePipe_proofs` hold for every value of the constants.

Contents: [the system](#1-the-system), [the modules](#2-the-modules),
[the runs](#3-the-runs), [fairness](#4-fairness), [the proofs](#5-the-proofs),
[known behaviours](#6-known-behaviours-of-the-code),
[what is not modelled](#7-what-is-not-modelled), [the plan](#8-the-plan).

To repeat a run: `tlc -config MCNetSession.cfg MCNetSession.tla`; a proof:
`tlapm NetSession_proofs.tla`.

## 1. The system

The program starts one `GameServer` (a `NetServer`) with
`Start(..., logicMultithreaded = false, useSendIOPending = false)`; Config.ini sets
one worker to wait for, no timeout, and no pending sends. Its threads:

| thread | loop | does |
|---|---|---|
| acceptor | `MyAcceptProc` | accepts, takes a slot, sends the session to an authentication pipe, posts the first receive |
| workers | `MyWorkerProc` | completions of receives and sends; operations other threads posted |
| pipes | `NetPipe` | one frame after the other: users join, move in, move out, leave; their packet sets are handled; `OnUpdate` |
| timeout thread | `TimeoutProc` | disconnects sessions that are silent (off: Timeout = 0) |
| DB thread | `GameServer::DBThread` | executes the statements queued by the pipes |

### Components, their state and operations

| component | state | operations | talks to others by | hard because | correct when |
|---|---|---|---|---|---|
| Session slots (`NetSessionArray`, `NetSession`) | per slot: IOcount_ with the delete flag in bit 15, ID_, isIOCanceled_, socket, receive; stack of free indices, stamp | AllocSession, Initialize, AcquireSession, FindSession, Decrement/SubIOCount, SetDeleteFlag, Destroy, RecvPost, Disconnect | a 64-bit ID given to content | no lock: a reference is added to a slot before it is known whose it is; slots are reused at once | nobody touches a slot that is not his; a slot is released once, and always |
| Send path | sendQ_ (lock-free), sentQ_, isSending_, SENDSIGN messages | SendPacket, AsyncSendPacket, DisconnectAfterLastMessage, SendPost, OnSendComplete | posted messages, completions | any thread may become the sender; references travel with messages and with the kernel | packets leave in order, once; buffers live until the kernel is done |
| Pipes | userMap_, four queues, curPipe_/destPipe_/isMoving_ of session and user | RequestEnter/MoveOut/Leave, Join, Move, Leave, MessageProc, both MovePipes | queues between threads, one reference per move | disconnect, move and reuse cross each other in three threads | a user is in one place; it leaves once, from the pipe it is in |
| Job queue of a session | ring arr_, front_, rear_ | Enqueue (worker), Dequeue and ClearJobQ (pipe) | shared indices without a lock | Clear writes what the worker writes | sets are handled in order and only for their session |
| Login | onlineMap_, account of each user, DBQueue_, table `character` | ReqLogin, ReqCharacterSelect, OnUserJoin/Leave/MoveOut, DBSave, DBThread | MovePipe, Disconnect, the DB queue | duplicates, failures half way, moves, a read that races a queued write | the entry a user releases is its own |
| Load balancing (`PipeManager`) | pipes per code, how often each was found empty | FindPipe_LoadBalanced, AutoCreate, DestroyZeroUserPipe, RevivePipe | a lock for choosing and collecting | sizes are read while pipes run; nobody counts who is on the way | a pipe is always found; none is stopped under a user |
| Send queue (`LockFreeEnqQueue`) | linked nodes, head, tail with a stamp | Enqueue by any thread, Dequeue by one | compare-and-swap | nodes are freed and come back, here or in another queue | nothing lost or doubled, in order |
| Memory pools (`MemTLS`, `ChunkLockFree`) | a list per thread, a stack of chunks | Alloc, Free, TLSClear, GarbageCollect | compare-and-swap, a flag | blocks cross threads; headers and stamps come back | a block is in one place |
| User map (`MyRedBlackTree`) | nodes, root, size | Insert, Delete, Foreach | called by its pipe only | two repair loops with eight cases each | a set that is walked in order, balanced |
| Packet framing and codec | receive buffer, packet set, header, key, checksum | RecvPost, CompleteRecv, RegisterPackets, CopyRemainderToNewPacket, PacketProc | bytes; sets handed to the pipe | any cut of the stream; two threads on one buffer; every error path leaves the buffer to someone else | what was sent is what is read |
| Game pipe and sector maps | players, monsters, crystals, two maps from sectors to them | move, attack, sit, pick up, die, restart; spawn, chase, remove | packets to every client around | an object is in several structures, and remembers where it was a frame ago | every object is filed where it stands; a client is told of what is around it |
| Lan server and client, Net client | as NetServer | | | a second copy of the protocol | as NetServer |

The hazards of this code, each at its line, are listed in `PROJECT.json` with the
properties that answer them.

## 2. The modules

| module | models | composed with |
|---|---|---|
| `SessionLease` | abstract: a slot is leased under a fresh identity, shared, ended when nobody uses it | implemented by `NetSession` |
| `NetSession` | the slot protocol, one action per interlocked operation | |
| `NetSession_proofs` | theorems about `NetSession` | extends it |
| `NetSend` | the send path of one session | `NetSession`'s counting, for a session that sends |
| `NetSend_proofs` | theorems about `NetSend` | extends it |
| `UserJourney` | abstract: a user passes an authentication pipe and a game pipe | implemented by `NetPipe` |
| `NetPipe` | pipes, queues and moves; a session is the counted object that `SessionLease` describes | |
| `NetPipe_proofs` | theorems about `NetPipe` | extends it |
| `Fifo` | abstract: a bounded queue | implemented by `JobQueue` |
| `JobQueue` | `QueueWithoutCount` and `ClearJobQ` at the grain of single reads and writes | |
| `AuthLogin` | handlers and online map of the authentication pipe, characters in the database | moves and leaves as `NetPipe` has them |
| `GamePipe` | the game: players, monsters, crystals, the sector maps, what each client is told | a frame as `NetPipe` has it, with its users and their messages as inputs |
| `GamePipe_proofs` | theorems about `GamePipe` | extends it |
| `NetRecv` | the receive buffer, packet sets, the way of a stream from the wire to the handlers | the receives of `NetSession`, the sets of `NetPipe` and `JobQueue` |
| `NetRecv_proofs` | theorems about `NetRecv` | extends it |
| `LockFreeEnqQueue` | the send queue, node by node, with a pool that other queues share | the queue of `NetSend` |
| `Queues_proofs` | theorems about `JobQueue` and about `LockFreeEnqQueue` | extends both |
| `MemoryPool` | MemTLS over ChunkLockFree, with a heap that hands out what was just freed | the pool of `NetRecv`, `LockFreeEnqQueue`, `GamePipe` |
| `MemoryPool_proofs` | theorems about `MemoryPool` | extends it |
| `OrderedSet` | abstract: a set walked in order | implemented by `MyRedBlackTree` |
| `MyRedBlackTree` | Insert and Delete with their repair loops, round by round | the user map of `NetPipe` |
| `PipeManager` | the pipes of a code that are made and stopped while users choose among them | the pipes of `NetPipe`, from outside |
| `PipeManager_proofs` | theorems about `PipeManager` and about `AuthLogin` | extends both |
| `MC...` | instances for TLC | |

A thread is a program counter `pc[t]` and the session in hand; an action is what
happens between two accesses to shared memory. `Goto(t, from, to)` is the guard and
the next position. Definitions named `...Not`, `...Twice`, `...Keeps` and so on
whose comment starts with "Mutant:" are wrong variants of an action; no
specification uses them, the mutation tests in `PROJECT.json` do.

**NetSession.** `FindSession` adds the reference (NetServer.h:478), `AcquireDead`
and `AcquireID` are the two comparisons, `DecrementIOCount`/`SubIOCount` give back
and remember whether they saw zero, `ReleaseSession` is the compare-and-swap of the
whole word with zero (`SetDeleteFlag`), `Destroy` and `PushSessionIndex` bury the
slot. `InitializeCount` to `InitializeAlive` are the separate stores of
`NetSession::Initialize`. `RecvPost`, `WSARecv`, `RecheckCanceled` are the receive
with its second look at the cancel flag. The kernel completes a receive with data,
with an orderly end, with an error, or, if it was canceled, as aborted.

**NetSend.** `First` and `Second` are the threads that hold one and two references:
the protocol adds two before a send and gives one or two back depending on how
WSASend ended and on `isSendIOPending_`, which is chosen at the start. WSASend may end in
the other way all the same (`Surprises`), and then the count goes wrong: `sendRefs` are the
references that were left for its completion, `miscounted` is how far the count is off.
Packets are numbers; `accepted`, `wire` and `freed` record their order and their end.

**NetPipe.** `phase[p]` is the position of a pipe in its frame, `visit[p]` the users
whose messages it still has to handle. `Accept`/`RequestEnter`, `Join`,
`MovePipe`/`MoveOut`/`MoveIn`, `AfterPipeEnter`, `MoveEnd`, `Leave` follow the code;
`GiveBack`, `ReleaseSession`, `DeleteSession` are the end of a session, which asks
the pipe of the user to let it leave.

**JobQueue.** The worker's Enqueue is `FullFront`, `FullRear`, `Store`, `ReadRear`,
`WriteRear`; the pipe's Dequeue `LookEmpty`, `TakeSlot`, `ClearSlot`, `Advance`,
`Use`; Clear `ResetFront`, `ResetRear`.

**AuthLogin.** One handler of a packet is one action, for they all run in the
pipe's thread; `BeginSet` and `EndSet` bracket the packets of one set, during which
the user may ask to move and go on. Its definitions that every specification has are called
`LoginInit`, `LoginNext` and so on, so that one module can extend it and another.
A client sends what it likes when it likes: `ReqCharacterSelect` asks neither for a login
nor whether the user was told to select. `MaxSaves` bounds the INSERTs waiting, for a set
may hold any number of selects. `Accounts` are those the account database has; an
unknown one ends in AuthPipe_CS_Stub.h:107, which reads a row that is not there.

**NetRecv.** A byte is the number of its message, its place in it and whether it was
decoded: enough to tell what a handler reads. `CompleteRecv(n)` takes any number of
bytes the posted receive has room for; `RegisterPacket`, `RejectStream` and
`StopRegistering` are the loop of `RegisterPackets` with its exits, `KeepPacket` and
`CopyRemainder` the two ways to the next buffer, `HandOver` the end of the completion.
A message has a size, up to one more than allowed, and a right or wrong code and
checksum. A freed buffer is overwritten at once: another session has it. A handler may
refuse its packet (`HandlerFails`: the rest of the set is freed unread, the session
canceled, the sets in the queue stay), and a move frees the sets in the queue
(`ClearJobQ`, in one step here; the races of its steps with an Enqueue, see 6(e), are in
`JobQueue`). `dropped` remembers the messages that leave so.

**LockFreeEnqQueue.** `ReadTail`, `ReadNext`, `Link`, `AdvanceTail`, `Help`,
`IncrementSize` are the accesses of one round of Enqueue. `OtherEnqueues` and
`OtherDequeues` are the queues of other sessions, which take nodes from the same pool.
Three variables are history: `order` has the items as they were linked, `chain` the
pointers by which nodes are in the queue, from `head_` on, and `late` says whether an item
was linked behind a node that had left the queue and come back, see 6(m). Names that
every module has begin with `SendQ` here (`SendQInit`, `SendQSpec`), so that `Queues_proofs`
can extend both queues of a session.

**MemoryPool.** The list of a thread is private to it; `why` says on whose behalf a
chunk is taken or pushed (Alloc, Free, the end of a thread, the collection). A stamp
counts modulo `StampCount`, which is small enough to wrap; `since` counts the changes of
the top since a thread has read it, `fooled` the same at a swap that should have failed.
The difference of the two counters (ChunkLockFree.h:400) takes two loads, `ReadCounter` and
`GarbageCollect`; which comes first is the compiler's choice, and `loaded` keeps it.

**MyRedBlackTree.** A round of `InsertFixup` or `DeleteFixup` is an action; mirrored
cases are one definition with the side as a parameter. Deletion copies the code's
transplant through the shared NIL node, whose parent it writes.

**PipeManager.** `stage[u]` is how far a user is on its way to a pipe, `manager` where
the manager's thread is between `Sleep`s. `LookAt` is the visit of one pipe by a choice,
`CountZeroUsers` and `CheckZeroUsers` the two looks of a pass at one pipe, between which
the pipe goes on. `Patience` bounds how many passes a way may last: the code has no such
bound, only five seconds between passes.

**GamePipe.** `phase` is the part of the frame: users move in, users leave, messages, then
the parts of `OnUpdate` (remove, generate, monsters, refile, attack) and `OnUserUpdate`. A
walk over objects takes one action per object (`todo`), for what happens to one decides what
happens to the next. A player is the block of memory it lives in, which keeps its contents
when it is freed until the pool gives it out again (`PoolReuses`): monsters keep pointing to
it. `Shift` is `UpdateSector(PipePlayer*)` with the six functions it calls; `told[b]` adds
up, for each ID, the create packets that were sent to the client less the removes. It is a
sum because their order is not kept: a packet to one session is in its send queue at once
(NetServer.cpp:374-399), one to a set of sessions is posted and queued later by any worker
(401-440, 1103-1133). `Halt` stops the thread in the middle of a walk, where the code quits
on an assertion, traps, or never returns. Messages of different users may alternate within a
frame, where the code handles one user after the other: every order of the code is among
them.

## 3. The runs

| run | instance | shows |
|---|---|---|
| `session` | 1 slot, 2 sessions, 2 workers, 1 caller, acceptor | the invariants of the slot, that the protocol implements `SessionLease`, and that a canceled session gives its slot back |
| `send` | 1 sender, 2 workers, 2 packets, queue of 1, both modes, WSASend done at once, pending or refused in each | count and how far it is off, one drain at a time, send flag, order, nothing freed or recycled under the kernel |
| `send_live` | 1 sender, 1 worker, 2 packets, both modes, no surprises | a canceled session is released, whatever is queued or in flight |
| `recv` | 3 messages of 0 to 3 bytes behind a header of 2, buffers of 14, sets of 2, 2 connections, 4 buffers | handlers read what was sent, in its order, however it is cut; what they miss is the rest of a set they refused, or was freed by a move; each buffer has one holder; no position overruns |
| `queue` | 2 producers, 3 items, 4 nodes, one of which visits another queue | until an item is linked late: nothing lost or doubled, order, and no producer waits for another |
| `pool` | 2 threads, chunks of 2, one to begin with, 6 operations, 4 stamps | every block in one place, a swap is fooled only after a full turn of the stamp, the counters agree |
| `tree` | every sequence of insertions and deletions of 7 keys | red-black after every call, the loops end, the tree implements `OrderedSet` |
| `pipe` | 1 slot, 2 sessions, 1 authentication pipe, 1 game pipe, 1 worker | one place per user, who leaves where, nothing left in a recycled slot, no fatal check reached; the pipes implement `UserJourney`; a move arrives, a client that is cut off leaves |
| `pipe_manager` | 2 users, at most 2 pipes and one that stops, the counts of the code (3, 10), 7 passes of patience | nobody is left behind in a pipe that stops; a pipe always stays |
| `jobq` | ring of 4, 5 sets, 2 sessions, one move each or none | order, never a set of another session, even around a Clear that the worker overtakes; without moves the ring implements `Fifo` and every set comes to an end |
| `login` | 3 sessions, 2 accounts, one of them with a session key, one with a character | the entry of a logged-in user is its own; moving out misses it only for a user that never logged in |
| `game` | strip of 3 sectors, 2 players, 1 monster at a time, 4 client IDs | both sector maps agree with the objects, what each client is told adds up to what is around it, no chase meets a fatal player and never returns |

*Bounds.* Two sessions on one slot are what reuse needs: an old ID meets the new
session; several slots only repeat it, for no operation touches two, except that the
acceptor chooses one. In `send` two workers and a sender let a completion, a posted
operation and a direct send overlap; a queue of one makes it full with two packets.
A second sender on top brings 3.7 million states and found nothing more. In `recv` a
buffer holds less than two longest packets on each side of its middle, so remainders
of every length up to the limit come up, and sets of two fill; four buffers are one in
the session, one in a set that waits, one in the set that is read, and the next. In
`queue` four nodes make a freed node come back while an enqueuer still has its address;
three items let one be in the queue, one be linked behind it and one leave. In `pool`
four stamps wrap within six operations, and a thread that sleeps as long is fooled:
`OnePlace` and `CountersAgree` are about the behaviours before. With seven keys every
case of both repair loops occurs, also twice in one call. In `pipe` one queued set per
session is enough for a set to outlive its session or its move; two slots side by side
take TLC beyond five minutes and share nothing but a pipe's queues, which one slot used
twice fills with two users as well. In `pipe_manager` the counts are the code's own; with
`Patience = 8` a user is lost. A ring of four has three usable places: five sets wrap it.
`Moves` is chosen at the start, 0 or 1. Three sessions on two accounts give an owner, a
rival, and a third that comes after both. In `game` a strip of three sectors is the least
in which two are not around each other; clients stand at its ends, restart in the middle.
Four IDs are two players and a monster and its crystal, or a player who comes back, or a
monster that replaces another; one player sits (`Sitters`). A second dimension and a
second monster are left to smaller models (section 8). ResPlayerRestart is assumed to
clear the scene of the client that gets it. Sectors have one tile here; the line a
monster follows (`Toward`) is then along the strip.

*Deadlock* is checked where the system cannot stop (`session`, `send`, `send_live`,
`pipe`, `pipe_manager`, `tree`). NetRecv, LockFreeEnqQueue, MemoryPool, JobQueue,
AuthLogin and GamePipe stop when their bounded supply of messages, items, operations,
sets, sessions or IDs is used up, or when the process ended itself, hence
`CHECK_DEADLOCK FALSE`.

*Symmetry* is used only in runs without temporal properties (`send`, `recv`, `login`,
`pipe_manager`).

## 4. Fairness

Threads and kernel owe progress, clients and content owe nothing.

- `NetSession`, `NetSend`: every thread in the middle of an operation goes on (WF); a
  canceled overlapped operation completes; a completion in the port is taken by some
  worker. `session` has one caller: callers that look the same session up in turn,
  for ever, keep its count from ever being seen at zero, which no scheduler of the code
  prevents. `send_live` leaves DisconnectAfterLastMessage out, see 6(d), and has
  `Surprises = {}`: a session whose reference is left over is never released, see 6(b).
- `NetPipe`: a pipe thread goes on with its frame; a packet set is finite
  (`SF(SetDone)`); and a client does not fill its queue as fast as the pipe drains it
  (`SF(NextUser)`), for `DequeueJob` stays with a user until its queue is empty
  (NetPipe.cpp:210). A worker takes the completion of a canceled receive, among others
  that keep arriving (SF).
- `JobQueue`: worker and pipe go on, and frames come to the user.
- `LockFreeEnqQueue`: only the producers in `Running` go on; all others may stop
  anywhere, which is what lock-freedom is about. In the run one of two runs. Once an item
  is linked late `EnqueueEnds` promises nothing: `tail_` may be on a freed node then.

## 5. The proofs

`NetSession_proofs` shows, for any sets of slots, workers and callers and any bound on
sessions, from the assumptions of `NetSession` (finite sets of threads, the acceptor a
thread of its own, the bound a natural number):

| theorem | says |
|---|---|
| `TypeCorrect` | `Spec => []TypeOK` |
| `InvariantHolds` | `Spec => []IInv` |
| `CountCorrect` | IOcount_ is the number of references |
| `NoUseAfterReleaseHolds` | who acquired a session has it until he gives it back |
| `OneOwnerHolds` | one thread at a time builds or buries a slot |
| `OneReceiveHolds` | one receive at a time |
| `NeverErrorQuitHolds` | the fatal checks of abort and socket are not reached |
| `CancelReachesReceiveHolds` | no canceled session keeps a receive nobody cancels |
| `ReceivesAreSafeHolds` | the last three together, as the run checks them |
| `FreshIDs` | an ID is issued once |
| `Refinement` | `Spec => ImplementsLease` |

*The argument.* No property is inductive alone. A slot is not released under a user
because its count is not zero (`CountIsReferences`), and the count is right only if
every thread that holds a reference is where the program counter says, which needs
`NoUseAfterRelease` for the acceptor's reset of the count, and `OneOwner` for the claim
that nobody else builds the slot. `IInv` adds two parts that no run would ask for by
themselves. `Lifecycle` is the life of a slot: alive means open and named; a thread
that has seen the slot alive while it holds a reference will find it alive; the ID in
the making was never issued. `AbortsAreCanceled` says that the cancel flag precedes
every CancelIoEx; `NeverErrorQuit` rests on it. `ZeroMeansUnused` is the heart: a
count of zero leaves no thread in `First` or `Second` and no receive. The counting
lemmas (`MoveOne`, `RefsMove`) reduce an action's effect on three cardinalities to the
one thread that moves. Each conjunct has a lemma with one step per action.
`Refinement` maps an accepted, not yet flagged slot to a lease, and the threads in
`Using` together with the receive to its users; `AliveOpens`, `ReleaseEnds` and
`OneSlotShares` are the three kinds of steps that are not stutters.

`NetSend_proofs` shows, for any finite sets of threads, any number of packets, any length
of the queue and both values of `isSendIOPending_`:

| theorem | says |
|---|---|
| `TypeCorrect` | `Spec => []TypeOK` |
| `CountTheorem` | IOcount_ is the number of references, plus those left over (`CountIsReferences`) |
| `OneDrainTheorem` | the send flag has one owner, a thread or the kernel |
| `FlagNotLostTheorem` | a set flag will be reset, or the session is canceled |
| `SentInOrderTheorem` | packets leave in the order of Enqueue, none twice, none skipped |
| `BuffersLiveTheorem` | no packet is freed twice or under the kernel |
| `NeverCrashedTheorem` | the kernel aborts nothing of a session that was not canceled |

*What they say when WSASend ends in the other way* than the server was started for
(NetServer.cpp:815-829, 902): where sends are expected to be pending, every one that was
done at once leaves a reference over for good, where they are not, every one that was
pending and then succeeds leaves one missing. `CountIsReferences` has the count with that
number (`miscounted`) and says on which side it is off in each mode. All that the theorems
claim of the flag, the order and the kernel holds whatever WSASend returns as long as no
reference is missing (`NoneMissing`), so always where sends are expected to be pending; after
that the session may be released under the kernel, as 6(q) says. `FreedOnce` and the types
hold even then.

*The argument.* The count cannot be right alone: a session that died must be quiet
(`DeadQuiet`), because its word was zero when it died and a message or a completion that
still came would take it below; and what one and two references are given back for must
be what was left of the send (`Refs`). `Miscount` has the side on which the count is off and
that what is missing stays missing, so that a step after which none is missing began where
none was (`MiscountStep`). Order needs more than `SentInOrder` says of what has been sent:
`Ordered` has the packets that were sent, that the owner of the flag has in hand and that
wait, one behind the other; `InFlight` says which of them the kernel has; `OnePlace` that
each packet that was accepted is in one of these places or was freed. `CanceledFirst` is the
order of two stores (NetSession.h:244, 250) on which `NeverCrashedTheorem` rests.

`NetPipe_proofs` shows, for any finite sets of slots, authentication pipes, game pipes and
workers and any bound on sessions and on waiting sets:

| theorem | says |
|---|---|
| `TypeCorrect`, `InvHolds` | `Spec => []TypeOK`, `Spec => []IInv` |
| `NeverErrorQuitTheorem` | none of the fatal checks of NetPipe.cpp:127-217 is reached |
| `OnePlaceTheorem` | a user is in one map or on the way to one, as long as it lives |
| `LeavesFromItsPipeTheorem` | a session leaves once, from the pipe of its user, after its moves |
| `RecycledIsForgottenTheorem` | nothing of a session is left when its slot is free |
| `JourneyTheorem` | `Spec => ImplementsJourney` |

*The argument.* The one fact that carries everything is that a move is counted:
`Counted` says that a session's count is the number of threads that hold it, plus one for
its receive, plus one while it moves. So a session between two pipes does not die, and
`Settled` can say of every other live session that its user is in the map of `curPipe_`.
Whoever gives the last reference back therefore finds a pipe to tell, and `Ending` says
that one thread does. `Filed` is what holds of a user in a map, and has two cases: before
`AfterPipeEnter` the session still names its destination, afterwards its pipe. Each queue
has a predicate for what is in it, as its sender left it and nobody has changed since
(`Joins`, `MovesOut`, `MovesIn`, `Leaves`), and has nobody twice. `Receiving` is the least
expected part: two threads may not both be about to post a receive for a session, or the
count of one would stand for two. `Clean` says of a free slot that its queue of jobs is
empty and of a used one that the jobs are the session's, without which the check of
NetPipe.cpp:216 would be reached. Every action has a lemma with a step per conjunct.
`JourneyTheorem` needs no more than `IInv`: six actions are steps of `UserJourney`, the
others leave every user's place as it is. The death of a session changes nobody's place,
since its user is in a map then (`GiveBackStays`).

`Queues_proofs` shows, of `JobQueue`, for every size of the ring of at least two, any number
of moves, sets and sessions:

| theorem | says |
|---|---|
| `TypeCorrect` | `Spec => []TypeOK` |
| `HandledInOrderTheorem` | sets are handled in order, none twice, none that was freed |
| `OwnSessionTheorem` | a pipe handles only sets of the session that has the slot |
| `FifoTheorem` | `Spec => ImplementsFifo`: without moves, a bounded queue |

*The argument.* A set in a place between `front_` and `rear_` is `Good`: later than all
that was handled or freed, of this session, and before the one in the worker's hand. This
would be the usual invariant of a ring, if Clear did not write `front_` and `rear_` while the
worker has read them. `Latest` says that the worker's set is the latest of all and of the
session that has the slot, `Room` that the place it stores into is free unless a Clear is half
done. An index the worker still holds after a Clear leads to places whose sets were not freed
only with both indices at zero, and what becomes visible then is in order (`InOrder`) and new
to the pipe (`Fresh`). For the refinement `Calm` adds that without moves the only Clear is
the one of a destruction, on an empty queue, and that what the worker stored is still in its
place; a set the pipe has looked at but not yet stepped over counts as waiting.

`NetRecv_proofs` shows, for any sizes of header, longest message and buffer of which
header + message + 1 is less than half a buffer (the code: 5 + 512 + 1 < 4096), any
buffers and any stream:

| theorem | says |
|---|---|
| `UnreadIsShort` | `Spec => []IInv` |
| `NeverOverrunsHolds` | a posted receive has room, what comes fits, and so does what is left over |
| `OneHolderHolds` | when no worker is inside a completion, a buffer is free or has one holder |
| `ReadsWhatWasSentHolds` | handlers read what was sent, in its order, none twice, decoded once; missing is only what a refused set or a move dropped |

*The argument.* That a receive has room does not follow from how much the last one
had: a buffer that is kept (`KeepPacket`) fills up. It follows from what is unread.
Between receives less than one longest packet is unread, because `RegisterPackets` only
stops in the middle of a packet whose size it has already accepted, or of a header; and
it begins no later than the middle, because otherwise it would have been moved. For
"whose size it has accepted" the invariant has to know that the bytes of a header are
those of a message that was sent, so it says so of everything between the read and the
write position, which is where copying, overwriting by other sessions and decoding in
place could do harm.

For `OneHolder` the invariant says who has each buffer (`OInv`): it is free, the
session's, or of one set, in the queue, in the handler's hands or about to be handed
over; the set that is being filled points to the session's buffer, which is why
`FreeingPacket` must know whether that set is empty. For `ReadsWhatWasSent` it says what
is in the buffers (`RInv`). Each packet of a set points to the decoded payload of the
message whose header it had (`Sound`). What was read, the set in the handler's hands, the
sets of the queue and the one that is filled hold messages that rise (`InOrder`), none of
them dropped, and every message before the next to be registered is in one of these places
or dropped (`Somewhere`); so a step that drops a set, wherever in the line, breaks neither.
The unread bytes and those on the wire are one stream, which is the messages
from the next one on: there are offsets `off`, message k lies at `off[k]` and is not
decoded yet. What a set points to ends where the unread part begins (`Filled`), so
decoding the next packet in place, receiving behind it and moving the remainder to
another buffer do not touch it; and what is left between receives is not a whole message
(`NotWhole`), so nothing is missing once all of it has come. The offsets are a sum over
messages; the invariant says that they exist and how neighbours differ, because the
provers cannot unfold a recursive sum.

`PipeManager_proofs` shows, for any finite sets of users and pipes and any two counts
with `ChosenUpTo + Patience <= StoppedAbove`:

| theorem | says |
|---|---|
| `InvariantHolds` | `Spec => []IInv` |
| `NobodyLeftBehindHolds` | nobody is in, or on the way to, a pipe that was told to stop |
| `SomePipeStaysHolds` | a pipe is always found, and pipeCount_ counts the list |

*The argument.* The pipe somebody is on the way to was found empty at most
`ChosenUpTo` times when it was chosen and at most once in each pass since (`Ways`, one
less while the pass has not come to it): never more than `StoppedAbove`. A pipe that was
found empty more often therefore has nobody on the way, and stays empty until the pass
is over (`Found`). Both need that nobody chooses during a pass (`Locked`), and that
what a choice has in hand is still in the list and still low (`Choices`). For the last
pipe of a list only the first branch of `DestroyZeroUserPipe` matters: what is removed
is never all of it.

`PipeManager_proofs` also shows, of `AuthLogin`, for any sessions, accounts, keys and
characters:

| theorem | says |
|---|---|
| `LoginTypeCorrect` | `LoginSpec => []LoginTypeOK`, for any client |
| `EntryTheorem` | a user of the pipe that has logged in has its own entry in the online map; moving out misses the entry, and ends the server, only for one that never logged in |

*Assumption.* None about clients: they may select a character before they log in, log in
again, or go, at any time. (`AuthPipe.cpp:47-48` is reached by the first, see section 6.)
*The argument.* `EntryOfPlayer` is nearly inductive. It lacks that one who has not joined
has no account (`NotYet`), and that the set that is handled is of a user who has not left
(`CurInAuth`).

`Queues_proofs` also shows, of `LockFreeEnqQueue`, for any number of producers, nodes and
items, and any length at which the queue counts as full:

| theorem | says |
|---|---|
| `InvariantHolds` | `SendQSpec => []SendQInv` |
| `NothingLostHolds` | until an item is linked late: what was linked has left or is in the queue, once, in order; no node of the queue is in anybody else's hands |
| `OrderKeptHolds` | until then items leave in the order of their Enqueue |

*The argument.* The pointers by which nodes are in the queue have stamps that count up
(`Stamps`): one more than what the enqueuer read of `tail_`, and that is the last node,
unless it links late. So a stamp names one pointer for good, an enqueuer whose swap of
`tail_` succeeds has compared it with the very pointer it read (`Seen`), and what it swaps in
is the next one (`SwapsForward`). `tail_` is never more than one behind, and off the node
that Dequeue frees (`TailIsNear`). That `next` alone tells an enqueuer that it is at the end
needs `Ends`: only the last node and private ones point to the queue itself; the first case
is the good one, the second is late. `Unused` keeps what the pool never handed out from being
read as an end, `Content` ties the nodes to `order` and `out`, and `ItemOnce` and `Before`
follow the items. No step needs induction: the chain is a sequence in the state, and an
action appends to it or takes off its first element.

`MemoryPool_proofs` shows, for any threads, any size and number of chunks and any number of
values of the stamp:

| theorem | says |
|---|---|
| `InvariantHolds` | `Spec => []IInv` |
| `FooledOnlyByWrapHolds` | an old pointer passes for the current one only after a full turn of the stamp |
| `OnePlaceHolds` | until then every block is in one place and every chunk of the stack is full |
| `CountersAgreeHolds` | until then, whenever no thread is inside the pool, the two counters are the chunks that exist and those outside the stack |

*The argument.* What a thread has in hand when it swaps is what it read lines before, and
the header it read may be freed, filled and pushed again in between. `StampSince` says how
far the stamp of `topChunk_` has moved since: by as many as there were swaps, as long as
they are fewer than its values, so equal stamps mean no swap or a full turn
(`FooledOnlyByWrap`). With no swap in between, `Seen` says that what was read is what is
there, for only a thread with a chunk in its hands writes `nextChunk`, and that chunk is
not in the stack. The stack is the least of all sets that have the top and with each chunk
the one behind it: defined so, rather than as a walk, it can be reasoned about without
induction. That popping takes away one chunk, and not a tail of which something else is
still reached, needs `OnePath`: no two chunks of the stack are in front of the same one.
`Hands` and `Full` divide the headers into the stack, the hands of one thread each and the
heap. The places of blocks are a function that exists (`Blocked`); an action moves a set of
blocks to new places (`BlocksMove`) and leaves the rest, also where a list is cut or joined
(`CutList`, `JoinLists`). Only `GoodIsOnePlace` counts: a block that is at its place and
nowhere else, in lists that have nothing twice, has one copy.

The counters need an invariant of their own (`Counted`), for they agree with the chunks only
between operations. `chunkCapacity_` is the number of chunks made, less those that went back
to the heap, plus one for each chunk that a collection took and has not subtracted yet;
`chunkUsed_` is the same less the chunks that have their blocks in them, and each collection
corrects it one step before the other. How many chunks a collection takes does not matter: it
reads the counters in two steps, in either order, and whatever difference it finds (`Loaded`:
a number) it takes that many and subtracts that many. What the collections still owe is a set
of pairs of a thread and a number (`Collected`, `Uncorrected`), so that no sum over threads
is needed: a chunk taken adds a pair, a subtraction takes away those of its thread. When no
thread is inside, nothing is owed, and `AllBlocks` adds up the places of blocks:
`AsManyBlocks` says that lists without repetition have as many blocks as places.

`GamePipe_proofs` shows, for a field of any size, any number of players and IDs, any spawn
points and starting positions in it, any damage, and any sector that memory may hold from the
object that lived there before:

| theorem | says |
|---|---|
| `InvariantHolds` | `Spec => []GInv` |
| `TypeCorrect` | `Spec => []TypeOK`: among it, that a monster never leaves the field |
| `FiledWhereItIsHolds` | players and objects are filed once, where they are, or were before the move of this frame |
| `TellsWhatIsAroundHolds` | a client was sent one create more than removes for its player and for what is in the nine sectors around, and as many of both for all else |
| `NeverOverflowsHolds` | no monster finds a player whose HP are used up |

*The argument.* What a client was told is the sum of packets that handlers sent as they went
along, so it is proved by comparing, in every action, who was told with who sees the
difference. The sum is zero or one for every ID (`Exact`), which allows to speak of the set
of what is `shown` when all has come, and of `Shows`, that this is what is around. A mover
tells the sectors around its old place less those around its new one, and the other way
round; that this is all, and for everybody, is `ShiftTells`: being around is symmetric
(`AroundIs`), so who sees the mover is who the mover sees. It is only true if the mover's ID
is nobody else's, hence `Unique`, and if the map has it in its old sector, hence
`PlayersFiled` and `ObjectsFiled`. A monster is filed in its old sector between its move and
its refiling (`Moving`), which the walks of a frame have to end before a message is handled
(`Walks`); a crystal is filed in the sector of the monster's tile, so `Placed` says that
sector and tile agree. The destroyed must be gone before monsters move (`Swept`): a destroyed
object is filed and seen by nobody, and to move it would show it. That a chasing monster
stays in the field, where `SectorOf` has a value, is arithmetic: a step along the line, with
its division that truncates, ends between monster and player (`SlopeStays`, `TowardIn`).
Nobody is told twice: a monster whose memory names no sector tells everybody around its new
place, and had nobody around before, or it would have hunted him (`KnownOnce`).
`NeverOverflows` follows from `Alive`: HP are used up only between the attack and the end of
the same frame, and monsters move before. The sector of a monster's own first frame is memory
that nobody wrote (`LeftOver`); the theorems hold for any of them, since the process ends
itself where that sector is not the right one (`NotErased`).

*Constants.* What the proofs assume of constants is stated in the modules, by name, and
holds in every run: finite sets of threads and slots, pipes and threads that are not each
other, numbers that are natural, and a `None` or NULL that is nothing else
(`PipeAssumption`, `SizeAssumption`, `NoneAssumption` and so on). What is assumed of clients
is an assumption of the theorem that needs it.

Only model-checked: liveness everywhere, since fairness and ENABLED are out of the
prover's reach; `MyRedBlackTree` with its refinement of `OrderedSet`, whose `RedBlack` counts
along paths of any length, which takes induction over the tree.

## 6. Known behaviours of the code

Seen while modelling, not the subject of a run. The runs exclude or bound them as said.

- (a) A packet enqueued between the drain's last look and the reset of the flag waits
  for the next SendPacket (`FlagNotLost` promises no more).
- (b) With `isSendIOPending_` on, a send that succeeds at once leaks a reference, and the
  session is never released. `send` counts them (`miscounted`).
- (c) IOcount_ is a 16-bit field updated by 32-bit InterlockedAdd: a carry goes into padding.
- (d) SendAndDisconnectPost spins while the flag is set and the queue is not empty; a
  completion that finds the session canceled leaves the flag set. The game server never
  calls it.
- (e) ClearJobQ of a move races the worker: an empty queue can pass for full and end the
  process (Queue.h:128-154), a set can get lost, or an empty place can be taken for a set.
  `jobq` shows what holds in spite of that.
- (f) An account leaves the online map when its user moves into the game, so a second
  login is let in; and a login that overtakes the account's INSERT is told that the
  character does not exist.
- (g) DBSave drops a job when its queue is full; the stop path of a pipe does not drain
  `joinQ_` (NetPipe.cpp:115), see `PipeManager`; DeleteAllPipe takes its
  lock twice; lines 599-605 of NetServer.cpp cannot be reached.
- (h) An idle monster that stays keeps the old and new sector of its last move; if they
  differ MoveMonster files it again, and SectorMap::RemoveFrom quits on its assertion
  ("Not Erased", SectorMap.h:272). A new monster's `oldSector_` is not initialized at all
  (BaseObject.h:33) and can do the same. `game` has both, as halts.
- (i) A chase goes on after its player died, since OnUserUpdate restores HP at once
  (GamePipe.cpp:163) and isFatal asks for HP; and after it left, until its block is used
  again (Monster_FSM_State.cpp:75).
- (j) The slope divides by zero in the column of the player (Monster_FSM_State.cpp:90), and
  a monster with walls all around it draws tiles for ever (56).
- (k) Attacks hit only monsters farther away than the attack distance
  (GamePipe_CS_Stub.h:191, 252); ReqAttack2 takes 5 HP and announces 20 (262, 280).
- (l) The monster classes do not compile as they stand: Monster.h:7 declares a global
  GamePipe that Monster::Move takes, Monster.cpp:33 defines it with
  MyNetwork::GamePipe, and the copy constructor leaves out `context_`.
- (m) An enqueuer that read `tail_` and sleeps until that node has left the queue and come
  back finds it pointing to its own queue (LockFreeEnqQueue.h:93, 107), whatever stamp it is
  known by now, and links its item behind it. If the node is still private, the item comes
  into the queue with it and may overtake another. If it is the last node again, under a
  newer stamp, the item is linked in its place, but under a stamp that was used before:
  `tail_` can then take a value it has had, and a second enqueuer that has slept in its
  `Help` since that value moves `tail_` back to a node that Dequeue frees. Three producers
  and three nodes are enough, in fifty steps. The properties of `queue` hold until an item
  is linked so (`late`); in the code it takes a sleep in which the node goes round through
  the pool. That `NothingLost` needs this condition came out of its proof.
- (n) A set holds 300 packets, and a full buffer more than 400 of the smallest: a client
  that sends so many in one receive ends the process (NetPacketSet.cpp:39).
- (o) A stamp of the upper bits of a pointer comes round; a thread that slept through
  exactly that many changes is fooled (ChunkLockFree.h:270, LockFreeStack.h:106). `pool`
  reaches this with four stamps; the code has 2^16.
- (p) The drain loop of SendPost runs until it sees the queue empty, and other threads
  enqueue meanwhile: it can take more packets than `sentQ_` has places. The check
  (NetSession.cpp:161) comes after the writes, and the twin loop of
  SendAndDisconnectPost (216) has none.
- (q) With `isSendIOPending_` off, as deployed, a WSASend that is pending all the same
  gives one reference back at once and two with its completion, if it succeeds before the
  cancel reaches it: the count goes below zero, into its flag bit. `send` gets there;
  `CountIsReferences` says by how much the count is off, the other properties nothing from
  then on (`NoneMissing`).
- (r) A login that redis refuses leaves its entry in the online map
  (AuthPipe_CS_Stub.h:99); later logins of the account are duplicates of nobody until
  the process ends.
- (s) The context of a monster is constructed with `currentState_ = nullptr`
  (Monster.cpp:8) and `MonsterContext::Initialize` is never called. `game` supposes that
  it were (`Initialized = TRUE`).
- (t) AutoCreate asks `ForeachForSamePipe`, which walks the pipes of all codes
  (NetServer.cpp:623-628): a code gets another pipe because another one is overloaded.
- (u) Eight passes of five seconds on the way to a pipe would lose a user:
  `NobodyLeftBehind` rests on a way being shorter.
- (v) ReqCharacterSelect asks for no login (AuthPipe_CS_Stub.h:163-209). A user that selects
  before its login moves out under account 0, which the online map does not have, and
  OnUserMoveOut ends the process (AuthPipe.cpp:47-48). `login` has this as `crashed`, and
  shows that no other way leads there.
- (w) Packets reach a client in another order than the game sent them, if one went to a set
  of sessions. To sets go the removes of OnUserLeave (GamePipe.cpp:72), RestartGame (397) and
  ReqPick (GamePipe_CS_Stub.h:346), and the death of a monster and its crystal
  (GamePipe.cpp:914, 936). A player that is back at life is removed and created at once for
  those who stay around it; if the create is queued first, they lose sight of it until it
  leaves their sectors and comes again. Likewise a player that moves away from a crystal while
  its create is on the way shows it for good. `TellsWhatIsAround` is about the sum, which is
  right, and promises no order.
- (x) A client's position is taken as it says it: ReqMoveCharacter and ReqStopCharacter pass
  posX and posY on (PipePlayer.h:101-110), and the maps are indexed with the sector that
  results, unchecked (SectorMap.h:16-46). `game` has the positions of the field.

## 7. What is not modelled

- Start and Stop of the server: the program stops with its process. Pipes that stop
  alone are in `PipeManager`; DeletePipe and DeleteAllPipe are called by nothing.
- The clock: timeouts are a caller that may disconnect any session it has an ID of.
- Several pipes on one thread pool (`logicMultithreaded` is off).
- `ERROR_CONNECTION_ABORTED` and other completion errors beyond "aborted" and "other":
  the code treats them alike.
- `src/NetRoot/LanServer` (4,600 lines): a copy of NetServer for servers among
  themselves, which this program does not run. It differs in that a count under zero
  ends the process, that SendAndDisconnectPost sets the cancel flag itself, that the
  send flag is reset by a plain store, that packets have no code and checksum, and that
  its pipes are not managed. `LanClient` and `NetClient` are clients for tools and for
  the monitoring server.
- `SizedMemTLS` repeats `MemTLS` for blocks of a size given at run time;
  `LockFreeQueue.h` is a second queue that the server does not use; the loop of
  `LockFreeStack` is the one of the chunk stack in `MemoryPool`.
- `MyList`, `MyMultimap`, `RingBuffer`, `SwapQueue`, `QueueWithLock`: sequential or under
  a lock; used through what they promise.
- Logging, configuration, monitoring, profiling, crash dumps; `DBConnector` (calls of
  the MySQL client); the RPC generators and `CommonProtocol.h` (constants of other
  servers).
- Vendored libraries (two copies of cpp_redis, tacopie): about
  16,000 of the repository's 40,000 lines.
- In the game: rotation, names, levels, counters of crystals and experience, database jobs;
  which monsters an attack reaches is any choice; positions beside the field, see 6(x).

## 8. The plan

Done, in this order, because everything else stands on it: the slot and its proofs, the
send path, the pipes, the job queue, the login, the game; then the receive path and its
proofs, the send queue, the pools, the user map, the management of pipes and its proofs;
then the proofs for the send path, the pipes, the job queue, the login, what the handlers
read, the pools, the send queue and the game.

Next modules, in order of what they would add:

1. The game in two dimensions and with two monsters in smaller parts: the maps alone,
   the monsters alone against a fixed set of players.
2. DBSave with its bounded queue, over `AuthLogin`.
3. `LanServer` where it differs from `NetServer`.

Next theorems: that the sum stays right in the game of two dimensions with real distances,
once it is modelled; that the pipes of `PipeManager` implement what `NetPipe` assumes of
them.
