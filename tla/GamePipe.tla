------------------------------- MODULE GamePipe -------------------------------
(***************************************************************************)
(* The game of GamePipe.cpp: players, monsters and crystals on a field of  *)
(* tiles, filed by sector, and what each client has been told of them.     *)
(*                                                                         *)
(* One thread runs it, a frame at a time (NetPipe::MyWorkerProc): users    *)
(* move in, users leave, their messages are handled, then OnUpdate walks   *)
(* the objects and OnUserUpdate the users.  Everything that goes wrong     *)
(* here does so over several frames: a sector remembered from an earlier   *)
(* one, a player a monster still points to, memory that was used before.   *)
(*                                                                         *)
(* A player is the block of memory it lives in.  A client is told of       *)
(* objects by packets that create or remove one; told is their sum.  Their *)
(* order is not kept on the way: a packet to one session is in its queue   *)
(* at once, one to a set of sessions is posted, and a worker queues it     *)
(* later (NetServer.cpp:374-440, 1103-1133).                               *)
(* Left out: rotation, names, levels, the counters of crystals and         *)
(* experience, and the database jobs.  Which monsters an attack hits       *)
(* (distance, angle) is any choice among those it looks at.                *)
(*                                                                         *)
(* As the code stands a monster has no state and the first move ends the   *)
(* process (Initialized = FALSE).  What idle and chasing monsters do is    *)
(* modelled as if MonsterContext::Initialize were called when one is made. *)
(***************************************************************************)
EXTENDS Integers, FiniteSets, Functions

CONSTANTS
  SECTOR_X_MAX, SECTOR_Y_MAX, SECTOR_RATIO,
  Walls,           \* tiles of map_ that are 0
  monsterRespawn,  \* tiles new monsters start on
  Positions,       \* tiles a client says it is on, or the database remembers; nobody
                   \* checks them, and what is outside of the field is not modelled
  Spawn,           \* the tile of a resurrected player
  Blocks,          \* blocks of the pool that hold a PipePlayer
  Sitters,         \* bound: the blocks whose players ever sit down
  HP_MAX, MONSTER_DAMAGE,
  SavedHP,         \* HP the database remembers
  MonsterHP,       \* in hits
  MONSTER_GEN_MAX,
  Initialized,     \* TRUE if someone calls MonsterContext::Initialize; nobody does
  LeftOver,        \* what oldSector_ of a new object may hold: the block is not cleared
  MaxStamp,        \* bound: client IDs given out in a behaviour
  None             \* X_DEFAULT of a sector, nullptr of a player

VARIABLES
  playing,    \* blocks of the players in userMap_
  player,     \* what each block holds; it keeps it when it is freed
  object,     \* the objects, by client ID
  playerMap,  \* sectorMap_ of the pipe
  objectMap,  \* sectorMap_ of objectManager_
  stamp,      \* clientIDStamp_
  told,       \* for each player and ID, creates less removes sent to its client
  phase,      \* what the frame is at
  todo,       \* objects the current walk has still to visit
  moved,      \* movedMonster
  halt        \* why the thread has stopped: an ErrorQuit, a trap, an endless loop

fieldVars == <<playing, player, object, playerMap, objectMap, stamp, told>>
frameVars == <<phase, todo, moved>>
vars == <<fieldVars, frameVars, halt>>

-----------------------------------------------------------------------------
Sectors == (0..SECTOR_X_MAX-1) \X (0..SECTOR_Y_MAX-1)
Tiles   == (0..SECTOR_X_MAX*SECTOR_RATIO-1) \X (0..SECTOR_Y_MAX*SECTOR_RATIO-1)
IDs     == 1..MaxStamp

\* Tiles that are used are in the field, and memory holds sectors of it.  HP are saved when a
\* death has reset them or a rest has raised them, so the database has none that are used up.
ASSUME SizeAssumption ==
  /\ SECTOR_X_MAX \in Nat /\ SECTOR_Y_MAX \in Nat /\ SECTOR_RATIO \in Nat \ {0}
  /\ MaxStamp \in Nat \ {0} /\ MonsterHP \in Int /\ MONSTER_DAMAGE \in Nat
  /\ HP_MAX \in Nat /\ HP_MAX >= 2 /\ SavedHP \subseteq 1..HP_MAX
ASSUME FieldAssumption ==
  /\ Positions \subseteq Tiles /\ monsterRespawn \subseteq Tiles /\ Spawn \in Tiles
  /\ LeftOver \subseteq Sectors \cup {None}
ASSUME NoneAssumption == None \notin Sectors /\ None \notin Blocks

SectorOf(t) == <<t[1] \div SECTOR_RATIO, t[2] \div SECTOR_RATIO>>

\* The places of S one step from p at most.
Near(S, p) == {q \in S : q[1] - p[1] \in -1..1 /\ q[2] - p[2] \in -1..1}

Around(s)     == IF s = None THEN {} ELSE Near(Sectors, s)
TileAround(t) == Near(Tiles, t)

\* What a sector map has in some sectors; objects to be destroyed are passed over.
PlayersIn(S) == UNION {playerMap[s] : s \in S}
ObjectsIn(S) == {o \in UNION {objectMap[s] : s \in S} : ~object[o].destroyed}
IDsOf(B)     == {player[b].clientID : b \in B}
Monsters     == {o \in DOMAIN object : object[o].type = "monster"}

\* Mutant: not taken out of the old sector.
AddTo(map, x, old, cur) ==
  [s \in Sectors |-> IF s = cur THEN map[s] \cup {x} ELSE map[s]]

\* SectorMap::Update, and what makes it quit.
Refile(map, x, old, cur) ==
  [s \in Sectors |-> IF s = cur THEN map[s] \cup {x} ELSE IF s = old THEN map[s] \ {x} ELSE map[s]]
NotErased(map, x, old, cur) == old \notin {None, cur} /\ x \notin map[old]

Phases == {"move", "leave", "msgs", "remove", "generate", "monsters", "refile", "users"}
Halts  == {"no", "playerNotErased", "objectNotErased", "noState", "zeroDivide", "overflow", "spin"}

Player == [clientID : 0..MaxStamp, tile : Tiles, cur : Sectors \cup {None}, HP : Int,
           isDead : BOOLEAN, isSitting : BOOLEAN]
Object == [type : {"monster", "crystal"}, tile : Tiles, old : Sectors \cup {None}, cur : Sectors,
           HP : Int, destroyed : BOOLEAN, target : Blocks \cup {None}, targetID : 0..MaxStamp]

\* The constructor of PipePlayer.
NewPlayer == [clientID |-> 0, tile |-> <<0, 0>>, cur |-> None, HP |-> 0,
              isDead |-> FALSE, isSitting |-> FALSE]

Init ==
  /\ playing = {} /\ stamp = 1
  /\ player = [b \in Blocks |-> NewPlayer]
  /\ object = <<>>
  /\ playerMap = [s \in Sectors |-> {}] /\ objectMap = [s \in Sectors |-> {}]
  /\ told = [b \in Blocks |-> [id \in IDs |-> 0]]
  /\ phase = "move" /\ todo = {} /\ moved = {} /\ halt = "no"

\* Packets go out: created[c] and removed[c] are the IDs c is told of.  The clients in
\* begin start with nothing.
Tell(begin, created, removed) ==
  told' = [c \in Blocks |-> [id \in IDs |->
             (IF c \in begin THEN 0 ELSE told[c][id])
             + (IF id \in created[c] THEN 1 ELSE 0) - (IF id \in removed[c] THEN 1 ELSE 0)]]

\* No client is told of anything; those of B are told of an ID.
Nothing      == [c \in Blocks |-> {}]
About(B, id) == [c \in Blocks |-> IF c \in B THEN {id} ELSE {}]

\* The thread stops for good in the middle of a walk.
Halt(why) == halt' = why /\ UNCHANGED <<fieldVars, frameVars>>

\* A part of the frame is over.
Turn(from, to, walk) ==
  /\ phase = from /\ todo = {}
  /\ phase' = to /\ todo' = walk /\ moved' = {}

In(p) == phase = p /\ halt = "no"

-----------------------------------------------------------------------------
(***************************************************************************)
(* Players.                                                                *)
(***************************************************************************)
\* UpdateSector(PipePlayer*): the player of b has become p and was in sector old (its
\* oldSector_, which whoever calls this has just set).  Its client gets what came into
\* sight and loses what went out of it, and so do the others of it.  The client of a
\* player that starts gets its own character too (StartGame).
Shift(b, old, p) ==
  LET gone    == Around(old) \ Around(p.cur)
      new     == Around(p.cur) \ Around(old)
      leavers == PlayersIn(gone) \ {b}
      comers  == PlayersIn(new) \ {b}
  IN  IF NotErased(playerMap, b, old, p.cur)
      THEN Halt("playerNotErased")
      ELSE /\ player' = [player EXCEPT ![b] = p]
           /\ playerMap' = Refile(playerMap, b, old, p.cur)
           /\ Tell({}, [About(comers, p.clientID) EXCEPT ![b] =
                          IDsOf(comers) \cup ObjectsIn(new)
                            \cup (IF old = None THEN {p.clientID} ELSE {})],
                       [About(leavers, p.clientID) EXCEPT ![b] =
                          IDsOf(leavers) \cup ObjectsIn(gone)])
           /\ UNCHANGED halt

\* The pool gives a freed block out again: a PipePlayer constructed elsewhere is in it.
\* Other threads may do so at any time; it matters only at these two.
PoolReuses(b) ==
  /\ In("move") \/ In("monsters")
  /\ b \notin playing /\ player[b].clientID # 0
  /\ player' = [player EXCEPT ![b] = NewPlayer]
  /\ UNCHANGED <<playing, object, playerMap, objectMap, stamp, told, frameVars, halt>>

\* A user comes from its authentication pipe, where it was given its place and HP.
OnUserMoveIn(b, t, hp) ==
  /\ In("move") /\ b \notin playing /\ player[b].clientID = 0 /\ stamp < MaxStamp
  /\ playing' = playing \cup {b} /\ stamp' = stamp + 1
  /\ Shift(b, None, [player[b] EXCEPT !.clientID = stamp, !.tile = t, !.cur = SectorOf(t),
                                       !.HP = hp])
  /\ UNCHANGED <<object, objectMap, frameVars>>

\* The block goes back to the pool and keeps its contents.
OnUserLeave(b) ==
  /\ In("leave") /\ b \in playing
  /\ LET p == player[b]
     IN  IF b \notin playerMap[p.cur]
         THEN Halt("playerNotErased")
         ELSE /\ playing' = playing \ {b}
              /\ Tell({b}, Nothing, About(PlayersIn(Around(p.cur)) \ {b}, p.clientID))
              /\ playerMap' = [playerMap EXCEPT ![p.cur] = @ \ {b}]
              /\ UNCHANGED <<player, object, objectMap, stamp, frameVars, halt>>

\* PipePlayer::UpdateSector: b says it is on t; then UpdateSector if that is another sector.
UpdateSector(b, p, t) ==
  LET q == [p EXCEPT !.tile = t, !.cur = SectorOf(t)]
  IN  /\ IF p.cur # q.cur
         THEN Shift(b, p.cur, q)
         ELSE player' = [player EXCEPT ![b] = q] /\ UNCHANGED <<playerMap, told, halt>>
      /\ UNCHANGED <<playing, object, objectMap, stamp, frameVars>>

\* PipePlayer::StandUp: the HP gained depend on the time it sat.
StandUp(p, gained) ==
  IF p.isSitting
  THEN [p EXCEPT !.isSitting = FALSE, !.HP = IF @ + gained > HP_MAX THEN HP_MAX ELSE @ + gained]
  ELSE p

ReqMoveCharacter(b, t, gained) ==
  /\ In("msgs") /\ b \in playing
  /\ UpdateSector(b, StandUp(player[b], gained), t)

ReqStopCharacter(b, t) ==
  /\ In("msgs") /\ b \in playing
  /\ UpdateSector(b, player[b], t)

\* ReqAttack1 and ReqAttack2: both take one hit off the monsters they choose.
ReqAttack(b, hit) ==
  /\ In("msgs") /\ b \in playing
  /\ hit \subseteq {o \in ObjectsIn(Around(player[b].cur)) \cap Monsters : object[o].HP > 0}
  /\ object' = [o \in DOMAIN object |->
                  IF o \in hit THEN [object[o] EXCEPT !.HP = @ - 1] ELSE object[o]]
  /\ UNCHANGED <<playing, player, playerMap, objectMap, stamp, told, frameVars, halt>>

\* Mutant: the one who picks is not told that the crystal is gone.
ReqPickWithoutID(b, o) ==
  /\ In("msgs") /\ b \in playing
  /\ o \in ObjectsIn({player[b].cur}) \ Monsters
  /\ object' = [object EXCEPT ![o].destroyed = TRUE]
  /\ Tell({}, Nothing, About(PlayersIn(Around(object[o].cur)) \ {b}, o))
  /\ UNCHANGED <<playing, player, playerMap, objectMap, stamp, frameVars, halt>>

\* Everyone around is told, the player too; the object goes at the next Destroy.
ReqPick(b, o) ==
  /\ In("msgs") /\ b \in playing
  /\ o \in ObjectsIn({player[b].cur}) \ Monsters
  /\ object' = [object EXCEPT ![o].destroyed = TRUE]
  /\ Tell({}, Nothing, About(PlayersIn(Around(object[o].cur)), o))
  /\ UNCHANGED <<playing, player, playerMap, objectMap, stamp, frameVars, halt>>

ReqSit(b) ==
  /\ In("msgs") /\ b \in playing
  /\ player' = [player EXCEPT ![b].isSitting = TRUE]
  /\ UNCHANGED <<playing, object, playerMap, objectMap, stamp, told, frameVars, halt>>

Resurrect(p) ==
  [p EXCEPT !.isDead = FALSE, !.isSitting = FALSE, !.tile = Spawn, !.cur = SectorOf(Spawn)]

\* RestartGame tells the player's client everything anew: ResPlayerRestart is taken
\* to clear what it showed.  Who has the player around before and after is told twice,
\* by a posted remove and a create.
ReqPlayerRestart(b) ==
  /\ In("msgs") /\ b \in playing /\ player[b].isDead
  /\ LET old == player[b].cur
         p   == Resurrect(player[b])
         losers  == PlayersIn(Around(old)) \ {b}
         viewers == PlayersIn(Around(p.cur)) \ {b}
     IN  IF NotErased(playerMap, b, old, p.cur)
         THEN Halt("playerNotErased")
         ELSE /\ player' = [player EXCEPT ![b] = p]
              /\ playerMap' = Refile(playerMap, b, old, p.cur)
              /\ Tell({b}, [About(viewers, p.clientID) EXCEPT ![b] =
                               {p.clientID} \cup IDsOf(viewers) \cup ObjectsIn(Around(p.cur))],
                           About(losers, p.clientID))
              /\ UNCHANGED <<playing, object, objectMap, stamp, frameVars, halt>>

Request ==
  \E b \in Blocks :
    \/ \E t \in Positions, gained \in 0..HP_MAX : ReqMoveCharacter(b, t, gained)
    \/ \E t \in Positions : ReqStopCharacter(b, t)
    \/ \E hit \in SUBSET Monsters : ReqAttack(b, hit)
    \/ \E o \in DOMAIN object : ReqPick(b, o)
    \/ b \in Sitters /\ ReqSit(b)
    \/ ReqPlayerRestart(b)

-----------------------------------------------------------------------------
(***************************************************************************)
(* OnUpdate.                                                               *)
(***************************************************************************)
\* A new object is filed where it is; the memory its oldSector_ is in is not cleared
\* (nobody reads a crystal's).
NewObject(type, t, old) ==
  [type |-> type, tile |-> t, old |-> old, cur |-> SectorOf(t), HP |-> MonsterHP,
   destroyed |-> FALSE, target |-> None, targetID |-> 0]

Insert(objects, id, m) ==
  [o \in DOMAIN objects \cup {id} |-> IF o = id THEN m ELSE objects[o]]

\* RemoveMonsterAndCreateCrystal, at one dead monster.  The crystal goes into the
\* unordered_map the walk is in: rehashed, the walk may pass over others of that
\* sector.  The crystal lies on the monster's tile rounded down to an even one,
\* which is in the same sector as SECTOR_RATIO is even.
RemoveMonster(o, missed) ==
  LET s == object[o].cur
      viewers == PlayersIn(Around(s))
  IN  /\ In("remove") /\ o \in todo /\ stamp < MaxStamp
      /\ missed \subseteq {x \in todo \ {o} : object[x].cur = s}
      /\ object' = Insert([object EXCEPT ![o].destroyed = TRUE], stamp,
                          NewObject("crystal", object[o].tile, None))
      /\ objectMap' = [objectMap EXCEPT ![s] = @ \cup {stamp}]
      /\ Tell({}, About(viewers, stamp), About(viewers, o))
      /\ stamp' = stamp + 1
      /\ todo' = todo \ ({o} \cup missed)
      /\ UNCHANGED <<playing, player, playerMap, phase, moved, halt>>

\* ObjectManager::Update.
Destroy ==
  LET kept == {o \in DOMAIN object : ~object[o].destroyed}
  IN  /\ halt = "no" /\ Turn("remove", "generate", {})
      /\ object' = Restrict(object, kept)
      /\ objectMap' = [s \in Sectors |-> objectMap[s] \cap kept]
      /\ UNCHANGED <<playing, player, playerMap, stamp, told, halt>>

IsShort == Cardinality(Monsters) < MONSTER_GEN_MAX

GenerateNewMonster(t, old) ==
  LET s == SectorOf(t)
  IN  /\ In("generate") /\ IsShort /\ stamp < MaxStamp
      /\ object' = Insert(object, stamp, NewObject("monster", t, old))
      /\ objectMap' = [objectMap EXCEPT ![s] = @ \cup {stamp}]
      /\ Tell({}, About(PlayersIn(Around(s)), stamp), Nothing)
      /\ stamp' = stamp + 1
      /\ UNCHANGED <<playing, player, playerMap, frameVars, halt>>

-----------------------------------------------------------------------------
(***************************************************************************)
(* Monsters.                                                               *)
(***************************************************************************)
\* The monster is done moving and has become m; if its sectors differ it is filed later.
Settle(o, m) ==
  /\ object' = [object EXCEPT ![o] = m]
  /\ moved' = IF m.old # m.cur THEN moved \cup {o} ELSE moved
  /\ todo' = todo \ {o}
  /\ UNCHANGED <<playing, player, playerMap, objectMap, stamp, told, phase, halt>>

UpdateTileAndSector(m, t) == [m EXCEPT !.tile = t, !.old = m.cur, !.cur = SectorOf(t)]

\* C++ division rounds towards zero.
Quotient(a, b) == IF (a >= 0) = (b > 0) THEN (IF a >= 0 THEN a \div b ELSE (-a) \div (-b))
                  ELSE -(IF a >= 0 THEN a \div (-b) ELSE (-a) \div b)

Sign(n) == IF n > 0 THEN 1 ELSE IF n < 0 THEN -1 ELSE 0

\* One column nearer, on the line of the (integer) slope through the player.
Toward(t, p) ==
  LET x == t[1] + Sign(p[1] - t[1])
  IN  <<x, Quotient(t[2] - p[2], t[1] - p[1]) * (x - p[1]) + p[2]>>

\* In the player's column the slope divides by zero: the build traps, or has moved
\* the division to where it is used and goes on.
ChasingState(o, m) ==
  LET p == player[m.target].tile
  IN  IF m.tile[1] # p[1]
      THEN Settle(o, UpdateTileAndSector(m, Toward(m.tile, p)))
      ELSE \/ Halt("zeroDivide")
           \/ Settle(o, UpdateTileAndSector(m, <<p[1], m.tile[2] + Sign(p[2] - m.tile[2])>>))

\* The first player found, row by row; within a sector the order is the hash's.
GetNearestPlayer(t) ==
  LET found == {s \in Around(SectorOf(t)) : playerMap[s] # {}}
  IN  IF found = {} THEN {}
      ELSE playerMap[CHOOSE s \in found :
                       \A u \in found : s[2] < u[2] \/ (s[2] = u[2] /\ s[1] <= u[1])]

\* A player is chased from now on and at once.  If it is fatal the chase is given
\* up and it is found again, on and on.  Without a player the monster mostly
\* stays; else it draws tiles around until one is not a wall.
IdleState(o, m) ==
  LET found == GetNearestPlayer(m.tile)
      open  == TileAround(m.tile) \ Walls
  IN  IF found # {}
      THEN \E b \in found :
             IF player[b].HP <= 0 THEN Halt("overflow")
             ELSE ChasingState(o, [m EXCEPT !.target = b, !.targetID = player[b].clientID])
      ELSE \/ Settle(o, m)
           \/ IF open = {} THEN Halt("spin")
              ELSE \E t \in open : Settle(o, UpdateTileAndSector(m, t))

\* What OnMove asks of the block it points to, freed or not.
KeepsChasing(m) ==
  /\ m.target # None
  /\ player[m.target].HP > 0 /\ player[m.target].clientID = m.targetID

\* A monster is constructed without a state, and the first move calls through nullptr.
MonsterMove(o) ==
  /\ In("monsters") /\ o \in todo
  /\ LET m == object[o]
     IN  IF ~Initialized THEN Halt("noState")
         ELSE IF KeepsChasing(m) THEN ChasingState(o, m)
         ELSE IdleState(o, [m EXCEPT !.target = None, !.targetID = 0])

\* UpdateSector(BaseObject*), after the walk.
UpdateObjectSector(o) ==
  LET m       == object[o]
      leavers == PlayersIn(Around(m.old) \ Around(m.cur))
      comers  == PlayersIn(Around(m.cur) \ Around(m.old))
  IN  /\ In("refile") /\ o \in todo
      /\ IF NotErased(objectMap, o, m.old, m.cur)
         THEN Halt("objectNotErased")
         ELSE /\ objectMap' = Refile(objectMap, o, m.old, m.cur)
              /\ Tell({}, About(comers, o), About(leavers, o))
              /\ todo' = todo \ {o}
              /\ UNCHANGED <<playing, player, object, playerMap, stamp, phase, moved, halt>>

\* Any of the monsters attack, each of them everyone alive in its sector.
AttackPlayer(attackers) ==
  LET damage(b) == MONSTER_DAMAGE * Cardinality({o \in attackers : b \in playerMap[object[o].cur]})
  IN  /\ halt = "no" /\ Turn("refile", "users", {})
      /\ player' = [b \in Blocks |->
                      IF player[b].isDead THEN player[b]
                      ELSE [player[b] EXCEPT !.HP = @ - damage(b)]]
      /\ UNCHANGED <<playing, object, playerMap, objectMap, stamp, told, halt>>

\* Mutant: the dead keep no HP.
KillOnly(p) == IF ~p.isDead /\ p.HP <= 0 THEN [p EXCEPT !.isDead = TRUE] ELSE p

\* OnUserUpdate, for every user: who is fatal dies, and gets half its HP back for later.
OnUserUpdate(p) ==
  IF ~p.isDead /\ p.HP <= 0 THEN [p EXCEPT !.isDead = TRUE, !.HP = HP_MAX \div 2] ELSE p

UpdateUsers ==
  /\ halt = "no" /\ Turn("users", "move", {})
  /\ player' = [b \in Blocks |-> IF b \in playing THEN OnUserUpdate(player[b]) ELSE player[b]]
  /\ UNCHANGED <<playing, object, playerMap, objectMap, stamp, told, halt>>

\* The rest of the frame: Move, Leave, MessageProc, OnUpdate one after another.
NextPart ==
  /\ halt = "no"
  /\ \/ Turn("move", "leave", {})
     \/ Turn("leave", "msgs", {})
     \/ Turn("msgs", "remove", {o \in Monsters : object[o].HP <= 0 /\ ~object[o].destroyed})
     \/ ~IsShort /\ Turn("generate", "monsters", Monsters)
     \/ Turn("monsters", "refile", moved)
  /\ UNCHANGED <<fieldVars, halt>>

Next ==
  \/ \E b \in Blocks : PoolReuses(b) \/ OnUserLeave(b)
  \/ \E b \in Blocks, t \in Positions, hp \in SavedHP : OnUserMoveIn(b, t, hp)
  \/ Request
  \/ \E o \in todo :
       \/ \E missed \in SUBSET todo : RemoveMonster(o, missed)
       \/ MonsterMove(o)
       \/ UpdateObjectSector(o)
  \/ \E t \in monsterRespawn, old \in LeftOver : GenerateNewMonster(t, old)
  \/ \E attackers \in SUBSET Monsters : AttackPlayer(attackers)
  \/ Destroy \/ UpdateUsers \/ NextPart

Spec == Init /\ [][Next]_vars

-----------------------------------------------------------------------------
(***************************************************************************)
(* Properties.                                                             *)
(***************************************************************************)
TypeOK ==
  /\ playing \subseteq Blocks /\ player \in [Blocks -> Player]
  /\ DOMAIN object \subseteq IDs /\ \A o \in DOMAIN object : object[o] \in Object
  /\ playerMap \in [Sectors -> SUBSET Blocks] /\ objectMap \in [Sectors -> SUBSET IDs]
  /\ stamp \in 1..MaxStamp /\ told \in [Blocks -> [IDs -> Int]]
  /\ phase \in Phases /\ todo \subseteq DOMAIN object /\ moved \subseteq DOMAIN object
  /\ halt \in Halts
  /\ \A b \in Blocks : player[b].HP <= HP_MAX

\* The sector maps and the objects agree: a player is filed in the sector it is in and
\* in no other, whatever moves, deaths and returns it went through, and an object is
\* filed once, where it is unless it has just moved (SectorMap::Update, RemoveFrom).
FiledWhereItIs ==
  /\ \A s \in Sectors : playerMap[s] = {b \in playing : player[b].cur = s}
  /\ \A o \in DOMAIN object : \E s \in Sectors :
       /\ {u \in Sectors : o \in objectMap[u]} = {s}
       /\ s = object[o].cur \/ (o \in moved \cup todo /\ s = object[o].old)

\* Client and server agree: since a client began (StartGame, ResPlayerRestart) it was
\* sent one create more than removes for its player, for each other in the nine sectors
\* around and for each object filed there, and as many of both for everything else, so
\* that it is right once it has them all, whatever comes first (UpdateSector, StartGame,
\* RestartGame, OnUserLeave, ReqPick and OnUpdate each send their part of it).  A client
\* that takes them as they come needs them in order, which packets to sets do not keep.
TellsWhatIsAround ==
  \A b \in Blocks, id \in IDs :
    LET near == Around(player[b].cur)
    IN  told[b][id] = IF b \in playing /\ id \in IDsOf(PlayersIn(near)) \cup ObjectsIn(near)
                      THEN 1 ELSE 0

\* No monster ever finds a player whose HP are used up, which would send IdleState and
\* ChasingState into each other without end: monsters move before they attack, and
\* OnUserUpdate has looked at everyone in between.
NeverOverflows == halt # "overflow"
=============================================================================
