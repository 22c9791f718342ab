--------------------------- MODULE GamePipe_proofs ---------------------------
(***************************************************************************)
(* Every client is told of what is around its player and of nothing else,  *)
(* of each thing once until it is told that it is gone; the sector maps    *)
(* file everything once, where it is; and no monster meets a player who is *)
(* fatal to it: for every field, number of players and memory left over    *)
(* from those who left.                                                    *)
(*                                                                         *)
(* The argument: an object is filed in the sector of its tile, or, while   *)
(* monsters move, in the one it moved from (ObjectsFiled, Placed); IDs are *)
(* given out once (Unique); so a mover that compares the sectors around    *)
(* its old place with those around its new one tells everybody what        *)
(* changed and nobody anything else (ShiftTells). Nobody is told twice: a  *)
(* player who is filed anew is one whose client was told to begin, and a   *)
(* monster that has no old sector had nobody around before it moved        *)
(* (KnownOnce). Monsters are moved only after the destroyed ones were      *)
(* swept (Swept), and stay in the field because a step along the slope     *)
(* stays between monster and player (TowardIn).                            *)
(***************************************************************************)
EXTENDS GamePipe, FiniteSetTheorems, TLAPS

-----------------------------------------------------------------------------
(***************************************************************************)
(* Tiles and sectors.                                                      *)
(***************************************************************************)
\* What division by a positive number gives.
LEMMA Division ==
  ASSUME NEW a \in Nat, NEW d \in Nat, d > 0
  PROVE  /\ a \div d \in Nat /\ (a \div d) * d <= a
         /\ (a \div d) * (d - 1) \in Nat /\ (a \div d) * (d - 1) <= a
<1>1. /\ a \div d \in Nat /\ a = d * (a \div d) + (a % d) /\ a % d \in 0 .. d - 1
  OBVIOUS
<1>2. PICK q \in Nat : q = a \div d
  BY <1>1
<1>3. PICK r \in Nat : r = a % d
  BY <1>1
<1>4. a = d * q + r
  BY <1>1, <1>2, <1>3
<1>5. q * d = d * q /\ q * (d - 1) = d * q - q /\ d * q \in Nat
  OBVIOUS
<1>6. d - 1 \in Nat
  OBVIOUS
<1>7. q * (d - 1) \in Nat
  BY <1>6
<1>. QED  BY <1>2, <1>4, <1>5, <1>7

\* A tile of the field is in a sector of the field.
LEMMA SectorIn ==
  ASSUME NEW t \in Tiles
  PROVE  SectorOf(t) \in Sectors
<1>1. /\ SECTOR_X_MAX \in Nat /\ SECTOR_Y_MAX \in Nat /\ SECTOR_RATIO \in Nat /\ SECTOR_RATIO > 0
  BY SizeAssumption
<1>2. ASSUME NEW m \in Nat, NEW r \in Nat, r > 0, NEW a \in 0 .. m * r - 1
      PROVE  a \div r \in 0 .. m - 1
  <2>1. m * r \in Nat
    OBVIOUS
  <2>2. a \in Nat /\ a < m * r
    BY <2>1
  <2>3. a \div r \in Nat /\ (a \div r) * r <= a
    BY <1>2, <2>2, Division
  <2>4. PICK q \in Nat : q = a \div r
    BY <2>3
  <2>5. q * r < m * r
    BY <2>1, <2>2, <2>3, <2>4
  <2>6. q >= m => q * r >= m * r
    OBVIOUS
  <2>7. q < m
    BY <2>1, <2>5, <2>6
  <2>. QED  BY <2>4, <2>7
<1>3. t[1] \in 0 .. SECTOR_X_MAX * SECTOR_RATIO - 1 /\ t[2] \in 0 .. SECTOR_Y_MAX * SECTOR_RATIO - 1
  BY DEF Tiles
<1>4. /\ t[1] \div SECTOR_RATIO \in 0 .. SECTOR_X_MAX - 1
      /\ t[2] \div SECTOR_RATIO \in 0 .. SECTOR_Y_MAX - 1
  BY <1>1, <1>2, <1>3
<1>. QED  BY <1>4 DEF SectorOf, Sectors

\* A step along the slope stays between the two.
LEMMA SlopeStays ==
  ASSUME NEW a \in Int, NEW d \in Int, d # 0
  PROVE  LET y == Quotient(a, d) * (d - Sign(d))
         IN  y \in Int /\ (a >= 0 => 0 <= y /\ y <= a) /\ (a < 0 => a <= y /\ y <= 0)
<1>1. CASE a >= 0 /\ d > 0
  <2>1. Quotient(a, d) = a \div d /\ Sign(d) = 1
    BY <1>1 DEF Quotient, Sign
  <2>2. a \in Nat /\ d \in Nat
    BY <1>1
  <2>. QED  BY <1>1, <2>1, <2>2, Division
<1>2. CASE a < 0 /\ d > 0
  <2>1. Quotient(a, d) = -((-a) \div d) /\ Sign(d) = 1
    BY <1>2 DEF Quotient, Sign
  <2>2. -a \in Nat /\ d \in Nat
    BY <1>2
  <2>3. PICK q \in Nat : q = (-a) \div d
    BY <1>2, <2>2, Division
  <2>4. q * (d - 1) \in Nat /\ q * (d - 1) <= -a
    BY <1>2, <2>2, <2>3, Division
  <2>5. (-q) * (d - 1) = -(q * (d - 1))
    OBVIOUS
  <2>. QED  BY <1>2, <2>1, <2>3, <2>4, <2>5
<1>3. CASE a >= 0 /\ d < 0
  <2>1. Quotient(a, d) = -(a \div (-d)) /\ Sign(d) = -1
    BY <1>3 DEF Quotient, Sign
  <2>2. a \in Nat /\ -d \in Nat /\ -d > 0
    BY <1>3
  <2>3. PICK q \in Nat : q = a \div (-d)
    BY <2>2, Division
  <2>4. q * (-d - 1) \in Nat /\ q * (-d - 1) <= a
    BY <2>2, <2>3, Division
  <2>5. (-q) * (d - (-1)) = q * (-d - 1)
    OBVIOUS
  <2>. QED  BY <1>3, <2>1, <2>3, <2>4, <2>5
<1>4. CASE a < 0 /\ d < 0
  <2>1. Quotient(a, d) = (-a) \div (-d) /\ Sign(d) = -1
    BY <1>4 DEF Quotient, Sign
  <2>2. -a \in Nat /\ -d \in Nat /\ -d > 0
    BY <1>4
  <2>3. PICK q \in Nat : q = (-a) \div (-d)
    BY <2>2, Division
  <2>4. q * (-d - 1) \in Nat /\ q * (-d - 1) <= -a
    BY <2>2, <2>3, Division
  <2>5. q * (d - (-1)) = -(q * (-d - 1))
    OBVIOUS
  <2>. QED  BY <1>4, <2>1, <2>3, <2>4, <2>5
<1>. QED  BY <1>1, <1>2, <1>3, <1>4

\* A monster that chases stays in the field.
LEMMA TowardIn ==
  ASSUME NEW t \in Tiles, NEW p \in Tiles
  PROVE  /\ t[1] # p[1] => Toward(t, p) \in Tiles
         /\ <<p[1], t[2] + Sign(p[2] - t[2])>> \in Tiles
<1>1. PICK m \in Int, n \in Int :
        m = SECTOR_X_MAX * SECTOR_RATIO - 1 /\ n = SECTOR_Y_MAX * SECTOR_RATIO - 1
  BY SizeAssumption
<1>2. /\ t[1] \in 0 .. m /\ t[2] \in 0 .. n /\ p[1] \in 0 .. m /\ p[2] \in 0 .. n
      /\ \A x \in 0 .. m, y \in 0 .. n : <<x, y>> \in Tiles
  BY <1>1 DEF Tiles
<1>3. ASSUME t[1] # p[1] PROVE Toward(t, p) \in Tiles
  <2> DEFINE a == t[2] - p[2]
             d == t[1] - p[1]
             x == t[1] + Sign(p[1] - t[1])
             y == Quotient(a, d) * (d - Sign(d))
  <2>1. a \in Int /\ d \in Int /\ d # 0
    BY <1>2, <1>3
  <2>2. y \in Int /\ (a >= 0 => 0 <= y /\ y <= a) /\ (a < 0 => a <= y /\ y <= 0)
    BY <2>1, SlopeStays
  <2>3. x \in 0 .. m /\ x - p[1] = d - Sign(d)
    BY <1>2, <1>3 DEF Sign
  <2>4. Toward(t, p) = <<x, y + p[2]>>
    BY <2>3 DEF Toward
  <2>. HIDE DEF y
  <2>5. y + p[2] \in 0 .. n
    BY <1>2, <2>2
  <2>. QED  BY <1>2, <2>3, <2>4, <2>5
<1>4. t[2] + Sign(p[2] - t[2]) \in 0 .. n
  BY <1>2 DEF Sign
<1>. QED  BY <1>2, <1>3, <1>4

\* Sectors around each other.
LEMMA AroundIs ==
  /\ Around(None) = {}
  /\ \A s \in Sectors : s # None /\ Around(s) \subseteq Sectors /\ s \in Around(s)
  /\ \A s, u \in Sectors : s \in Around(u) <=> u \in Around(s)
<1>1. \A s \in Sectors : s # None /\ Around(s) = Near(Sectors, s)
  BY NoneAssumption DEF Around
<1>2. \A s \in Sectors : s[1] \in Int /\ s[2] \in Int
  BY SizeAssumption DEF Sectors
<1>3. \A a, b \in Int : a - b \in -1 .. 1 <=> b - a \in -1 .. 1
  OBVIOUS
<1>4. \A a \in Int : a - a \in -1 .. 1
  OBVIOUS
<1>5. \A s, u \in Sectors : s \in Near(Sectors, u) <=> u \in Near(Sectors, s)
  BY <1>2, <1>3 DEF Near
<1>6. \A s \in Sectors : s \in Near(Sectors, s) /\ Near(Sectors, s) \subseteq Sectors
  BY <1>2, <1>4 DEF Near
<1>7. Around(None) = {}
  BY DEF Around
<1>. QED  BY <1>1, <1>5, <1>6, <1>7

-----------------------------------------------------------------------------
(***************************************************************************)
(* The inductive invariant.                                                *)
(***************************************************************************)
\* Which parts of a frame walk over objects, and remember those that moved.
Walks ==
  /\ todo # {} => phase \in {"remove", "monsters", "refile"}
  /\ moved # {} => phase = "monsters"
  /\ moved \cap todo = {}

\* IDs are given out once, to players and to objects.
Unique ==
  /\ \A o \in DOMAIN object : o < stamp
  /\ \A b \in Blocks : player[b].clientID < stamp
  /\ \A b \in playing : player[b].clientID # 0 /\ player[b].clientID \notin DOMAIN object
  /\ \A b, c \in playing : player[b].clientID = player[c].clientID => b = c

PlayersFiled ==
  /\ \A b \in playing : player[b].cur \in Sectors
  /\ \A s \in Sectors : playerMap[s] = {b \in playing : player[b].cur = s}

\* An object is filed in s and nowhere else.
FiledAt(o, s) == \A u \in Sectors : o \in objectMap[u] <=> u = s

\* What moved is filed where it was, or where it is if it did not move this time.
Moving(o) == o \in moved \/ (phase = "refile" /\ o \in todo)
ObjectsFiled ==
  /\ \A s \in Sectors : objectMap[s] \subseteq DOMAIN object
  /\ \A o \in DOMAIN object : \E s \in Sectors :
       FiledAt(o, s) /\ (s = object[o].cur \/ (Moving(o) /\ s = object[o].old))

\* An object is in the sector of its tile.
Placed == \A o \in DOMAIN object : object[o].cur = SectorOf(object[o].tile)

\* Nothing that is to be destroyed is left once that was done, or is walked over.
Swept ==
  /\ phase \in {"generate", "monsters", "refile"} => \A o \in DOMAIN object : ~object[o].destroyed
  /\ \A o \in todo : ~object[o].destroyed

\* A monster whose memory names no sector, and that did not move, has nobody around who
\* would be told of it once more: it had looked for a player first.
Alone(o)   == \A c \in playing : player[c].cur \notin Around(object[o].cur)
KnownOnce == \A o \in DOMAIN object : Moving(o) /\ object[o].old = None => Alone(o)

\* A client is told of an ID once, and not again before it is told that it is gone; so
\* what it shows when it has all its packets are the IDs that it was told of once.
Exact == told \in [Blocks -> [IDs -> {0, 1}]]
shown == [c \in Blocks |-> {i \in IDs : told[c][i] = 1}]

\* What a client in sector x should show.
SeesPlayer(x, i) == \E b \in playing : player[b].cur \in Around(x) /\ i = player[b].clientID
SeesObject(x, i) == \E s \in Around(x) : i \in objectMap[s] /\ ~object[i].destroyed
Shows ==
  \A c \in Blocks, i \in IDs :
    i \in shown[c] <=> /\ c \in playing
                       /\ SeesPlayer(player[c].cur, i) \/ SeesObject(player[c].cur, i)

\* The HP of a player are used up between an attack and the end of the frame only.
Alive ==
  \A b \in playing : player[b].isDead \/ phase # "users" => player[b].HP > 0

GInv == /\ TypeOK /\ Walks /\ Unique /\ PlayersFiled /\ ObjectsFiled /\ Placed /\ Swept
        /\ KnownOnce /\ Exact /\ Shows /\ Alive /\ NeverOverflows

-----------------------------------------------------------------------------
(***************************************************************************)
(* What the operators of the maps give.                                    *)
(***************************************************************************)
\* The parts of the invariant, and of the ranges.
LEMMA GInvParts ==
  ASSUME GInv
  PROVE  /\ TypeOK /\ Walks /\ Unique /\ PlayersFiled /\ ObjectsFiled /\ Placed /\ Swept
         /\ KnownOnce /\ Exact /\ Shows /\ Alive /\ NeverOverflows
  BY DEF GInv

LEMMA TypeParts ==
  ASSUME TypeOK
  PROVE  /\ playing \subseteq Blocks /\ player \in [Blocks -> Player]
         /\ DOMAIN object \subseteq IDs /\ \A o \in DOMAIN object : object[o] \in Object
         /\ playerMap \in [Sectors -> SUBSET Blocks] /\ objectMap \in [Sectors -> SUBSET IDs]
         /\ stamp \in 1..MaxStamp /\ shown \in [Blocks -> SUBSET IDs]
         /\ phase \in Phases /\ todo \subseteq DOMAIN object /\ moved \subseteq DOMAIN object
         /\ halt \in Halts
         /\ \A b \in Blocks : player[b].HP <= HP_MAX
  BY DEF TypeOK, shown

\* The fields of a player and of an object.
LEMMA PlayerParts ==
  ASSUME NEW p \in Player
  PROVE  /\ p.clientID \in 0..MaxStamp /\ p.tile \in Tiles /\ p.cur \in Sectors \cup {None}
         /\ p.HP \in Int /\ p.isDead \in BOOLEAN /\ p.isSitting \in BOOLEAN
  BY DEF Player

LEMMA ObjectParts ==
  ASSUME NEW m \in Object
  PROVE  /\ m.type \in {"monster", "crystal"} /\ m.tile \in Tiles
         /\ m.old \in Sectors \cup {None} /\ m.cur \in Sectors /\ m.HP \in Int
         /\ m.destroyed \in BOOLEAN /\ m.target \in Blocks \cup {None}
         /\ m.targetID \in 0..MaxStamp
  BY DEF Object

\* A player is in some sectors if the sector it is in is one of them.
LEMMA PlayersInIs ==
  ASSUME PlayersFiled, NEW S, S \subseteq Sectors
  PROVE  \A c : c \in PlayersIn(S) <=> c \in playing /\ player[c].cur \in S
<1>1. \A c : c \in PlayersIn(S) <=> \E s \in S : c \in playerMap[s]
  BY DEF PlayersIn
<1>. QED  BY <1>1 DEF PlayersFiled

\* The objects of some sectors, and the IDs of some players, one by one.
LEMMA ObjectsInIs ==
  ASSUME NEW S
  PROVE  \A i : i \in ObjectsIn(S) <=> \E s \in S : i \in objectMap[s] /\ ~object[i].destroyed
<1>1. \A i : i \in UNION {objectMap[s] : s \in S} <=> \E s \in S : i \in objectMap[s]
  OBVIOUS
<1>. QED  BY <1>1 DEF ObjectsIn

LEMMA IDsOfIs ==
  ASSUME NEW B
  PROVE  \A i : i \in IDsOf(B) <=> \E c \in B : i = player[c].clientID
  BY DEF IDsOf

LEMMA SeesObjectIs ==
  ASSUME NEW x
  PROVE  \A i : SeesObject(x, i) <=> i \in ObjectsIn(Around(x))
  BY ObjectsInIs DEF SeesObject

\* The IDs of players and of objects.
LEMMA IDsAre ==
  ASSUME TypeOK, Unique, ObjectsFiled
  PROVE  /\ \A b \in playing : player[b].clientID \in IDs /\ player[b].clientID < stamp
         /\ \A s \in Sectors : \A i \in objectMap[s] :
              i \in IDs /\ i < stamp /\ i \in DOMAIN object
         /\ stamp \in Nat /\ stamp \notin DOMAIN object
         /\ stamp < MaxStamp => stamp \in IDs /\ stamp + 1 \in 1 .. MaxStamp
         /\ IDs \subseteq Nat
<1>1. /\ playing \subseteq Blocks /\ player \in [Blocks -> Player] /\ DOMAIN object \subseteq IDs
      /\ stamp \in 1 .. MaxStamp /\ MaxStamp \in Nat
  BY TypeParts, SizeAssumption
<1>2. ASSUME NEW b \in playing
      PROVE  player[b].clientID \in IDs /\ player[b].clientID < stamp
  <2>1. b \in Blocks /\ player[b] \in Player
    BY <1>1
  <2>2. player[b].clientID \in 0 .. MaxStamp
    BY <2>1, PlayerParts
  <2>3. player[b].clientID < stamp /\ player[b].clientID # 0
    BY <2>1 DEF Unique
  <2>. QED  BY <1>1, <2>2, <2>3 DEF IDs
<1>3. \A s \in Sectors : \A i \in objectMap[s] : i \in IDs /\ i < stamp /\ i \in DOMAIN object
  BY <1>1 DEF ObjectsFiled, Unique
<1>4. stamp \notin DOMAIN object
  <2>1. ~(stamp < stamp)
    BY <1>1
  <2>. QED  BY <2>1 DEF Unique
<1>5. stamp < MaxStamp => stamp \in IDs /\ stamp + 1 \in 1 .. MaxStamp
  BY <1>1 DEF IDs
<1>6. IDs \subseteq Nat /\ stamp \in Nat
  BY <1>1 DEF IDs
<1>. QED  BY <1>2, <1>3, <1>4, <1>5, <1>6

\* What clients show when a step has told them something: of what is gone they knew, and
\* of what is new they did not, or they are told too that it is gone.
LEMMA Told ==
  ASSUME Exact, NEW begin, NEW created, NEW removed, Tell(begin, created, removed),
         \A c \in Blocks, i \in IDs :
           /\ i \in removed[c] => c \notin begin /\ i \in shown[c]
           /\ i \in created[c] /\ c \notin begin /\ i \in shown[c] => i \in removed[c]
  PROVE  /\ Exact' /\ shown \in [Blocks -> SUBSET IDs] /\ shown' \in [Blocks -> SUBSET IDs]
         /\ \A c \in Blocks, i \in IDs :
              i \in shown'[c] <=> \/ i \in created[c]
                                  \/ c \notin begin /\ i \in shown[c] /\ i \notin removed[c]
<1> DEFINE now(c, i) == (IF c \in begin THEN 0 ELSE told[c][i])
                          + (IF i \in created[c] THEN 1 ELSE 0)
                          - (IF i \in removed[c] THEN 1 ELSE 0)
<1>1. told' = [c \in Blocks |-> [i \in IDs |-> now(c, i)]]
  BY DEF Tell
<1>2. \A c \in Blocks, i \in IDs : told'[c][i] = now(c, i)
  BY <1>1
<1>3. \A c \in Blocks, i \in IDs : i \in shown[c] <=> told[c][i] = 1
  BY DEF shown
<1>4. \A c \in Blocks, i \in IDs : i \in shown'[c] <=> told'[c][i] = 1
  BY DEF shown
<1>5. ASSUME NEW c \in Blocks, NEW i \in IDs
      PROVE  /\ now(c, i) \in {0, 1}
             /\ now(c, i) = 1 <=> \/ i \in created[c]
                                  \/ c \notin begin /\ i \in shown[c] /\ i \notin removed[c]
  <2>1. told[c][i] \in {0, 1}
    BY DEF Exact
  <2>2. /\ i \in removed[c] => c \notin begin /\ told[c][i] = 1
        /\ i \in created[c] /\ c \notin begin /\ told[c][i] = 1 => i \in removed[c]
        /\ i \in shown[c] <=> told[c][i] = 1
    BY <1>3
  <2>. QED  BY <2>1, <2>2
<1>. HIDE DEF now
<1>6. Exact'
  BY <1>1, <1>5 DEF Exact
<1>7. shown \in [Blocks -> SUBSET IDs] /\ shown' \in [Blocks -> SUBSET IDs]
  BY DEF shown
<1>. QED  BY <1>2, <1>4, <1>5, <1>6, <1>7

\* The range of what is told, and what stays when nobody is told of anything.
LEMMA ExactIs ==
  /\ Exact' => told' \in [Blocks -> [IDs -> Int]]
  /\ Exact /\ told' = told => Exact' /\ shown' = shown
  BY DEF Exact, shown

\* Whom a packet about one ID reaches.
LEMMA AboutIs ==
  /\ \A c \in Blocks : \A i : i \notin Nothing[c]
  /\ \A B, x : \A c \in Blocks : \A i : i \in About(B, x)[c] <=> c \in B /\ i = x
  /\ \A B, x, b, S : \A c \in Blocks : \A i :
       i \in [About(B, x) EXCEPT ![b] = S][c] <=> IF c = b THEN i \in S ELSE c \in B /\ i = x
  BY DEF Nothing, About

\* A client shows nothing with an ID that was not given out.
LEMMA ShownIDs ==
  ASSUME TypeOK, Unique, PlayersFiled, ObjectsFiled, Shows, NEW c \in Blocks, NEW i \in shown[c]
  PROVE  i \in IDs /\ i < stamp
<1>1. i \in IDs
  BY TypeParts
<1>2. c \in playing /\ (SeesPlayer(player[c].cur, i) \/ SeesObject(player[c].cur, i))
  BY <1>1 DEF Shows
<1>3. player[c].cur \in Sectors
  BY <1>2 DEF PlayersFiled
<1>4. CASE SeesPlayer(player[c].cur, i)
  BY <1>1, <1>4, IDsAre DEF SeesPlayer
<1>5. CASE SeesObject(player[c].cur, i)
  <2>1. Around(player[c].cur) \subseteq Sectors
    BY <1>3, AroundIs
  <2>. QED  BY <1>1, <1>5, <2>1, IDsAre DEF SeesObject
<1>. QED  BY <1>2, <1>4, <1>5

-----------------------------------------------------------------------------
(***************************************************************************)
(* What stays when little is changed.                                      *)
(***************************************************************************)
\* The players stay where they are.
LEMMA PlayersStay ==
  ASSUME Unique, PlayersFiled, playing' = playing, playerMap' = playerMap, stamp' = stamp,
         DOMAIN object' = DOMAIN object, stamp \in Nat, stamp > 0,
         \A b \in Blocks : player'[b].clientID = player[b].clientID \/ player'[b].clientID = 0,
         \A b \in playing : /\ player'[b].clientID = player[b].clientID
                            /\ player'[b].cur = player[b].cur
  PROVE  Unique' /\ PlayersFiled'
<1>1. PlayersFiled'
  <2>1. \A b \in playing' : player'[b].cur \in Sectors
    BY DEF PlayersFiled
  <2>2. \A s \in Sectors : playerMap'[s] = {b \in playing : player'[b].cur = s}
    <3>1. ASSUME NEW s \in Sectors
          PROVE {b \in playing : player'[b].cur = s} = {b \in playing : player[b].cur = s}
      OBVIOUS
    <3>. QED  BY <3>1 DEF PlayersFiled
  <2>. QED  BY <2>1, <2>2 DEF PlayersFiled
<1>2. Unique'
  BY DEF Unique
<1>. QED  BY <1>1, <1>2

\* So do the objects.
LEMMA ObjectsStay ==
  ASSUME ObjectsFiled, objectMap' = objectMap, DOMAIN object' = DOMAIN object,
         \A o \in DOMAIN object : /\ object'[o].cur = object[o].cur
                                  /\ object'[o].old = object[o].old
                                  /\ Moving(o) => Moving(o)'
  PROVE  ObjectsFiled'
  BY DEF ObjectsFiled, FiledAt

\* So does who has nobody around.
LEMMA KnownOnceStays ==
  ASSUME KnownOnce, playing' = playing, DOMAIN object' = DOMAIN object,
         \A c \in playing : player'[c].cur = player[c].cur,
         \A o \in DOMAIN object : /\ object'[o].cur = object[o].cur
                                  /\ object'[o].old = object[o].old
                                  /\ Moving(o)' => Moving(o)
  PROVE  KnownOnce'
<1>1. ASSUME NEW o \in DOMAIN object, Moving(o)', object'[o].old = None
      PROVE  \A c \in playing' : player'[c].cur \notin Around(object'[o].cur)
  <2>1. Alone(o)
    BY <1>1 DEF KnownOnce
  <2>. QED  BY <2>1 DEF Alone
<1>. QED  BY <1>1 DEF KnownOnce, Alone

\* Outside of the walks of monsters nothing is moving.
LEMMA NoneMoving ==
  ASSUME Walks', phase' \notin {"monsters", "refile"}
  PROVE  KnownOnce'
<1>1. \A o : ~Moving(o)'
  BY DEF Moving, Walks
<1>. QED  BY <1>1 DEF KnownOnce

\* A view that nobody changes.
LEMMA ViewStays ==
  ASSUME Shows, ObjectsFiled, PlayersFiled,
         playing' = playing, shown' = shown, objectMap' = objectMap,
         \A b \in playing : /\ player'[b].clientID = player[b].clientID
                            /\ player'[b].cur = player[b].cur,
         \A o \in DOMAIN object : object'[o].destroyed = object[o].destroyed
  PROVE  Shows'
<1>1. ASSUME NEW x, NEW i
      PROVE  SeesPlayer(x, i)' <=> SeesPlayer(x, i)
  BY DEF SeesPlayer
<1>2. ASSUME NEW x \in Sectors, NEW i
      PROVE  SeesObject(x, i)' <=> SeesObject(x, i)
  <2>1. Around(x) \subseteq Sectors
    BY AroundIs
  <2>. QED  BY <2>1 DEF SeesObject, ObjectsFiled
<1>3. \A c \in playing : player[c].cur \in Sectors
  BY DEF PlayersFiled
<1>4. ASSUME NEW c \in Blocks, NEW i \in IDs
      PROVE  i \in shown'[c]
               <=> /\ c \in playing'
                   /\ SeesPlayer(player[c].cur, i)' \/ SeesObject(player[c].cur, i)'
  <2>1. i \in shown[c] <=> /\ c \in playing
                           /\ SeesPlayer(player[c].cur, i) \/ SeesObject(player[c].cur, i)
    BY DEF Shows
  <2>2. CASE c \in playing
    <3>1. player'[c].cur = player[c].cur /\ player[c].cur \in Sectors
      BY <1>3, <2>2
    <3>. QED  BY <1>1, <1>2, <2>1, <2>2, <3>1
  <2>. QED  BY <2>1, <2>2
<1>. QED  BY <1>4 DEF Shows

-----------------------------------------------------------------------------
(***************************************************************************)
(* A player comes, moves or leaves.                                        *)
(***************************************************************************)
\* The maps, when the player of b has become p.
LEMMA FiledAnew ==
  ASSUME PlayersFiled, TypeOK, NEW b \in Blocks, NEW p, p.cur \in Sectors, NEW old,
         playing' = playing \cup {b}, player' = [player EXCEPT ![b] = p],
         playerMap' = Refile(playerMap, b, old, p.cur),
         b \in playing => old = player[b].cur
  PROVE  PlayersFiled'
<1>1. player \in [Blocks -> Player] /\ playing \subseteq Blocks
  BY TypeParts
<1>2. player'[b] = p /\ \A c \in Blocks \ {b} : player'[c] = player[c]
  BY <1>1
<1>3. \A c \in playing' : player'[c].cur \in Sectors
  BY <1>1, <1>2 DEF PlayersFiled
<1>4. ASSUME NEW s \in Sectors
      PROVE  playerMap'[s] = {c \in playing' : player'[c].cur = s}
  <2>1. playerMap'[s] = IF s = p.cur THEN playerMap[s] \cup {b}
                        ELSE IF s = old THEN playerMap[s] \ {b} ELSE playerMap[s]
    BY DEF Refile
  <2>2. \A c : c \in playerMap[s] <=> c \in playing /\ player[c].cur = s
    BY DEF PlayersFiled
  <2>3. \A c : c \in playerMap'[s] <=> c \in playing' /\ player'[c].cur = s
    <3>1. CASE s = p.cur
      BY <1>1, <1>2, <2>1, <2>2, <3>1
    <3>2. CASE s # p.cur /\ s = old
      BY <1>1, <1>2, <2>1, <2>2, <3>2
    <3>3. CASE s # p.cur /\ s # old
      BY <1>1, <1>2, <2>1, <2>2, <3>3
    <3>. QED  BY <3>1, <3>2, <3>3
  <2>. QED  BY <2>3
<1>. QED  BY <1>3, <1>4 DEF PlayersFiled

\* Who the player in b may be: itself, or one with an ID that nobody has.
Known(b, id) ==
  /\ id \in IDs
  /\ \A c \in playing \ {b} : player[c].clientID # id
  /\ \A s \in Sectors : id \notin objectMap[s]

\* What clients are told when the player of b has become p: it sees what is around it,
\* and those around it see it.
Tells(b, p) ==
  /\ \A c \in Blocks \ (playing \cup {b}) : shown'[c] = shown[c]
  /\ \A c \in playing \ {b}, i \in IDs :
       i \in shown'[c] <=> IF i = p.clientID THEN player[c].cur \in Around(p.cur)
                           ELSE i \in shown[c]
  /\ \A i \in IDs :
       i \in shown'[b] <=>
         \/ i = p.clientID
         \/ \E c \in playing \ {b} : player[c].cur \in Around(p.cur) /\ i = player[c].clientID
         \/ SeesObject(p.cur, i)

\* The views, when the player of b has become p and everyone else was told.
LEMMA SeenAnew ==
  ASSUME PlayersFiled, TypeOK, Shows, NEW b \in Blocks, NEW p, p.cur \in Sectors,
         Known(b, p.clientID), b \in playing => player[b].clientID = p.clientID,
         playing' = playing \cup {b}, player' = [player EXCEPT ![b] = p],
         UNCHANGED <<object, objectMap>>, Tells(b, p)
  PROVE  Shows'
<1>0. /\ \A c \in Blocks \ (playing \cup {b}) : shown'[c] = shown[c]
      /\ \A c \in playing \ {b}, i \in IDs :
           i \in shown'[c] <=> IF i = p.clientID THEN player[c].cur \in Around(p.cur)
                               ELSE i \in shown[c]
      /\ \A i \in IDs :
           i \in shown'[b] <=>
             \/ i = p.clientID
             \/ \E c \in playing \ {b} : player[c].cur \in Around(p.cur) /\ i = player[c].clientID
             \/ SeesObject(p.cur, i)
  BY DEF Tells
<1> DEFINE id == p.clientID
<1>1. player \in [Blocks -> Player] /\ playing \subseteq Blocks
  BY TypeParts
<1>2. player'[b] = p /\ \A c \in Blocks \ {b} : player'[c] = player[c]
  BY <1>1
<1>3. \A c \in playing : player[c].cur \in Sectors
  BY DEF PlayersFiled
<1>4. ASSUME NEW x \in Sectors, NEW i
      PROVE  SeesObject(x, i)' <=> SeesObject(x, i)
  BY DEF SeesObject
<1>5. ASSUME NEW x \in Sectors
      PROVE  ~SeesObject(x, id)
  <2>1. Around(x) \subseteq Sectors
    BY AroundIs
  <2>. QED  BY <2>1 DEF SeesObject, Known
<1>6. ASSUME NEW x \in Sectors, NEW i
      PROVE  SeesPlayer(x, i)' <=>
               \/ p.cur \in Around(x) /\ i = id
               \/ \E c \in playing \ {b} : player[c].cur \in Around(x) /\ i = player[c].clientID
  BY <1>1, <1>2 DEF SeesPlayer
<1>7. ASSUME NEW c \in Blocks, NEW i \in IDs
      PROVE  i \in shown'[c]
               <=> /\ c \in playing'
                   /\ SeesPlayer(player[c].cur, i)' \/ SeesObject(player[c].cur, i)'
  <2>1. CASE c = b
    <3>1. c \in playing' /\ player'[c].cur = p.cur
      BY <1>2, <2>1
    <3>2. p.cur \in Around(p.cur)
      BY AroundIs
    <3>3. SeesPlayer(p.cur, i)' <=>
               \/ i = id
               \/ \E d \in playing \ {b} : player[d].cur \in Around(p.cur) /\ i = player[d].clientID
      BY <1>6, <3>2
    <3>4. SeesPlayer(player[c].cur, i)' <=>
               \/ i = id
               \/ \E d \in playing \ {b} : player[d].cur \in Around(p.cur) /\ i = player[d].clientID
      BY <3>1, <3>3 DEF SeesPlayer
    <3>5. SeesObject(player[c].cur, i)' <=> SeesObject(p.cur, i)
      BY <1>4, <3>1 DEF SeesObject
    <3>. QED  BY <1>0, <2>1, <3>1, <3>4, <3>5
  <2>2. CASE c \in playing \ {b}
    <3>1. c \in playing' /\ player'[c].cur = player[c].cur
      BY <1>1, <1>2, <2>2
    <3>2. PICK x \in Sectors : x = player[c].cur
      BY <1>3, <2>2
    <3>3. /\ SeesPlayer(player[c].cur, i)' <=> SeesPlayer(x, i)'
          /\ SeesObject(player[c].cur, i)' <=> SeesObject(x, i)'
      BY <3>1, <3>2 DEF SeesPlayer, SeesObject
    <3>4. i \in shown[c] <=> SeesPlayer(x, i) \/ SeesObject(x, i)
      BY <2>2, <3>2 DEF Shows
    <3>5. CASE i = id
      <4>1. ~SeesObject(x, i)' /\ (SeesPlayer(x, i)' <=> p.cur \in Around(x))
        BY <1>4, <1>5, <1>6, <3>5 DEF Known
      <4>2. i \in shown'[c] <=> x \in Around(p.cur)
        BY <1>0, <2>2, <3>2, <3>5
      <4>. QED  BY <3>1, <3>3, <4>1, <4>2, AroundIs
    <3>6. CASE i # id
      <4>1. SeesObject(x, i)' <=> SeesObject(x, i)
        BY <1>4
      <4>2. i \in shown'[c] <=> i \in shown[c]
        BY <1>0, <2>2, <3>6
      <4>3. CASE SeesObject(x, i)
        BY <3>1, <3>3, <3>4, <4>1, <4>2, <4>3
      <4>4. CASE ~SeesObject(x, i)
        <5>1. SeesPlayer(x, i)' <=>
               \E d \in playing \ {b} : player[d].cur \in Around(x) /\ i = player[d].clientID
          BY <1>6, <3>6
        <5>2. SeesPlayer(x, i) <=>
                \E d \in playing \ {b} : player[d].cur \in Around(x) /\ i = player[d].clientID
          BY <3>6 DEF SeesPlayer
        <5>. QED  BY <3>1, <3>3, <3>4, <4>1, <4>2, <5>1, <5>2
      <4>. QED  BY <4>3, <4>4
    <3>. QED  BY <3>5, <3>6
  <2>3. CASE c \notin playing \cup {b}
    BY <1>0, <2>3 DEF Shows
  <2>. QED  BY <2>1, <2>2, <2>3
<1>. QED  BY <1>7 DEF Shows

\* The ID of a player, or the one that is given out next, is nobody else's.
LEMMA KnownIs ==
  ASSUME TypeOK, Unique, ObjectsFiled, NEW b \in Blocks
  PROVE  /\ b \in playing => Known(b, player[b].clientID)
         /\ b \notin playing /\ stamp < MaxStamp => Known(b, stamp)
<1>1. ASSUME b \in playing PROVE Known(b, player[b].clientID)
  <2>1. \A c \in playing \ {b} : player[c].clientID # player[b].clientID
    BY <1>1 DEF Unique
  <2>2. \A s \in Sectors : player[b].clientID \notin objectMap[s]
    BY <1>1 DEF Unique, ObjectsFiled
  <2>. QED  BY <1>1, <2>1, <2>2, IDsAre DEF Known
<1>2. ASSUME stamp < MaxStamp PROVE Known(b, stamp)
  <2>1. ~(stamp < stamp)
    BY IDsAre
  <2>2. \A c \in playing \ {b} : player[c].clientID # stamp
    BY <2>1, IDsAre
  <2>3. \A s \in Sectors : stamp \notin objectMap[s]
    BY <2>1, IDsAre
  <2>. QED  BY <1>2, <2>2, <2>3, IDsAre DEF Known
<1>. QED  BY <1>1, <1>2

\* What the packets of a shift tell each client.
LEMMA ShiftTells ==
  ASSUME TypeOK, Unique, PlayersFiled, ObjectsFiled, Exact, Shows,
         NEW b \in Blocks, NEW p \in Player,
         p.cur \in Sectors, Known(b, p.clientID), NEW old, Shift(b, old, p),
         b \in playing => old = player[b].cur /\ p.clientID = player[b].clientID,
         b \notin playing => old = None
  PROVE  /\ player' = [player EXCEPT ![b] = p]
         /\ playerMap' = Refile(playerMap, b, old, p.cur)
         /\ Exact' /\ halt' = halt /\ Tells(b, p)
<1> DEFINE gone    == Around(old) \ Around(p.cur)
           new     == Around(p.cur) \ Around(old)
           leavers == PlayersIn(gone) \ {b}
           comers  == PlayersIn(new) \ {b}
           id      == p.clientID
           mine    == (shown[b] \ (IDsOf(leavers) \cup ObjectsIn(gone)))
                        \cup {id} \cup IDsOf(comers) \cup ObjectsIn(new)
           created == [About(comers, id) EXCEPT ![b] =
                         IDsOf(comers) \cup ObjectsIn(new) \cup (IF old = None THEN {id} ELSE {})]
           removed == [About(leavers, id) EXCEPT ![b] = IDsOf(leavers) \cup ObjectsIn(gone)]
<1>1. old = None \/ (old \in Sectors /\ b \in playerMap[old] /\ b \in playing)
  BY DEF PlayersFiled
<1>2. ~NotErased(playerMap, b, old, p.cur)
  BY <1>1 DEF NotErased
<1>3. /\ player' = [player EXCEPT ![b] = p]
      /\ playerMap' = Refile(playerMap, b, old, p.cur)
      /\ halt' = halt /\ Tell({}, created, removed)
  BY <1>2 DEF Shift
<1>4. Around(old) \subseteq Sectors /\ Around(p.cur) \subseteq Sectors
  BY <1>1, AroundIs
<1>5. /\ \A c : c \in leavers <=> c \in playing /\ player[c].cur \in gone /\ c # b
      /\ \A c : c \in comers <=> c \in playing /\ player[c].cur \in new /\ c # b
  BY <1>4, PlayersInIs
<1>6. /\ \A i : i \in IDsOf(leavers) <=> \E c \in leavers : i = player[c].clientID
      /\ \A i : i \in IDsOf(comers) <=> \E c \in comers : i = player[c].clientID
  BY IDsOfIs
<1>7. /\ \A i : i \in ObjectsIn(gone) <=> \E s \in gone : i \in objectMap[s] /\ ~object[i].destroyed
      /\ \A i : i \in ObjectsIn(new) <=> \E s \in new : i \in objectMap[s] /\ ~object[i].destroyed
  BY ObjectsInIs
<1>8. /\ playing \subseteq Blocks /\ shown \in [Blocks -> SUBSET IDs] /\ id \in IDs
      /\ player \in [Blocks -> Player]
  BY TypeParts DEF Known
<1>9. \A c \in Blocks \ {b} : player[c].cur \in gone => player[c].cur \notin new
  OBVIOUS
<1>10. \A i : i \in mine <=>
          \/ i \in shown[b] /\ i \notin IDsOf(leavers) /\ i \notin ObjectsIn(gone)
          \/ i = id \/ i \in IDsOf(comers) \/ i \in ObjectsIn(new)
  OBVIOUS
<1>11. ASSUME NEW c \in playing \ {b}
       PROVE  id \in shown[c] <=> b \in playing /\ player[c].cur \in Around(old)
  <2>1. player[c].cur \in Sectors
    BY DEF PlayersFiled
  <2>2. id \in shown[c] <=> SeesPlayer(player[c].cur, id) \/ SeesObject(player[c].cur, id)
    BY <1>8 DEF Shows
  <2>3. ~SeesObject(player[c].cur, id)
    BY <2>1, AroundIs DEF SeesObject, Known
  <2>4. SeesPlayer(player[c].cur, id)
          <=> b \in playing /\ player[b].cur \in Around(player[c].cur)
    BY DEF SeesPlayer, Known
  <2>5. b \in playing =>
          (player[b].cur \in Around(player[c].cur) <=> player[c].cur \in Around(old))
    BY <2>1, AroundIs DEF PlayersFiled
  <2>. QED  BY <2>2, <2>3, <2>4, <2>5
<1>12. /\ Exact' /\ shown \in [Blocks -> SUBSET IDs] /\ shown' \in [Blocks -> SUBSET IDs]
       /\ \A i \in IDs : i \in shown'[b] <=> i \in mine
       /\ \A c \in leavers : shown'[c] = shown[c] \ {id}
       /\ \A c \in comers : shown'[c] = shown[c] \cup {id}
       /\ \A c \in Blocks : c \notin leavers /\ c \notin comers /\ c # b => shown'[c] = shown[c]
  <2>1. \A i : /\ i \in created[b] <=> \/ i \in IDsOf(comers) \/ i \in ObjectsIn(new)
                                       \/ old = None /\ i = id
               /\ i \in removed[b] <=> i \in IDsOf(leavers) \/ i \in ObjectsIn(gone)
    <3>1. /\ created[b] = IDsOf(comers) \cup ObjectsIn(new) \cup (IF old = None THEN {id} ELSE {})
          /\ removed[b] = IDsOf(leavers) \cup ObjectsIn(gone)
      BY DEF About
    <3>. QED  BY <3>1
  <2>2. \A c \in Blocks \ {b} : \A i : /\ i \in created[c] <=> c \in comers /\ i = id
                                       /\ i \in removed[c] <=> c \in leavers /\ i = id
    BY DEF About
  <2>. HIDE DEF leavers, comers
  <2>3. ASSUME NEW i \in IDs
        PROVE  /\ i \in removed[b] => i \in shown[b]
               /\ i \in created[b] => i \notin shown[b]
               /\ i = id /\ old # None => i \in shown[b] /\ i \notin removed[b]
    <3> DEFINE P(S) == \E c \in playing \ {b} : player[c].cur \in S /\ i = player[c].clientID
               O(S) == \E s \in S : i \in objectMap[s] /\ ~object[i].destroyed
               A == Around(old)
    <3>1. i \in shown[b] <=> b \in playing /\ (P(A) \/ i = id \/ O(A))
      <4>1. CASE b \in playing
        <5>1. i \in shown[b] <=> SeesPlayer(old, i) \/ SeesObject(old, i)
          BY <4>1 DEF Shows
        <5>2. SeesPlayer(old, i) <=> P(A) \/ i = id
          BY <4>1, AroundIs DEF SeesPlayer, PlayersFiled
        <5>3. SeesObject(old, i) <=> O(A)
          BY DEF SeesObject
        <5>. HIDE DEF P, O, A
        <5>. QED  BY <4>1, <5>1, <5>2, <5>3
      <4>2. CASE b \notin playing
        BY <4>2 DEF Shows
      <4>. QED  BY <4>1, <4>2
    <3>2. /\ i \in IDsOf(leavers) <=> P(gone)
          /\ i \in IDsOf(comers) <=> P(new)
          /\ i \in ObjectsIn(gone) <=> O(gone)
          /\ i \in ObjectsIn(new) <=> O(new)
      <4>1. (i \in IDsOf(leavers) <=> P(gone)) /\ (i \in IDsOf(comers) <=> P(new))
        BY <1>5, <1>6
      <4>2. (i \in ObjectsIn(gone) <=> O(gone)) /\ (i \in ObjectsIn(new) <=> O(new))
        BY <1>7
      <4>. QED  BY <4>1, <4>2
    <3>3. (P(gone) => P(A)) /\ (O(gone) => O(A)) /\ (P(A) \/ O(A) => b \in playing)
      BY AroundIs
    <3>4. P(new) => ~P(A)
      <4>1. \A c, d \in playing : player[c].clientID = player[d].clientID => c = d
        BY DEF Unique
      <4>. QED  BY <4>1
    <3>5. O(new) => ~O(A)
      <4>1. \A s \in Sectors, u \in Sectors : i \in objectMap[s] /\ i \in objectMap[u] => s = u
        BY DEF ObjectsFiled, FiledAt
      <4>. QED  BY <1>4, <4>1
    <3>6. \A S, T \in SUBSET Sectors : P(S) => ~O(T)
      <4>1. \A c \in playing : player[c].clientID \notin DOMAIN object
        BY DEF Unique
      <4>2. \A s \in Sectors : objectMap[s] \subseteq DOMAIN object
        BY DEF ObjectsFiled
      <4>. QED  BY <4>1, <4>2
    <3>7. i = id => \A S \in SUBSET Sectors : ~P(S) /\ ~O(S)
      BY DEF Known
    <3>8. gone \in SUBSET Sectors /\ new \in SUBSET Sectors /\ A \in SUBSET Sectors
      BY <1>4
    <3>9. b \in playing <=> old # None
      BY NoneAssumption DEF PlayersFiled
    <3>10. (P(new) => ~O(A)) /\ (O(new) => ~P(A))
      BY <3>6, <3>8
    <3>. HIDE DEF P, O, A, created, removed, gone, new
    <3>11. i = id => ~P(gone) /\ ~O(gone) /\ ~P(new) /\ ~O(new)
      BY <3>7, <3>8
    <3>. QED  BY <2>1, <3>1, <3>2, <3>3, <3>4, <3>5, <3>9, <3>10, <3>11
  <2>4. ASSUME NEW c \in Blocks, NEW i \in IDs
        PROVE  /\ i \in removed[c] => c \notin {} /\ i \in shown[c]
               /\ i \in created[c] /\ c \notin {} /\ i \in shown[c] => i \in removed[c]
    <3>1. CASE c = b
      BY <2>3, <3>1
    <3>2. CASE c # b
      <4>1. c \in leavers => id \in shown[c]
        BY <1>1, <1>5, <1>11, AroundIs
      <4>2. c \in comers => id \notin shown[c]
        BY <1>5, <1>11
      <4>. QED  BY <2>2, <3>2, <4>1, <4>2
    <3>. QED  BY <3>1, <3>2
  <2>. HIDE DEF created, removed, mine
  <2>5. /\ Exact' /\ shown \in [Blocks -> SUBSET IDs] /\ shown' \in [Blocks -> SUBSET IDs]
        /\ \A c \in Blocks, i \in IDs :
             i \in shown'[c] <=> \/ i \in created[c]
                                 \/ c \notin {} /\ i \in shown[c] /\ i \notin removed[c]
    BY <1>3, <2>4, Told
  <2>6. \A i \in IDs : i \in shown'[b] <=> i \in mine
    BY <1>10, <2>1, <2>3, <2>5
  <2>7. \A c \in Blocks \ {b}, i \in IDs :
          i \in shown'[c] <=> \/ c \in comers /\ i = id
                              \/ i \in shown[c] /\ ~(c \in leavers /\ i = id)
    BY <2>2, <2>5
  <2>8. \A c \in Blocks : shown[c] \subseteq IDs /\ shown'[c] \subseteq IDs
    BY <2>5
  <2>9. ASSUME NEW c \in Blocks \ {b}
        PROVE  /\ c \in leavers => shown'[c] = shown[c] \ {id}
               /\ c \in comers => shown'[c] = shown[c] \cup {id}
               /\ c \notin leavers /\ c \notin comers => shown'[c] = shown[c]
    <3>1. c \in leavers => c \notin comers
      BY <1>5
    <3>. QED  BY <1>8, <2>7, <2>8, <3>1
  <2>10. /\ \A c \in leavers : c \in Blocks \ {b}
         /\ \A c \in comers : c \in Blocks \ {b}
    BY <1>5, <1>8
  <2>. QED  BY <2>5, <2>6, <2>9, <2>10
<1>. HIDE DEF mine, leavers, comers
<1>14. \A c \in Blocks \ (playing \cup {b}) : shown'[c] = shown[c]
  BY <1>5, <1>12
<1>15. ASSUME NEW c \in playing \ {b}, NEW i \in IDs
       PROVE  i \in shown'[c] <=> IF i = id THEN player[c].cur \in Around(p.cur)
                                  ELSE i \in shown[c]
  <2>1. CASE i # id
    BY <1>5, <1>8, <1>12, <2>1
  <2>2. CASE i = id
    <3>1. player[c].cur \in Sectors
      BY DEF PlayersFiled
    <3>2. id \in shown[c] <=> b \in playing /\ player[c].cur \in Around(old)
      BY <1>11
    <3>3. b \notin playing => Around(old) = {}
      BY AroundIs
    <3>4. c \in leavers <=> player[c].cur \in Around(old) /\ player[c].cur \notin Around(p.cur)
      BY <1>5
    <3>5. c \in comers <=> player[c].cur \in Around(p.cur) /\ player[c].cur \notin Around(old)
      BY <1>5
    <3>6. CASE c \in leavers
      BY <1>12, <2>2, <3>4, <3>6
    <3>7. CASE c \in comers
      BY <1>12, <2>2, <3>5, <3>7
    <3>8. CASE c \notin leavers /\ c \notin comers
      BY <1>8, <1>12, <2>2, <3>2, <3>3, <3>4, <3>5, <3>8
    <3>. QED  BY <3>6, <3>7, <3>8
  <2>. QED  BY <2>1, <2>2
<1>16. ASSUME NEW i \in IDs
       PROVE  i \in shown'[b] <=>
                \/ i = id
                \/ \E c \in playing \ {b} :
                      player[c].cur \in Around(p.cur) /\ i = player[c].clientID
                \/ SeesObject(p.cur, i)
  <2> DEFINE P(S) == \E c \in playing \ {b} : player[c].cur \in S /\ i = player[c].clientID
             O(S) == \E s \in S : i \in objectMap[s] /\ ~object[i].destroyed
             A == Around(old)
             N == Around(p.cur)
             both == A \cap N
  <2>1. i # id => (i \in shown[b] <=> b \in playing /\ (P(A) \/ O(A)))
    <3>1. CASE b \in playing
      <4>1. i \in shown[b] <=> SeesPlayer(old, i) \/ SeesObject(old, i)
        BY <3>1 DEF Shows
      <4>2. i # id => (SeesPlayer(old, i) <=> P(A))
        BY <3>1 DEF SeesPlayer
      <4>3. SeesObject(old, i) <=> O(A)
        BY DEF SeesObject
      <4>. HIDE DEF P, O, A
      <4>. QED  BY <3>1, <4>1, <4>2, <4>3
    <3>2. CASE b \notin playing
      BY <3>2 DEF Shows
    <3>. QED  BY <3>1, <3>2
  <2>2. /\ P(N) <=> P(new) \/ P(both)
        /\ P(A) <=> P(gone) \/ P(both)
    OBVIOUS
  <2>3. /\ O(N) <=> O(new) \/ O(both)
        /\ O(A) <=> O(gone) \/ O(both)
    OBVIOUS
  <2>4. /\ i \in IDsOf(leavers) <=> P(gone)
        /\ i \in IDsOf(comers) <=> P(new)
    BY <1>5, <1>6
  <2>5. /\ i \in ObjectsIn(gone) <=> O(gone)
        /\ i \in ObjectsIn(new) <=> O(new)
    BY <1>7
  <2>6. P(gone) => ~P(both)
    <3>1. \A c, d \in playing : player[c].clientID = player[d].clientID => c = d
      BY DEF Unique
    <3>. QED  BY <3>1
  <2>7. O(gone) => ~O(both)
    <3>1. \A s \in Sectors, u \in Sectors : i \in objectMap[s] /\ i \in objectMap[u] => s = u
      BY DEF ObjectsFiled, FiledAt
    <3>. QED  BY <1>4, <3>1
  <2>8. \A S, T \in SUBSET Sectors : P(S) => ~O(T)
    <3>1. \A c \in playing : player[c].clientID \notin DOMAIN object
      BY DEF Unique
    <3>2. \A s \in Sectors : objectMap[s] \subseteq DOMAIN object
      BY DEF ObjectsFiled
    <3>. QED  BY <3>1, <3>2
  <2>9. gone \in SUBSET Sectors /\ both \in SUBSET Sectors
    BY <1>4
  <2>10. b \notin playing => ~P(A) /\ ~O(A)
    BY AroundIs
  <2>11. SeesObject(p.cur, i) <=> O(N)
    BY DEF SeesObject
  <2>. HIDE DEF O, both, gone, new
  <2>12. (P(gone) => ~O(both)) /\ (P(both) => ~O(gone))
    BY <2>8, <2>9
  <2>13. CASE i = id
    BY <1>10, <1>12, <2>13
  <2>14. CASE i # id
    <3>1. i \in shown'[b] <=>
            \/ i \in shown[b] /\ i \notin IDsOf(leavers) /\ i \notin ObjectsIn(gone)
            \/ i \in IDsOf(comers) \/ i \in ObjectsIn(new)
      BY <1>10, <1>12, <2>14
    <3>2. i \in shown'[b] <=> P(N) \/ O(N)
      <4>. HIDE DEF P, N, A
      <4>. QED  BY <2>1, <2>2, <2>3, <2>4, <2>5, <2>6, <2>7, <2>10, <2>12, <2>14, <3>1
    <3>. QED  BY <2>11, <2>14, <3>2
  <2>. QED  BY <2>13, <2>14
<1>17. Tells(b, p)
  BY <1>14, <1>15, <1>16 DEF Tells
<1>. QED  BY <1>3, <1>12, <1>17

\* A player that has moved, come or come back to life: everything follows.
LEMMA AnewKeeps ==
  ASSUME GInv, NEW b \in Blocks, NEW p \in Player, p.HP <= HP_MAX, p.cur \in Sectors,
         p.HP > 0, phase \in {"move", "msgs"}, NEW old,
         player' = [player EXCEPT ![b] = p], playerMap' = Refile(playerMap, b, old, p.cur),
         Exact', Tells(b, p), halt' = halt,
         playing' = playing \cup {b}, UNCHANGED <<object, objectMap, phase, todo, moved>>,
         b \in playing => /\ old = player[b].cur /\ p.clientID = player[b].clientID
                          /\ stamp' = stamp,
         b \notin playing => /\ old = None /\ p.clientID = stamp /\ stamp < MaxStamp
                             /\ stamp' = stamp + 1
  PROVE  GInv'
<1>1. /\ TypeOK /\ Walks /\ Unique /\ PlayersFiled /\ ObjectsFiled /\ Placed /\ Swept
      /\ Shows /\ Alive /\ NeverOverflows
  BY GInvParts
<1>2. Known(b, p.clientID)
  BY <1>1, KnownIs
<1>3. PlayersFiled'
  BY <1>1, FiledAnew
<1>4. Shows'
  BY <1>1, <1>2, SeenAnew
<1>5. ObjectsFiled' /\ Placed' /\ Swept' /\ Walks' /\ NeverOverflows'
  BY <1>1 DEF ObjectsFiled, FiledAt, Moving, Placed, Swept, Walks, NeverOverflows
<1>6. KnownOnce'
  BY <1>5, NoneMoving
<1>7. player \in [Blocks -> Player] /\ playing \subseteq Blocks
  BY <1>1, TypeParts
<1>8. player'[b] = p /\ \A c \in Blocks \ {b} : player'[c] = player[c]
  BY <1>7
<1>9. Alive'
  BY <1>1, <1>7, <1>8 DEF Alive
<1>10. stamp \in Nat /\ (stamp < MaxStamp => stamp + 1 \in 1 .. MaxStamp)
  BY <1>1, IDsAre
<1>11. stamp' \in Nat /\ stamp <= stamp' /\ p.clientID < stamp' /\ stamp' \in 1 .. MaxStamp
  <2>1. CASE b \in playing
    BY <1>1, <1>10, <2>1, IDsAre, TypeParts
  <2>2. CASE b \notin playing
    BY <1>10, <2>2
  <2>. QED  BY <2>1, <2>2
<1>12. Unique'
  <2>1. \A o \in DOMAIN object : o < stamp'
    <3>1. \A o \in DOMAIN object : o \in Nat /\ o < stamp
      BY <1>1, IDsAre, TypeParts DEF Unique
    <3>. QED  BY <1>10, <1>11, <3>1
  <2>2. \A c \in Blocks : player'[c].clientID < stamp'
    <3>1. \A c \in Blocks : player[c].clientID \in Int /\ player[c].clientID < stamp
      <4>1. \A c \in Blocks : player[c].clientID \in 0 .. MaxStamp /\ player[c].clientID < stamp
        BY <1>1, <1>7, PlayerParts DEF Unique
      <4>. QED  BY <4>1, SizeAssumption
    <3>. QED  BY <1>8, <1>10, <1>11, <3>1
  <2>3. p.clientID # 0 /\ p.clientID \notin DOMAIN object
    <3>1. CASE b \in playing
      BY <1>1, <3>1 DEF Unique
    <3>2. CASE b \notin playing
      <4>1. stamp # 0
        BY <1>1, TypeParts, SizeAssumption
      <4>. QED  BY <1>1, <3>2, <4>1, IDsAre
    <3>. QED  BY <3>1, <3>2
  <2>4. \A c \in playing' : player'[c].clientID # 0 /\ player'[c].clientID \notin DOMAIN object
    BY <1>1, <1>7, <1>8, <2>3 DEF Unique
  <2>5. \A c, d \in playing' : player'[c].clientID = player'[d].clientID => c = d
    BY <1>1, <1>2, <1>7, <1>8 DEF Unique, Known
  <2>. QED  BY <2>1, <2>2, <2>4, <2>5 DEF Unique
<1>13. TypeOK'
  <2>1. player' \in [Blocks -> Player]
    BY <1>7
  <2>2. playerMap' \in [Sectors -> SUBSET Blocks]
    <3>1. playerMap \in [Sectors -> SUBSET Blocks]
      BY <1>1, TypeParts
    <3>2. \A s \in Sectors : playerMap[s] \in SUBSET Blocks
      BY <3>1
    <3>3. \A s \in Sectors :
            (IF s = p.cur THEN playerMap[s] \cup {b}
             ELSE IF s = old THEN playerMap[s] \ {b} ELSE playerMap[s]) \in SUBSET Blocks
      BY <3>2
    <3>. QED  BY <3>3 DEF Refile
  <2>3. \A c \in Blocks : player'[c].HP <= HP_MAX
    BY <1>1, <1>8, TypeParts
  <2>4. playing' \subseteq Blocks
    BY <1>7
  <2>5. /\ DOMAIN object' \subseteq IDs /\ \A o \in DOMAIN object' : object'[o] \in Object
        /\ objectMap' \in [Sectors -> SUBSET IDs]
        /\ phase' \in Phases /\ todo' \subseteq DOMAIN object' /\ moved' \subseteq DOMAIN object'
        /\ halt' \in Halts
    BY <1>1, TypeParts
  <2>6. told' \in [Blocks -> [IDs -> Int]]
    BY ExactIs
  <2>. QED  BY <1>11, <2>1, <2>2, <2>3, <2>4, <2>5, <2>6 DEF TypeOK
<1>. QED  BY <1>3, <1>4, <1>5, <1>6, <1>9, <1>12, <1>13 DEF GInv

\* A user moves in.
LEMMA OnUserMoveInKeeps ==
  ASSUME GInv, NEW b \in Blocks, NEW t \in Positions, NEW hp \in SavedHP, OnUserMoveIn(b, t, hp)
  PROVE  GInv'
<1> DEFINE p == [player[b] EXCEPT !.clientID = stamp, !.tile = t, !.cur = SectorOf(t), !.HP = hp]
<1>1. /\ TypeOK /\ Unique /\ PlayersFiled /\ ObjectsFiled /\ Exact /\ Shows
  BY GInvParts
<1>2. /\ phase = "move" /\ b \notin playing /\ stamp < MaxStamp
      /\ playing' = playing \cup {b} /\ stamp' = stamp + 1 /\ Shift(b, None, p)
      /\ UNCHANGED <<object, objectMap, phase, todo, moved>>
  BY DEF OnUserMoveIn, In, frameVars
<1>3. player[b] \in Player
  BY <1>1, TypeParts
<1>4. t \in Tiles /\ SectorOf(t) \in Sectors
  BY FieldAssumption, SectorIn
<1>5. hp \in Nat /\ hp > 0 /\ hp <= HP_MAX
  BY SizeAssumption
<1>6. stamp \in 0 .. MaxStamp
  BY <1>1, TypeParts, SizeAssumption
<1>7. /\ p \in Player /\ p.HP = hp /\ p.cur = SectorOf(t) /\ p.clientID = stamp
  <2>1. PICK q \in Player : q = player[b]
    BY <1>3
  <2>2. PICK n \in 0 .. MaxStamp : n = stamp
    BY <1>6
  <2>3. PICK s \in Sectors : s = SectorOf(t)
    BY <1>4
  <2>4. hp \in Int
    BY <1>5
  <2>5. p = [q EXCEPT !.clientID = n, !.tile = t, !.cur = s, !.HP = hp]
    BY <2>1, <2>2, <2>3
  <2>6. /\ [q EXCEPT !.clientID = n, !.tile = t, !.cur = s, !.HP = hp] \in Player
        /\ [q EXCEPT !.clientID = n, !.tile = t, !.cur = s, !.HP = hp].HP = hp
        /\ [q EXCEPT !.clientID = n, !.tile = t, !.cur = s, !.HP = hp].cur = s
        /\ [q EXCEPT !.clientID = n, !.tile = t, !.cur = s, !.HP = hp].clientID = n
    BY ONLY <1>4, <2>4, q \in Player, n \in 0 .. MaxStamp, s \in Sectors DEF Player
  <2>. HIDE DEF p
  <2>. QED  BY <2>2, <2>3, <2>5, <2>6
<1>. HIDE DEF p
<1>8. Known(b, p.clientID)
  BY <1>1, <1>2, <1>7, KnownIs
<1>9. /\ player' = [player EXCEPT ![b] = p] /\ playerMap' = Refile(playerMap, b, None, p.cur)
      /\ Exact' /\ halt' = halt /\ Tells(b, p)
  BY <1>1, <1>2, <1>4, <1>7, <1>8, ShiftTells
<1>. QED  BY <1>2, <1>4, <1>5, <1>7, <1>9, AnewKeeps

-----------------------------------------------------------------------------
(***************************************************************************)
(* Steps that move nobody.                                                 *)
(***************************************************************************)
\* A step that leaves everyone's place as it is, and what is filed and shown.
LEMMA QuietKeeps ==
  ASSUME GInv, UNCHANGED <<playing, playerMap, objectMap, stamp, told>>,
         player' \in [Blocks -> Player],
         \A b \in Blocks : /\ player'[b].HP <= HP_MAX
                           /\ player'[b].clientID = player[b].clientID \/ player'[b].clientID = 0,
         \A b \in playing : /\ player'[b].clientID = player[b].clientID
                            /\ player'[b].cur = player[b].cur,
         DOMAIN object' = DOMAIN object, \A o \in DOMAIN object : object'[o] \in Object,
         \A o \in DOMAIN object : /\ object'[o].cur = object[o].cur
                                  /\ object'[o].old = object[o].old
                                  /\ object'[o].tile = object[o].tile
                                  /\ object'[o].destroyed = object[o].destroyed
                                  /\ Moving(o) <=> Moving(o)',
         phase' \in Phases, todo' \subseteq DOMAIN object, moved' \subseteq DOMAIN object,
         Walks', Swept', Alive', halt' \in Halts, halt' # "overflow"
  PROVE  GInv'
<1>1. /\ TypeOK /\ Unique /\ PlayersFiled /\ ObjectsFiled /\ Placed
      /\ KnownOnce /\ Exact /\ Shows
  BY GInvParts
<1>2. TypeOK'
  BY <1>1, TypeParts DEF TypeOK
<1>3. stamp \in Nat /\ stamp > 0
  BY <1>1, TypeParts, SizeAssumption
<1>4. Unique' /\ PlayersFiled'
  BY <1>1, <1>3, PlayersStay
<1>5. ObjectsFiled'
  BY <1>1, ObjectsStay
<1>6. Placed'
  BY <1>1 DEF Placed
<1>7. Exact' /\ shown' = shown
  BY <1>1, ExactIs
<1>8. Shows'
  BY <1>1, <1>7, ViewStays
<1>9. KnownOnce'
  BY <1>1, KnownOnceStays
<1>. QED  BY <1>2, <1>4, <1>5, <1>6, <1>7, <1>8, <1>9 DEF GInv, NeverOverflows

\* The thread stops for another reason.
LEMMA HaltKeeps ==
  ASSUME GInv, NEW why \in Halts, why # "overflow", Halt(why)
  PROVE  GInv'
<1>1. TypeOK /\ Walks /\ Swept /\ Alive
  BY GInvParts
<1>2. UNCHANGED <<fieldVars, frameVars>> /\ halt' = why
  BY DEF Halt
<1>3. /\ UNCHANGED <<playing, playerMap, objectMap, stamp, told>>
      /\ player' = player /\ object' = object /\ phase' = phase /\ todo' = todo /\ moved' = moved
  BY <1>2 DEF fieldVars, frameVars
<1>4. Walks' /\ Swept' /\ Alive'
  BY <1>1, <1>3 DEF Walks, Swept, Alive
<1>5. /\ player' \in [Blocks -> Player] /\ \A b \in Blocks : player'[b].HP <= HP_MAX
      /\ \A o \in DOMAIN object : object'[o] \in Object
      /\ phase' \in Phases /\ todo' \subseteq DOMAIN object /\ moved' \subseteq DOMAIN object
  BY <1>1, <1>3, TypeParts
<1>6. \A o \in DOMAIN object : Moving(o) <=> Moving(o)'
  BY <1>3 DEF Moving
<1>. QED  BY <1>2, <1>3, <1>4, <1>5, <1>6, QuietKeeps

\* Nothing but players changes: what is left to show of the step.
LEMMA PlayersOnly ==
  ASSUME GInv, UNCHANGED <<playing, object, playerMap, objectMap, stamp, told, halt>>,
         phase' \in Phases, todo' = todo, moved' = moved \/ moved' = {},
         phase' = phase \/ (todo = {} /\ moved = {} /\ phase' \in {"users", "move"}),
         player' \in [Blocks -> Player],
         \A b \in Blocks : /\ player'[b].HP <= HP_MAX
                           /\ player'[b].clientID = player[b].clientID \/ player'[b].clientID = 0,
         \A b \in playing : /\ player'[b].clientID = player[b].clientID
                            /\ player'[b].cur = player[b].cur,
         Alive', moved # {} => moved' = moved
  PROVE  GInv'
<1>1. TypeOK /\ Walks /\ Swept /\ NeverOverflows
  BY GInvParts
<1>2. Walks' /\ Swept' /\ \A o \in DOMAIN object : Moving(o) <=> Moving(o)'
  BY <1>1 DEF Walks, Swept, Moving
<1>3. /\ \A o \in DOMAIN object : object'[o] \in Object /\ object'[o] = object[o]
      /\ todo' \subseteq DOMAIN object /\ moved' \subseteq DOMAIN object
      /\ halt' \in Halts /\ halt' # "overflow"
  BY <1>1, TypeParts DEF NeverOverflows
<1>. QED  BY <1>2, <1>3, QuietKeeps

\* A block that is handed out again belongs to nobody that plays.
LEMMA PoolReusesKeeps ==
  ASSUME GInv, NEW b \in Blocks, PoolReuses(b)
  PROVE  GInv'
<1>1. TypeOK /\ Alive
  BY GInvParts
<1>2. /\ b \notin playing /\ player' = [player EXCEPT ![b] = NewPlayer]
      /\ UNCHANGED <<playing, object, playerMap, objectMap, stamp, told, phase, todo, moved, halt>>
  BY DEF PoolReuses, frameVars
<1>3. <<0, 0>> \in Tiles \/ Tiles = {}
  BY SizeAssumption DEF Tiles
<1>4. <<0, 0>> \in Tiles
  BY <1>3, FieldAssumption
<1>5. NewPlayer \in Player /\ NewPlayer.HP = 0 /\ NewPlayer.clientID = 0
  BY <1>4, SizeAssumption DEF NewPlayer, Player
<1>6. player \in [Blocks -> Player] /\ \A c \in Blocks : player[c].HP <= HP_MAX
  BY <1>1, TypeParts
<1>7. player'[b] = NewPlayer /\ \A c \in Blocks \ {b} : player'[c] = player[c]
  BY <1>2, <1>6
<1>8. player' \in [Blocks -> Player]
  BY <1>2, <1>5, <1>6
<1>9. Alive'
  BY <1>1, <1>2, <1>6, <1>7, TypeParts DEF Alive
<1>10. /\ \A c \in Blocks : /\ player'[c].HP <= HP_MAX
                            /\ player'[c].clientID = player[c].clientID \/ player'[c].clientID = 0
       /\ \A c \in playing : player'[c] = player[c]
  BY <1>1, <1>2, <1>5, <1>6, <1>7, SizeAssumption, TypeParts
<1>11. phase \in Phases
  BY <1>1, TypeParts
<1>. QED  BY <1>2, <1>8, <1>9, <1>10, <1>11, PlayersOnly

\* Sitting and standing up change no map.
LEMMA ReqSitKeeps ==
  ASSUME GInv, NEW b \in Blocks, ReqSit(b)
  PROVE  GInv'
<1>1. TypeOK /\ Alive
  BY GInvParts
<1>2. /\ player' = [player EXCEPT ![b].isSitting = TRUE]
      /\ UNCHANGED <<playing, object, playerMap, objectMap, stamp, told, phase, todo, moved, halt>>
  BY DEF ReqSit, frameVars
<1>3. player \in [Blocks -> Player] /\ \A c \in Blocks : player[c].HP <= HP_MAX
  BY <1>1, TypeParts
<1>4. PICK p \in Player : p = player[b]
  BY <1>3
<1>5. /\ [p EXCEPT !.isSitting = TRUE] \in Player
      /\ [p EXCEPT !.isSitting = TRUE].HP = p.HP /\ [p EXCEPT !.isSitting = TRUE].cur = p.cur
      /\ [p EXCEPT !.isSitting = TRUE].clientID = p.clientID
      /\ [p EXCEPT !.isSitting = TRUE].isDead = p.isDead
  BY DEF Player
<1>6. PICK q \in Player : q = [p EXCEPT !.isSitting = TRUE]
  BY <1>5
<1>7. player' = [player EXCEPT ![b] = q]
  BY <1>2, <1>4, <1>6
<1>8. player'[b] = q /\ \A c \in Blocks \ {b} : player'[c] = player[c]
  BY <1>3, <1>7
<1>9. player' \in [Blocks -> Player]
  BY <1>3, <1>7
<1>10. \A c \in Blocks : /\ player'[c].HP = player[c].HP /\ player'[c].cur = player[c].cur
                         /\ player'[c].clientID = player[c].clientID
                         /\ player'[c].isDead = player[c].isDead
  BY <1>4, <1>5, <1>6, <1>8
<1>11. Alive'
  BY <1>1, <1>2, <1>10, TypeParts DEF Alive
<1>12. phase \in Phases /\ playing \subseteq Blocks
  BY <1>1, TypeParts
<1>. QED  BY <1>2, <1>3, <1>9, <1>10, <1>11, <1>12, PlayersOnly

-----------------------------------------------------------------------------
(***************************************************************************)
(* Requests.                                                               *)
(***************************************************************************)
\* A player walks: within its sector only its tile changes, into another it is told.
LEMMA UpdateSectorKeeps ==
  ASSUME GInv, NEW b \in playing, NEW p \in Player, NEW t \in Positions, UpdateSector(b, p, t),
         phase = "msgs", p.HP <= HP_MAX, p.HP > 0,
         p.cur = player[b].cur, p.clientID = player[b].clientID
  PROVE  GInv'
<1> DEFINE q == [p EXCEPT !.tile = t, !.cur = SectorOf(t)]
<1>1. /\ TypeOK /\ Walks /\ Unique /\ PlayersFiled /\ ObjectsFiled /\ Exact /\ Shows /\ Alive
  BY GInvParts
<1>2. /\ IF p.cur # q.cur
         THEN Shift(b, p.cur, q)
         ELSE player' = [player EXCEPT ![b] = q] /\ UNCHANGED <<playerMap, told, halt>>
      /\ UNCHANGED <<playing, object, objectMap, stamp, phase, todo, moved>>
  BY DEF UpdateSector, frameVars
<1>3. b \in Blocks /\ player \in [Blocks -> Player] /\ playing \subseteq Blocks
  BY <1>1, TypeParts
<1>4. t \in Tiles /\ SectorOf(t) \in Sectors
  BY FieldAssumption, SectorIn
<1>5. /\ q \in Player /\ q.HP = p.HP /\ q.cur = SectorOf(t) /\ q.clientID = p.clientID
      /\ q.isDead = p.isDead
  <2>1. PICK s \in Sectors : s = SectorOf(t)
    BY <1>4
  <2>2. q = [p EXCEPT !.tile = t, !.cur = s]
    BY <2>1
  <2>3. /\ [p EXCEPT !.tile = t, !.cur = s] \in Player
        /\ [p EXCEPT !.tile = t, !.cur = s].HP = p.HP
        /\ [p EXCEPT !.tile = t, !.cur = s].cur = s
        /\ [p EXCEPT !.tile = t, !.cur = s].clientID = p.clientID
        /\ [p EXCEPT !.tile = t, !.cur = s].isDead = p.isDead
    BY <1>4 DEF Player
  <2>. HIDE DEF q
  <2>. QED  BY <2>1, <2>2, <2>3
<1>. HIDE DEF q
<1>6. Known(b, q.clientID)
  BY <1>1, <1>3, <1>5, KnownIs
<1>7. CASE p.cur # q.cur
  <2>1. Shift(b, p.cur, q)
    BY <1>2, <1>7
  <2>2. /\ player' = [player EXCEPT ![b] = q] /\ playerMap' = Refile(playerMap, b, p.cur, q.cur)
        /\ Exact' /\ halt' = halt /\ Tells(b, q)
    BY <1>1, <1>3, <1>4, <1>5, <1>6, <2>1, ShiftTells
  <2>3. playing' = playing \cup {b}
    BY <1>2
  <2>. QED  BY <1>2, <1>3, <1>4, <1>5, <2>2, <2>3, AnewKeeps
<1>8. CASE p.cur = q.cur
  <2>1. /\ player' = [player EXCEPT ![b] = q]
        /\ UNCHANGED <<playing, object, playerMap, objectMap, stamp, told, halt>>
    BY <1>2, <1>8
  <2>2. player'[b] = q /\ \A c \in Blocks \ {b} : player'[c] = player[c]
    BY <1>3, <2>1
  <2>3. player' \in [Blocks -> Player]
    BY <1>3, <1>5, <2>1
  <2>4. /\ \A c \in Blocks : /\ player'[c].HP <= HP_MAX
                             /\ player'[c].clientID = player[c].clientID
        /\ \A c \in playing : player'[c].cur = player[c].cur
    BY <1>1, <1>3, <1>5, <1>8, <2>2, TypeParts
  <2>5. Alive'
    BY <1>1, <1>2, <1>3, <1>5, <2>1, <2>2 DEF Alive
  <2>6. phase' \in Phases
    BY <1>1, <1>2, TypeParts
  <2>. QED  BY <1>2, <1>3, <2>1, <2>3, <2>4, <2>5, <2>6, PlayersOnly
<1>. QED  BY <1>7, <1>8

LEMMA StandUpIs ==
  ASSUME NEW p \in Player, NEW n \in 0 .. HP_MAX, p.HP > 0, p.HP <= HP_MAX
  PROVE  /\ StandUp(p, n) \in Player
         /\ StandUp(p, n).cur = p.cur /\ StandUp(p, n).clientID = p.clientID
         /\ StandUp(p, n).HP > 0 /\ StandUp(p, n).HP <= HP_MAX
<1>1. HP_MAX \in Nat /\ HP_MAX > 0 /\ p.HP \in Int
  BY SizeAssumption, PlayerParts
<1>2. PICK h \in Int : h = IF p.HP + n > HP_MAX THEN HP_MAX ELSE p.HP + n
  BY <1>1
<1>3. h > 0 /\ h <= HP_MAX
  BY <1>1, <1>2
<1>4. StandUp(p, n) = IF p.isSitting THEN [p EXCEPT !.isSitting = FALSE, !.HP = h] ELSE p
  <2>1. p.HP = p["HP"]
    OBVIOUS
  <2>. QED  BY <1>2 DEF StandUp, Player
<1>5. /\ [p EXCEPT !.isSitting = FALSE, !.HP = h] \in Player
      /\ [p EXCEPT !.isSitting = FALSE, !.HP = h].cur = p.cur
      /\ [p EXCEPT !.isSitting = FALSE, !.HP = h].clientID = p.clientID
      /\ [p EXCEPT !.isSitting = FALSE, !.HP = h].HP = h
  BY DEF Player
<1>. QED  BY <1>3, <1>4, <1>5

\* To move, to stop and to attack.
LEMMA ReqMoveCharacterKeeps ==
  ASSUME GInv, NEW b \in Blocks, NEW t \in Positions, NEW gained \in 0 .. HP_MAX,
         ReqMoveCharacter(b, t, gained)
  PROVE  GInv'
<1>1. phase = "msgs" /\ b \in playing /\ UpdateSector(b, StandUp(player[b], gained), t)
  BY DEF ReqMoveCharacter, In
<1>2. player[b] \in Player /\ player[b].HP <= HP_MAX /\ player[b].HP > 0
  BY <1>1, GInvParts, TypeParts DEF Alive
<1>. QED  BY <1>1, <1>2, StandUpIs, UpdateSectorKeeps

LEMMA ReqStopCharacterKeeps ==
  ASSUME GInv, NEW b \in Blocks, NEW t \in Positions, ReqStopCharacter(b, t)
  PROVE  GInv'
<1>1. phase = "msgs" /\ b \in playing /\ UpdateSector(b, player[b], t)
  BY DEF ReqStopCharacter, In
<1>2. player[b] \in Player /\ player[b].HP <= HP_MAX /\ player[b].HP > 0
  BY <1>1, GInvParts, TypeParts DEF Alive
<1>. QED  BY <1>1, <1>2, UpdateSectorKeeps

LEMMA ReqAttackKeeps ==
  ASSUME GInv, NEW b \in Blocks, NEW hit, ReqAttack(b, hit)
  PROVE  GInv'
<1>1. TypeOK /\ Walks /\ Alive /\ NeverOverflows
  BY GInvParts
<1>. phase = "msgs"
  BY DEF ReqAttack, In
<1>2. /\ object' = [o \in DOMAIN object |->
                  IF o \in hit THEN [object[o] EXCEPT !.HP = @ - 1] ELSE object[o]]
      /\ UNCHANGED <<playing, player, playerMap, objectMap, stamp, told, phase, todo, moved, halt>>
  BY DEF ReqAttack, frameVars
<1>3. ASSUME NEW o \in DOMAIN object
      PROVE  /\ object'[o] \in Object
             /\ object'[o].cur = object[o].cur /\ object'[o].old = object[o].old
             /\ object'[o].tile = object[o].tile
             /\ object'[o].destroyed = object[o].destroyed
  <2>1. PICK m \in Object : m = object[o]
    BY <1>1, TypeParts
  <2>2. m.HP - 1 \in Int
    BY ObjectParts
  <2>3. PICK h \in Int : h = m.HP - 1
    BY <2>2
  <2>4. object'[o] = IF o \in hit THEN [m EXCEPT !.HP = h] ELSE m
    BY <1>2, <2>1, <2>3 DEF Object
  <2>5. /\ [m EXCEPT !.HP = h] \in Object
        /\ [m EXCEPT !.HP = h].cur = m.cur /\ [m EXCEPT !.HP = h].old = m.old
        /\ [m EXCEPT !.HP = h].tile = m.tile /\ [m EXCEPT !.HP = h].destroyed = m.destroyed
    BY DEF Object
  <2>. QED  BY <2>1, <2>4, <2>5
<1>4. DOMAIN object' = DOMAIN object
  BY <1>2
<1>5. Walks' /\ Swept' /\ Alive' /\ \A o \in DOMAIN object : Moving(o) <=> Moving(o)'
  BY <1>1, <1>2 DEF Walks, Swept, Alive, Moving
<1>6. /\ player' \in [Blocks -> Player] /\ \A c \in Blocks : player'[c].HP <= HP_MAX
      /\ phase' \in Phases /\ todo' \subseteq DOMAIN object /\ moved' \subseteq DOMAIN object
      /\ halt' \in Halts /\ halt' # "overflow"
  BY <1>1, <1>2, TypeParts DEF NeverOverflows
<1>. QED  BY <1>2, <1>3, <1>4, <1>5, <1>6, QuietKeeps

\* Those around a player see it.
LEMMA SeenBy ==
  ASSUME TypeOK, Unique, PlayersFiled, ObjectsFiled, Shows, NEW b \in playing,
         NEW c \in playing \ {b}
  PROVE  player[b].clientID \in shown[c] <=> player[c].cur \in Around(player[b].cur)
<1> DEFINE id == player[b].clientID
<1>1. player[c].cur \in Sectors /\ player[b].cur \in Sectors
  BY DEF PlayersFiled
<1>2. Known(b, id) /\ id \in IDs /\ c \in Blocks
  BY KnownIs, IDsAre, TypeParts
<1>3. id \in shown[c] <=> SeesPlayer(player[c].cur, id) \/ SeesObject(player[c].cur, id)
  BY <1>2 DEF Shows
<1>4. ~SeesObject(player[c].cur, id)
  BY <1>1, <1>2, AroundIs DEF SeesObject, Known
<1>5. SeesPlayer(player[c].cur, id) <=> player[b].cur \in Around(player[c].cur)
  BY <1>2 DEF SeesPlayer, Known
<1>. QED  BY <1>1, <1>3, <1>4, <1>5, AroundIs

\* What the packets of a restart tell each client.
LEMMA RestartTells ==
  ASSUME TypeOK, Unique, PlayersFiled, ObjectsFiled, Exact, Shows, NEW b \in playing,
         NEW p \in Player, p.cur \in Sectors, p.clientID = player[b].clientID,
         NEW losers, NEW viewers, losers = PlayersIn(Around(player[b].cur)) \ {b},
         viewers = PlayersIn(Around(p.cur)) \ {b},
         Tell({b}, [About(viewers, p.clientID) EXCEPT ![b] =
                       {p.clientID} \cup IDsOf(viewers) \cup ObjectsIn(Around(p.cur))],
                   About(losers, p.clientID))
  PROVE  Exact' /\ Tells(b, p)
<1> DEFINE id == p.clientID
           mine == {id} \cup IDsOf(viewers) \cup ObjectsIn(Around(p.cur))
<1>1. Around(player[b].cur) \subseteq Sectors /\ Around(p.cur) \subseteq Sectors
  BY AroundIs DEF PlayersFiled
<1>2. /\ \A c : c \in losers <=> c \in playing /\ player[c].cur \in Around(player[b].cur) /\ c # b
      /\ \A c : c \in viewers <=> c \in playing /\ player[c].cur \in Around(p.cur) /\ c # b
  BY <1>1, PlayersInIs
<1>3. \A i : i \in IDsOf(viewers) <=> \E c \in viewers : i = player[c].clientID
  BY IDsOfIs
<1>4. \A i : i \in ObjectsIn(Around(p.cur)) <=> SeesObject(p.cur, i)
  BY SeesObjectIs
<1>5. /\ playing \subseteq Blocks /\ shown \in [Blocks -> SUBSET IDs] /\ b \in Blocks
      /\ player \in [Blocks -> Player]
  BY TypeParts
<1>6. id \in IDs
  BY IDsAre
<1>7. mine \subseteq IDs
  <2>1. ASSUME NEW i \in IDsOf(viewers) PROVE i \in IDs
    <3>1. PICK c \in viewers : i = player[c].clientID
      BY <1>3
    <3>2. c \in playing
      BY <1>2
    <3>. QED  BY <3>1, <3>2, IDsAre
  <2>2. ObjectsIn(Around(p.cur)) \subseteq IDs
    BY <1>1, <1>4, IDsAre DEF SeesObject
  <2>. QED  BY <1>6, <2>1, <2>2
<1>8. \A i : i \in mine <=> i = id \/ i \in IDsOf(viewers) \/ i \in ObjectsIn(Around(p.cur))
  OBVIOUS
<1>. HIDE DEF mine
<1>9. /\ shown'[b] = mine /\ Exact'
      /\ \A c \in Blocks \ {b} : c \in viewers => shown'[c] = shown[c] \cup {id}
      /\ \A c \in Blocks \ {b} : c \notin viewers /\ c \in losers => shown'[c] = shown[c] \ {id}
      /\ \A c \in Blocks \ {b} : c \notin losers /\ c \notin viewers => shown'[c] = shown[c]
  <2> DEFINE created == [About(viewers, id) EXCEPT ![b] = mine]
             removed == About(losers, id)
  <2>1. Tell({b}, created, removed)
    BY DEF mine
  <2>2. created[b] = mine /\ removed[b] = {}
    BY <1>2, <1>5 DEF About
  <2>3. \A c \in Blocks \ {b} : \A i : /\ i \in created[c] <=> c \in viewers /\ i = id
                                       /\ i \in removed[c] <=> c \in losers /\ i = id
    BY DEF About
  <2>. HIDE DEF created, removed
  <2>4. ASSUME NEW c \in Blocks, NEW i \in IDs
        PROVE  /\ i \in removed[c] => c \notin {b} /\ i \in shown[c]
               /\ i \in created[c] /\ c \notin {b} /\ i \in shown[c] => i \in removed[c]
    <3>1. CASE c = b
      BY <2>2, <3>1
    <3>2. CASE c # b
      <4>1. c \in losers => id \in shown[c]
        BY <1>2, SeenBy
      <4>2. c \in viewers /\ id \in shown[c] => c \in losers
        BY <1>2, SeenBy
      <4>. QED  BY <2>3, <3>2, <4>1, <4>2
    <3>. QED  BY <3>1, <3>2
  <2>5. /\ Exact' /\ shown \in [Blocks -> SUBSET IDs] /\ shown' \in [Blocks -> SUBSET IDs]
        /\ \A c \in Blocks, i \in IDs :
             i \in shown'[c] <=> \/ i \in created[c]
                                 \/ c \notin {b} /\ i \in shown[c] /\ i \notin removed[c]
    BY <2>1, <2>4, Told
  <2>6. \A c \in Blocks : shown[c] \subseteq IDs /\ shown'[c] \subseteq IDs
    BY <2>5
  <2>7. shown'[b] = mine
    BY <1>5, <1>7, <2>2, <2>5, <2>6
  <2>8. \A c \in Blocks \ {b}, i \in IDs :
          i \in shown'[c] <=> \/ c \in viewers /\ i = id
                              \/ i \in shown[c] /\ ~(c \in losers /\ i = id)
    BY <2>3, <2>5
  <2>9. ASSUME NEW c \in Blocks \ {b}
        PROVE  /\ c \in viewers => shown'[c] = shown[c] \cup {id}
               /\ c \notin viewers /\ c \in losers => shown'[c] = shown[c] \ {id}
               /\ c \notin losers /\ c \notin viewers => shown'[c] = shown[c]
    BY <1>6, <2>6, <2>8
  <2>. QED  BY <2>5, <2>7, <2>9
<1>11. \A c \in Blocks \ (playing \cup {b}) : shown'[c] = shown[c]
  BY <1>2, <1>9
<1>12. ASSUME NEW c \in playing \ {b}, NEW i \in IDs
       PROVE  i \in shown'[c] <=> IF i = id THEN player[c].cur \in Around(p.cur)
                                  ELSE i \in shown[c]
  <2>1. c \in Blocks \ {b}
    BY <1>5
  <2>2. CASE i # id
    BY <1>9, <2>1, <2>2
  <2>3. CASE i = id
    <3>1. id \in shown[c] <=> player[c].cur \in Around(player[b].cur)
      BY SeenBy
    <3>. QED  BY <1>2, <1>9, <2>1, <2>3, <3>1
  <2>. QED  BY <2>2, <2>3
<1>13. ASSUME NEW i \in IDs
       PROVE  i \in shown'[b] <=>
                \/ i = id
                \/ \E c \in playing \ {b} :
                      player[c].cur \in Around(p.cur) /\ i = player[c].clientID
                \/ SeesObject(p.cur, i)
  <2>1. i \in IDsOf(viewers)
          <=> \E c \in playing \ {b} : player[c].cur \in Around(p.cur) /\ i = player[c].clientID
    BY <1>2, <1>3
  <2>. QED  BY <1>4, <1>8, <1>9, <2>1
<1>14. Tells(b, p)
  BY <1>11, <1>12, <1>13 DEF Tells
<1>. QED  BY <1>9, <1>14

\* A restart files the player anew, at the spawn point, and everybody around is told.
LEMMA ReqPlayerRestartKeeps ==
  ASSUME GInv, NEW b \in Blocks, ReqPlayerRestart(b)
  PROVE  GInv'
<1> DEFINE old     == player[b].cur
           p       == Resurrect(player[b])
           losers  == PlayersIn(Around(old)) \ {b}
           viewers == PlayersIn(Around(p.cur)) \ {b}
<1>1. /\ TypeOK /\ Unique /\ PlayersFiled /\ ObjectsFiled /\ Exact /\ Shows /\ Alive
  BY GInvParts
<1>2. b \in playing /\ phase = "msgs"
  BY DEF ReqPlayerRestart, In
<1>3. /\ player[b] \in Player /\ player[b].HP <= HP_MAX /\ player[b].HP > 0
      /\ player[b].cur \in Sectors /\ b \in playerMap[player[b].cur]
  BY <1>1, <1>2, TypeParts DEF Alive, PlayersFiled
<1>4. ~NotErased(playerMap, b, old, p.cur)
  BY <1>3 DEF NotErased
<1>5. /\ player' = [player EXCEPT ![b] = p]
      /\ playerMap' = Refile(playerMap, b, old, p.cur)
      /\ Tell({b}, [About(viewers, p.clientID) EXCEPT ![b] =
                       {p.clientID} \cup IDsOf(viewers) \cup ObjectsIn(Around(p.cur))],
                   About(losers, p.clientID))
      /\ UNCHANGED <<playing, object, objectMap, stamp, frameVars, halt>>
  BY <1>4 DEF ReqPlayerRestart
<1>6. Spawn \in Tiles /\ SectorOf(Spawn) \in Sectors
  BY FieldAssumption, SectorIn
<1>7. /\ p \in Player /\ p.HP = player[b].HP /\ p.cur = SectorOf(Spawn)
      /\ p.clientID = player[b].clientID
  <2>1. PICK s \in Sectors : s = SectorOf(Spawn)
    BY <1>6
  <2>2. PICK r \in Player : r = player[b]
    BY <1>3
  <2>3. p = [r EXCEPT !.isDead = FALSE, !.isSitting = FALSE, !.tile = Spawn, !.cur = s]
    BY <2>1, <2>2 DEF Resurrect
  <2>4. PICK t \in Tiles : t = Spawn
    BY <1>6
  <2>5. /\ [r EXCEPT !.isDead = FALSE, !.isSitting = FALSE, !.tile = t, !.cur = s] \in Player
        /\ [r EXCEPT !.isDead = FALSE, !.isSitting = FALSE, !.tile = t, !.cur = s].HP = r.HP
        /\ [r EXCEPT !.isDead = FALSE, !.isSitting = FALSE, !.tile = t, !.cur = s].cur = s
        /\ [r EXCEPT !.isDead = FALSE, !.isSitting = FALSE, !.tile = t, !.cur = s].clientID
             = r.clientID
    BY DEF Player
  <2>. HIDE DEF p
  <2>. QED  BY <2>1, <2>2, <2>3, <2>4, <2>5
<1>. HIDE DEF p
<1>8. Exact' /\ Tells(b, p)
  BY <1>1, <1>2, <1>5, <1>6, <1>7, RestartTells
<1>9. /\ playing' = playing \cup {b}
      /\ UNCHANGED <<object, objectMap, stamp, phase, todo, moved, halt>>
  BY <1>2, <1>5 DEF frameVars
<1>. QED  BY <1>2, <1>3, <1>5, <1>6, <1>7, <1>8, <1>9, AnewKeeps

\* A user leaves: its block keeps what it holds, and nobody shows it any more.
LEMMA OnUserLeaveKeeps ==
  ASSUME GInv, NEW b \in Blocks, OnUserLeave(b)
  PROVE  GInv'
<1> DEFINE p   == player[b]
           id  == player[b].clientID
           N   == Around(player[b].cur)
           see == PlayersIn(N) \ {b}
<1>1. /\ TypeOK /\ Walks /\ Unique /\ PlayersFiled /\ ObjectsFiled /\ Placed /\ Swept
      /\ Exact /\ Shows /\ Alive /\ NeverOverflows
  BY GInvParts
<1>2. b \in playing /\ phase = "leave"
  BY DEF OnUserLeave, In
<1>3. p.cur \in Sectors /\ b \in playerMap[p.cur] /\ N \subseteq Sectors
  BY <1>1, <1>2, AroundIs DEF PlayersFiled
<1>4. /\ playing' = playing \ {b}
      /\ Tell({b}, Nothing, About(see, id))
      /\ playerMap' = [playerMap EXCEPT ![p.cur] = @ \ {b}]
      /\ UNCHANGED <<player, object, objectMap, stamp, phase, todo, moved, halt>>
  BY <1>3 DEF OnUserLeave, frameVars
<1>5. \A c : c \in see <=> c \in playing /\ player[c].cur \in N /\ c # b
  BY <1>1, <1>3, PlayersInIs
<1>6. /\ playing \subseteq Blocks /\ shown \in [Blocks -> SUBSET IDs]
      /\ player \in [Blocks -> Player] /\ playerMap \in [Sectors -> SUBSET Blocks]
  BY <1>1, TypeParts
<1>. HIDE DEF see
<1>7. /\ \A c \in Blocks : \A i : i \in About(see, id)[c] <=> c \in see /\ i = id
      /\ \A c \in Blocks : \A i : i \notin Nothing[c]
  BY AboutIs
<1>8. ASSUME NEW c \in Blocks, NEW i \in IDs
      PROVE  /\ i \in About(see, id)[c] => c \notin {b} /\ i \in shown[c]
             /\ i \in Nothing[c] /\ c \notin {b} /\ i \in shown[c] => i \in About(see, id)[c]
  BY <1>1, <1>2, <1>5, <1>7, SeenBy
<1>9. /\ Exact'
      /\ \A c \in Blocks, i \in IDs :
           i \in shown'[c] <=> \/ i \in Nothing[c]
                               \/ c \notin {b} /\ i \in shown[c] /\ i \notin About(see, id)[c]
  BY <1>1, <1>4, <1>8, Told
<1>10. \A c \in Blocks, i \in IDs :
         i \in shown'[c] <=> c # b /\ i \in shown[c] /\ ~(c \in see /\ i = id)
  BY <1>7, <1>9
<1>11. PlayersFiled'
  <2>1. \A c \in playing' : player'[c].cur \in Sectors
    BY <1>1, <1>4 DEF PlayersFiled
  <2>2. ASSUME NEW s \in Sectors
        PROVE  playerMap'[s] = {c \in playing' : player'[c].cur = s}
    <3>1. playerMap[s] = {c \in playing : player[c].cur = s}
      BY <1>1 DEF PlayersFiled
    <3>2. playerMap'[s] = IF s = p.cur THEN playerMap[s] \ {b} ELSE playerMap[s]
      BY <1>4, <1>6
    <3>3. CASE s = p.cur
      BY <1>4, <3>1, <3>2, <3>3
    <3>4. CASE s # p.cur
      BY <1>4, <3>1, <3>2, <3>4
    <3>. QED  BY <3>3, <3>4
  <2>. QED  BY <2>1, <2>2 DEF PlayersFiled
<1>12. TypeOK'
  <2>1. playerMap' \in [Sectors -> SUBSET Blocks]
    BY <1>3, <1>4, <1>6
  <2>2. playing' \subseteq Blocks /\ player' \in [Blocks -> Player]
    BY <1>4, <1>6
  <2>3. /\ DOMAIN object' \subseteq IDs /\ \A o \in DOMAIN object' : object'[o] \in Object
        /\ objectMap' \in [Sectors -> SUBSET IDs] /\ stamp' \in 1 .. MaxStamp
        /\ phase' \in Phases /\ todo' \subseteq DOMAIN object' /\ moved' \subseteq DOMAIN object'
        /\ halt' \in Halts /\ \A c \in Blocks : player'[c].HP <= HP_MAX
    BY <1>1, <1>4, TypeParts
  <2>4. told' \in [Blocks -> [IDs -> Int]]
    BY <1>9, ExactIs
  <2>. QED  BY <2>1, <2>2, <2>3, <2>4 DEF TypeOK
<1>13. Unique' /\ Walks' /\ Alive' /\ NeverOverflows' /\ Placed' /\ Swept'
  BY <1>1, <1>4 DEF Unique, Walks, Alive, NeverOverflows, Placed, Swept
<1>14. KnownOnce' /\ ObjectsFiled'
  <2>1. KnownOnce'
    BY <1>2, <1>4, <1>13, NoneMoving
  <2>. QED  BY <1>1, <1>4, <2>1 DEF ObjectsFiled, FiledAt, Moving
<1>15. ASSUME NEW c \in Blocks, NEW i \in IDs
       PROVE  i \in shown'[c]
                <=> /\ c \in playing'
                    /\ SeesPlayer(player[c].cur, i)' \/ SeesObject(player[c].cur, i)'
  <2>1. CASE c = b
    BY <1>4, <1>10, <2>1
  <2>2. CASE c # b /\ c \notin playing
    <3>1. c \notin see /\ c \notin playing'
      BY <1>4, <1>5, <2>2
    <3>2. i \notin shown[c]
      BY <1>1, <2>2 DEF Shows
    <3>. QED  BY <1>10, <2>2, <3>1, <3>2
  <2>3. CASE c \in playing \ {b}
    <3>1. c \in playing' /\ player'[c].cur = player[c].cur
      BY <1>4, <2>3
    <3>2. PICK x \in Sectors : x = player[c].cur
      BY <1>1, <2>3 DEF PlayersFiled
    <3>3. SeesPlayer(x, i)'
            <=> \E d \in playing \ {b} : player[d].cur \in Around(x) /\ i = player[d].clientID
      BY <1>4 DEF SeesPlayer
    <3>4. SeesObject(x, i)' <=> SeesObject(x, i)
      BY <1>4 DEF SeesObject
    <3>5. /\ SeesPlayer(player[c].cur, i)' <=> SeesPlayer(x, i)'
          /\ SeesObject(player[c].cur, i)' <=> SeesObject(x, i)'
      BY <3>1, <3>2 DEF SeesPlayer, SeesObject
    <3>6. i \in shown[c] <=> SeesPlayer(x, i) \/ SeesObject(x, i)
      BY <1>1, <2>3, <3>2 DEF Shows
    <3>7. CASE i # id
      <4>1. i \in shown'[c] <=> i \in shown[c]
        BY <1>10, <2>3, <3>7
      <4>2. SeesPlayer(x, i)' <=> SeesPlayer(x, i)
        BY <3>3, <3>7 DEF SeesPlayer
      <4>. QED  BY <3>1, <3>4, <3>5, <3>6, <4>1, <4>2
    <3>8. CASE i = id
      <4>1. id \in shown[c] <=> c \in see
        BY <1>1, <1>2, <1>5, <2>3, SeenBy
      <4>2. i \notin shown'[c]
        BY <1>10, <2>3, <3>8, <4>1
      <4>3. ~SeesPlayer(x, i)'
        BY <1>1, <1>2, <3>3, <3>8 DEF Unique
      <4>4. ~SeesObject(x, i)'
        BY <1>1, <1>2, <3>4, <3>8, AroundIs DEF Unique, ObjectsFiled, SeesObject
      <4>. QED  BY <3>5, <4>2, <4>3, <4>4
    <3>. QED  BY <3>7, <3>8
  <2>. QED  BY <2>1, <2>2, <2>3
<1>16. Shows'
  BY <1>15 DEF Shows
<1>. QED  BY <1>9, <1>11, <1>12, <1>13, <1>14, <1>16 DEF GInv

-----------------------------------------------------------------------------
(***************************************************************************)
(* Objects come, go and are refiled.                                       *)
(***************************************************************************)
\* The views, when only the objects with some IDs have changed and everyone was told.
LEMMA SeenOf ==
  ASSUME Shows, PlayersFiled, UNCHANGED <<playing, player>>, NEW I,
         \A b \in playing : player[b].clientID \notin I,
         \A c \in Blocks, i \in IDs \ I : i \in shown'[c] <=> i \in shown[c],
         \A s \in Sectors, i \in IDs \ I :
           i \in objectMap'[s] /\ ~object'[i].destroyed
             <=> i \in objectMap[s] /\ ~object[i].destroyed,
         \A c \in Blocks, i \in IDs \cap I :
           i \in shown'[c] <=> /\ c \in playing
                               /\ \E s \in Around(player[c].cur) :
                                    i \in objectMap'[s] /\ ~object'[i].destroyed
  PROVE  Shows'
<1>1. ASSUME NEW x, NEW i PROVE SeesPlayer(x, i)' <=> SeesPlayer(x, i)
  BY DEF SeesPlayer
<1>2. ASSUME NEW c \in Blocks, NEW i \in IDs
      PROVE  i \in shown'[c]
               <=> /\ c \in playing'
                   /\ SeesPlayer(player[c].cur, i)' \/ SeesObject(player[c].cur, i)'
  <2>1. SeesPlayer(player[c].cur, i)' <=> SeesPlayer(player[c].cur, i)
    BY DEF SeesPlayer
  <2>2. SeesObject(player[c].cur, i)' <=>
          \E s \in Around(player[c].cur) : i \in objectMap'[s] /\ ~object'[i].destroyed
    BY DEF SeesObject
  <2>3. CASE i \in I
    <3>1. ~SeesPlayer(player[c].cur, i)
      BY <2>3 DEF SeesPlayer
    <3>2. i \in shown'[c] <=> c \in playing /\ SeesObject(player[c].cur, i)'
      BY <2>2, <2>3
    <3>3. c \in playing' <=> c \in playing
      OBVIOUS
    <3>. QED  BY <2>1, <3>1, <3>2, <3>3
  <2>4. CASE i \notin I
    <3>1. i \in shown[c] <=> /\ c \in playing
                             /\ SeesPlayer(player[c].cur, i) \/ SeesObject(player[c].cur, i)
      BY DEF Shows
    <3>2. ASSUME c \in playing
          PROVE  SeesObject(player[c].cur, i)' <=> SeesObject(player[c].cur, i)
      <4>1. Around(player[c].cur) \subseteq Sectors
        BY <3>2, AroundIs DEF PlayersFiled
      <4>. QED  BY <2>2, <2>4, <4>1 DEF SeesObject
    <3>3. (i \in shown'[c] <=> i \in shown[c]) /\ playing' = playing
      BY <2>4
    <3>. QED  BY <2>1, <3>1, <3>2, <3>3
  <2>. QED  BY <2>3, <2>4
<1>. QED  BY <1>2 DEF Shows

\* A step that changes objects only: what is left to show of it.
LEMMA ObjectsOnly ==
  ASSUME GInv, UNCHANGED <<playing, player, playerMap, halt>>,
         stamp' \in 1 .. MaxStamp, stamp <= stamp', DOMAIN object' \subseteq IDs,
         \A o \in DOMAIN object' : /\ object'[o] \in Object /\ o < stamp'
                                   /\ object'[o].cur = SectorOf(object'[o].tile)
                                   /\ o \in DOMAIN object \/ o = stamp,
         objectMap' \in [Sectors -> SUBSET IDs], Exact',
         phase' \in Phases, phase # "users", phase' # "users",
         todo' \subseteq DOMAIN object', moved' \subseteq DOMAIN object',
         ObjectsFiled', KnownOnce', Shows', Walks', Swept'
  PROVE  GInv'
<1>1. /\ TypeOK /\ Unique /\ PlayersFiled /\ ObjectsFiled /\ Alive /\ NeverOverflows
  BY GInvParts
<1>2. TypeOK'
  BY <1>1, TypeParts, ExactIs DEF TypeOK
<1>3. PlayersFiled' /\ Placed' /\ Alive' /\ NeverOverflows'
  BY <1>1 DEF PlayersFiled, Placed, Alive, NeverOverflows
<1>4. Unique'
  <2>1. MaxStamp \in Nat /\ stamp \in Nat /\ stamp' \in Nat
    BY <1>1, IDsAre, SizeAssumption
  <2>2. \A b \in Blocks : player'[b].clientID < stamp'
    <3>1. \A b \in Blocks : player[b].clientID \in 0 .. MaxStamp /\ player[b].clientID < stamp
      BY <1>1, TypeParts, PlayerParts DEF Unique
    <3>. QED  BY <2>1, <3>1
  <2>3. \A b \in playing' : player'[b].clientID # 0 /\ player'[b].clientID \notin DOMAIN object'
    <3>1. \A b \in playing : player[b].clientID # 0 /\ player[b].clientID \notin DOMAIN object
      BY <1>1 DEF Unique
    <3>2. \A b \in playing : player[b].clientID # stamp
      <4>1. \A b \in playing : player[b].clientID \in Nat /\ player[b].clientID < stamp
        BY <1>1, IDsAre
      <4>. QED  BY <2>1, <4>1
    <3>. QED  BY <3>1, <3>2
  <2>4. \A b, c \in playing' : player'[b].clientID = player'[c].clientID => b = c
    BY <1>1 DEF Unique
  <2>. QED  BY <2>2, <2>3, <2>4 DEF Unique
<1>. QED  BY <1>2, <1>3, <1>4 DEF GInv

\* A pick marks the crystal and takes it from all who see it.
LEMMA DestroyedIs ==
  ASSUME NEW m \in Object
  PROVE  /\ [m EXCEPT !.destroyed = TRUE] \in Object /\ [m EXCEPT !.destroyed = TRUE].destroyed
         /\ [m EXCEPT !.destroyed = TRUE].cur = m.cur /\ [m EXCEPT !.destroyed = TRUE].old = m.old
         /\ [m EXCEPT !.destroyed = TRUE].tile = m.tile
  BY DEF Object

\* Where an object that does not move is filed.
LEMMA FiledThere ==
  ASSUME TypeOK, Walks, ObjectsFiled, NEW o \in DOMAIN object, o \notin moved, phase # "refile"
  PROVE  object[o].cur \in Sectors /\ FiledAt(o, object[o].cur)
<1>1. ~Moving(o)
  BY DEF Moving
<1>. QED  BY <1>1 DEF ObjectsFiled

\* Who sees an object that is filed in s.
LEMMA SeersOf ==
  ASSUME PlayersFiled, NEW c \in playing, NEW s \in Sectors
  PROVE  c \in PlayersIn(Around(s)) <=> s \in Around(player[c].cur)
<1>1. player[c].cur \in Sectors /\ Around(s) \subseteq Sectors
  BY AroundIs DEF PlayersFiled
<1>2. c \in PlayersIn(Around(s)) <=> player[c].cur \in Around(s)
  BY <1>1, PlayersInIs
<1>. QED  BY <1>1, <1>2, AroundIs

\* Only who plays shows anything.
LEMMA OnlyPlayers ==
  ASSUME TypeOK, Shows, PlayersFiled, NEW c \in Blocks, c \notin playing
  PROVE  shown[c] = {} /\ \A s \in Sectors : c \notin PlayersIn(Around(s))
<1>1. shown[c] \subseteq IDs
  BY TypeParts
<1>2. \A s \in Sectors : c \notin PlayersIn(Around(s))
  BY AroundIs, PlayersInIs
<1>. QED  BY <1>1, <1>2 DEF Shows

\* Whoever has an object around that is not to be destroyed shows it.
LEMMA ShownTo ==
  ASSUME TypeOK, PlayersFiled, Shows, NEW o \in DOMAIN object, ~object[o].destroyed,
         NEW s \in Sectors, FiledAt(o, s), NEW c \in PlayersIn(Around(s))
  PROVE  c \in Blocks /\ c \in playing /\ o \in shown[c]
<1>1. c \in playing
  BY AroundIs, PlayersInIs
<1>2. c \in Blocks /\ o \in IDs
  BY <1>1, TypeParts
<1>3. s \in Around(player[c].cur)
  BY <1>1, SeersOf
<1>4. SeesObject(player[c].cur, o)
  BY <1>3 DEF SeesObject, FiledAt
<1>. QED  BY <1>1, <1>2, <1>4 DEF Shows

\* Some clients that show an object are told that it is gone; some that do not are told
\* that it is there.
LEMMA ToldGone ==
  ASSUME Exact, NEW B, NEW o, Tell({}, Nothing, About(B, o)),
         \A c \in B : c \in Blocks /\ o \in shown[c]
  PROVE  /\ Exact' /\ \A c \in Blocks : shown'[c] = IF c \in B THEN shown[c] \ {o} ELSE shown[c]
<1>1. /\ \A c \in Blocks : \A i : i \in About(B, o)[c] <=> c \in B /\ i = o
      /\ \A c \in Blocks : \A i : i \notin Nothing[c]
  BY AboutIs
<1>2. /\ Exact' /\ shown \in [Blocks -> SUBSET IDs] /\ shown' \in [Blocks -> SUBSET IDs]
      /\ \A c \in Blocks, i \in IDs :
           i \in shown'[c] <=> \/ i \in Nothing[c]
                               \/ c \notin {} /\ i \in shown[c] /\ i \notin About(B, o)[c]
  <2>1. ASSUME NEW c \in Blocks, NEW i \in IDs
        PROVE  /\ i \in About(B, o)[c] => c \notin {} /\ i \in shown[c]
               /\ i \in Nothing[c] /\ c \notin {} /\ i \in shown[c] => i \in About(B, o)[c]
    BY <1>1
  <2>. QED  BY <2>1, Told
<1>3. \A c \in Blocks : shown[c] \subseteq IDs /\ shown'[c] \subseteq IDs
  BY <1>2
<1>4. \A c \in Blocks, i \in IDs : i \in shown'[c] <=> i \in shown[c] /\ ~(c \in B /\ i = o)
  BY <1>1, <1>2
<1>. QED  BY <1>2, <1>3, <1>4

LEMMA ToldNew ==
  ASSUME Exact, NEW B, NEW n \in IDs, Tell({}, About(B, n), Nothing),
         \A c \in Blocks : n \notin shown[c]
  PROVE  /\ Exact' /\ \A c \in Blocks : shown'[c] = IF c \in B THEN shown[c] \cup {n} ELSE shown[c]
<1>1. /\ \A c \in Blocks : \A i : i \in About(B, n)[c] <=> c \in B /\ i = n
      /\ \A c \in Blocks : \A i : i \notin Nothing[c]
  BY AboutIs
<1>2. /\ Exact' /\ shown \in [Blocks -> SUBSET IDs] /\ shown' \in [Blocks -> SUBSET IDs]
      /\ \A c \in Blocks, i \in IDs :
           i \in shown'[c] <=> \/ i \in About(B, n)[c]
                               \/ c \notin {} /\ i \in shown[c] /\ i \notin Nothing[c]
  <2>1. ASSUME NEW c \in Blocks, NEW i \in IDs
        PROVE  /\ i \in Nothing[c] => c \notin {} /\ i \in shown[c]
               /\ i \in About(B, n)[c] /\ c \notin {} /\ i \in shown[c] => i \in Nothing[c]
    BY <1>1
  <2>. QED  BY <2>1, Told
<1>3. \A c \in Blocks : shown[c] \subseteq IDs /\ shown'[c] \subseteq IDs
  BY <1>2
<1>4. \A c \in Blocks, i \in IDs : i \in shown'[c] <=> i \in shown[c] \/ (c \in B /\ i = n)
  BY <1>1, <1>2
<1>. QED  BY <1>2, <1>3, <1>4

LEMMA ToldBoth ==
  ASSUME Exact, NEW B, NEW D, NEW n \in IDs, NEW o, Tell({}, About(B, n), About(D, o)),
         \A c \in Blocks : (c \in B => n \notin shown[c]) /\ (c \in D => o \in shown[c])
  PROVE  /\ Exact' /\ shown \in [Blocks -> SUBSET IDs] /\ shown' \in [Blocks -> SUBSET IDs]
         /\ \A c \in Blocks, i \in IDs :
              i \in shown'[c] <=> \/ i \in shown[c] /\ ~(c \in D /\ i = o)
                                  \/ c \in B /\ i = n
<1>1. /\ \A c \in Blocks : \A i : i \in About(B, n)[c] <=> c \in B /\ i = n
      /\ \A c \in Blocks : \A i : i \in About(D, o)[c] <=> c \in D /\ i = o
  BY AboutIs
<1>2. /\ Exact' /\ shown \in [Blocks -> SUBSET IDs] /\ shown' \in [Blocks -> SUBSET IDs]
      /\ \A c \in Blocks, i \in IDs :
           i \in shown'[c] <=> \/ i \in About(B, n)[c]
                               \/ c \notin {} /\ i \in shown[c] /\ i \notin About(D, o)[c]
  <2>1. ASSUME NEW c \in Blocks, NEW i \in IDs
        PROVE  /\ i \in About(D, o)[c] => c \notin {} /\ i \in shown[c]
               /\ i \in About(B, n)[c] /\ c \notin {} /\ i \in shown[c] => i \in About(D, o)[c]
    BY <1>1
  <2>. QED  BY <2>1, Told
<1>3. \A c \in Blocks, i \in IDs :
        i \in shown'[c] <=> \/ i \in shown[c] /\ ~(c \in D /\ i = o)
                            \/ c \in B /\ i = n
  BY <1>1, <1>2
<1>. QED  BY <1>2, <1>3

\* A pick takes the crystal from all who see it.
LEMMA ReqPickKeeps ==
  ASSUME GInv, NEW b \in Blocks, NEW o \in DOMAIN object, ReqPick(b, o)
  PROVE  GInv'
<1> DEFINE s   == object[o].cur
           see == PlayersIn(Around(object[o].cur))
<1>1. /\ TypeOK /\ Walks /\ Unique /\ PlayersFiled /\ ObjectsFiled /\ Placed /\ Exact /\ Shows
  BY GInvParts
<1>2. /\ phase = "msgs" /\ object' = [object EXCEPT ![o].destroyed = TRUE]
      /\ Tell({}, Nothing, About(see, o))
      /\ UNCHANGED <<playing, player, playerMap, objectMap, stamp, phase, todo, moved, halt>>
  BY DEF ReqPick, In, frameVars
<1>. HIDE DEF see
<1>3. moved = {} /\ todo = {}
  BY <1>1, <1>2 DEF Walks
<1>4. s \in Sectors /\ FiledAt(o, s)
  BY <1>1, <1>2, <1>3, FiledThere
<1>5. shown \in [Blocks -> SUBSET IDs] /\ o \in IDs
  BY <1>1, TypeParts
<1>6. \A c \in see : c \in Blocks /\ o \in shown[c]
  <2>1. ~object[o].destroyed
    BY DEF ReqPick, ObjectsIn
  <2>. QED  BY <1>1, <1>4, <2>1, ShownTo DEF see
<1>7. /\ Exact'
      /\ \A c \in Blocks : shown'[c] = IF c \in see THEN shown[c] \ {o} ELSE shown[c]
  BY <1>1, <1>2, <1>6, ToldGone
<1>8. DOMAIN object' = DOMAIN object
  BY <1>2
<1>9. ASSUME NEW x \in DOMAIN object
      PROVE  /\ object'[x] \in Object
             /\ object'[x].cur = object[x].cur /\ object'[x].old = object[x].old
             /\ object'[x].tile = object[x].tile
             /\ object'[x].destroyed = IF x = o THEN TRUE ELSE object[x].destroyed
  <2>1. PICK m \in Object : m = object[x]
    BY <1>1, TypeParts
  <2>2. object'[x] = IF x = o THEN [m EXCEPT !.destroyed = TRUE] ELSE m
    BY <1>2, <2>1
  <2>. QED  BY <2>1, <2>2, DestroyedIs
<1>10. ObjectsFiled' /\ Walks' /\ Swept'
  <2>1. \A x \in DOMAIN object : Moving(x) => Moving(x)'
    BY <1>2 DEF Moving
  <2>. QED  BY <1>1, <1>2, <1>8, <1>9, <2>1, ObjectsStay DEF Walks, Swept
<1>11. Shows'
  <2>1. \A c \in playing : player[c].clientID \notin {o}
    BY <1>1 DEF Unique
  <2>2. \A c \in Blocks, i \in IDs \ {o} : i \in shown'[c] <=> i \in shown[c]
    BY <1>7
  <2>3. \A u \in Sectors, i \in IDs \ {o} :
          i \in objectMap'[u] /\ ~object'[i].destroyed
            <=> i \in objectMap[u] /\ ~object[i].destroyed
    <3>1. \A u \in Sectors : objectMap[u] \subseteq DOMAIN object /\ objectMap'[u] = objectMap[u]
      BY <1>1, <1>2 DEF ObjectsFiled
    <3>. QED  BY <1>9, <3>1
  <2>4. ASSUME NEW c \in Blocks
        PROVE  o \notin shown'[c] /\ object'[o].destroyed
    <3>1. CASE c \notin playing
      BY <1>1, <1>7, <1>9, <3>1, OnlyPlayers
    <3>2. CASE c \in playing
      <4>1. o \in shown[c] => SeesObject(player[c].cur, o)
        BY <1>1, <1>5, <2>1, <3>2 DEF Shows, SeesPlayer
      <4>2. SeesObject(player[c].cur, o) => s \in Around(player[c].cur)
        <5>1. Around(player[c].cur) \subseteq Sectors
          BY <1>1, <3>2, AroundIs DEF PlayersFiled
        <5>. QED  BY <1>4, <5>1 DEF SeesObject, FiledAt
      <4>3. s \in Around(player[c].cur) => c \in see
        BY <1>1, <1>4, <3>2, SeersOf DEF see
      <4>. QED  BY <1>7, <1>9, <4>1, <4>2, <4>3
    <3>. QED  BY <3>1, <3>2
  <2>5. \A c \in Blocks, i \in IDs \cap {o} :
          i \in shown'[c] <=> /\ c \in playing
                              /\ \E u \in Around(player[c].cur) :
                                   i \in objectMap'[u] /\ ~object'[i].destroyed
    BY <2>4
  <2>. QED  BY <1>1, <1>2, <2>1, <2>2, <2>3, <2>5, SeenOf
<1>12. /\ stamp' \in 1 .. MaxStamp /\ stamp <= stamp' /\ DOMAIN object' \subseteq IDs
       /\ \A x \in DOMAIN object' : x < stamp'
       /\ objectMap' \in [Sectors -> SUBSET IDs] /\ phase' \in Phases
       /\ todo' \subseteq DOMAIN object' /\ moved' \subseteq DOMAIN object'
  BY <1>1, <1>2, <1>8, TypeParts, SizeAssumption DEF Unique
<1>13. \A x \in DOMAIN object' : object'[x] \in Object /\ object'[x].cur = SectorOf(object'[x].tile)
  BY <1>1, <1>8, <1>9 DEF Placed
<1>14. KnownOnce'
  BY <1>2, <1>10, NoneMoving
<1>. QED  BY <1>2, <1>7, <1>8, <1>10, <1>11, <1>12, <1>13, <1>14, ObjectsOnly

\* A new object is in the sector of its tile.
LEMMA NewObjectIs ==
  ASSUME NEW type \in {"monster", "crystal"}, NEW t \in Tiles, NEW old \in Sectors \cup {None}
  PROVE  /\ NewObject(type, t, old) \in Object /\ NewObject(type, t, old).cur = SectorOf(t)
         /\ NewObject(type, t, old).tile = t /\ ~NewObject(type, t, old).destroyed
<1>1. SectorOf(t) \in Sectors /\ MonsterHP \in Int /\ MaxStamp \in Nat
  BY SectorIn, SizeAssumption
<1>2. PICK s \in Sectors : s = SectorOf(t)
  BY <1>1
<1>. QED  BY <1>1, <1>2 DEF NewObject, Object

\* An object with a new ID is filed where it is.
LEMMA NewFiled ==
  ASSUME TypeOK, ObjectsFiled, stamp \notin DOMAIN object, NEW s \in Sectors,
         DOMAIN object' = DOMAIN object \cup {stamp}, object'[stamp].cur = s,
         \A o \in DOMAIN object : /\ object'[o].cur = object[o].cur
                                  /\ object'[o].old = object[o].old
                                  /\ Moving(o) => Moving(o)',
         objectMap' = [objectMap EXCEPT ![s] = @ \cup {stamp}]
  PROVE  /\ ObjectsFiled'
         /\ \A i : \A u \in Sectors :
           i \in objectMap'[u] <=> i \in objectMap[u] \/ (u = s /\ i = stamp)
<1>1. objectMap \in [Sectors -> SUBSET IDs]
  BY TypeParts
<1>2. \A i : \A u \in Sectors :
           i \in objectMap'[u] <=> i \in objectMap[u] \/ (u = s /\ i = stamp)
  BY <1>1
<1>3. \A u \in Sectors : objectMap'[u] \subseteq DOMAIN object'
  BY <1>2 DEF ObjectsFiled
<1>4. ASSUME NEW o \in DOMAIN object'
      PROVE  \E u \in Sectors :
               FiledAt(o, u)' /\ (u = object'[o].cur \/ (Moving(o)' /\ u = object'[o].old))
  <2>1. CASE o = stamp
    <3>1. \A u \in Sectors : stamp \notin objectMap[u]
      BY DEF ObjectsFiled
    <3>2. FiledAt(o, s)'
      BY <1>2, <2>1, <3>1 DEF FiledAt
    <3>. QED  BY <2>1, <3>2
  <2>2. CASE o # stamp
    <3>1. o \in DOMAIN object
      BY <2>2
    <3>2. PICK u \in Sectors :
            FiledAt(o, u) /\ (u = object[o].cur \/ (Moving(o) /\ u = object[o].old))
      BY <3>1 DEF ObjectsFiled
    <3>3. FiledAt(o, u)'
      BY <1>2, <2>2, <3>2 DEF FiledAt
    <3>. QED  BY <3>1, <3>2, <3>3
  <2>. QED  BY <2>1, <2>2
<1>. QED  BY <1>2, <1>3, <1>4 DEF ObjectsFiled

\* A monster is made: it is filed in one sector, and those around see it.
LEMMA GenerateKeeps ==
  ASSUME GInv, NEW t \in monsterRespawn, NEW old \in LeftOver, GenerateNewMonster(t, old)
  PROVE  GInv'
<1> DEFINE s   == SectorOf(t)
           new == NewObject("monster", t, old)
           see == PlayersIn(Around(SectorOf(t)))
<1>1. /\ TypeOK /\ Walks /\ Unique /\ PlayersFiled /\ ObjectsFiled /\ Placed /\ Swept
      /\ Exact /\ Shows
  BY GInvParts
<1>2. /\ phase = "generate" /\ stamp < MaxStamp
      /\ object' = Insert(object, stamp, new)
      /\ objectMap' = [objectMap EXCEPT ![s] = @ \cup {stamp}]
      /\ Tell({}, About(see, stamp), Nothing)
      /\ stamp' = stamp + 1
      /\ UNCHANGED <<playing, player, playerMap, phase, todo, moved, halt>>
  BY DEF GenerateNewMonster, In, frameVars
<1>3. t \in Tiles /\ old \in Sectors \cup {None} /\ s \in Sectors
  BY FieldAssumption, SectorIn
<1>4. new \in Object /\ new.cur = s /\ new.tile = t /\ ~new.destroyed
  BY <1>3, NewObjectIs
<1>. HIDE DEF new, see
<1>5. /\ stamp \in IDs /\ stamp \in Nat /\ stamp \notin DOMAIN object /\ stamp' \in 1 .. MaxStamp
      /\ stamp < stamp'
  <2>1. stamp \in Nat /\ stamp \in IDs /\ stamp \notin DOMAIN object /\ stamp + 1 \in 1 .. MaxStamp
    BY <1>1, <1>2, IDsAre
  <2>. QED  BY <1>2, <2>1
<1>6. /\ DOMAIN object' = DOMAIN object \cup {stamp} /\ object'[stamp] = new
      /\ \A o \in DOMAIN object : object'[o] = object[o]
  <2>1. object' = [o \in DOMAIN object \cup {stamp} |-> IF o = stamp THEN new ELSE object[o]]
    BY <1>2 DEF Insert
  <2>. QED  BY <1>5, <2>1
<1>7. /\ ObjectsFiled'
      /\ \A i : \A u \in Sectors :
           i \in objectMap'[u] <=> i \in objectMap[u] \/ (u = s /\ i = stamp)
  <2>1. \A o \in DOMAIN object : Moving(o) => Moving(o)'
    BY <1>2 DEF Moving
  <2>2. /\ object'[stamp].cur = s
        /\ \A o \in DOMAIN object : /\ object'[o].cur = object[o].cur
                                    /\ object'[o].old = object[o].old
    BY <1>4, <1>6
  <2>3. stamp \notin DOMAIN object /\ DOMAIN object' = DOMAIN object \cup {stamp}
    BY <1>5, <1>6
  <2>. QED  BY <1>1, <1>2, <1>3, <2>1, <2>2, <2>3, NewFiled
<1>8. \A c \in Blocks : stamp \notin shown[c]
  <2>1. ~(stamp < stamp)
    BY <1>5
  <2>. QED  BY <1>1, <2>1, ShownIDs
<1>9. /\ Exact'
      /\ \A c \in Blocks : shown'[c] = IF c \in see THEN shown[c] \cup {stamp} ELSE shown[c]
  BY <1>1, <1>2, <1>5, <1>8, ToldNew
<1>10. objectMap' \in [Sectors -> SUBSET IDs]
  <2>1. objectMap \in [Sectors -> SUBSET IDs]
    BY <1>1, TypeParts
  <2>. QED  BY <1>2, <1>5, <2>1
<1>11. Shows'
  <2>1. \A c \in playing : player[c].clientID \notin {stamp}
    BY <1>1, <1>5, IDsAre
  <2>2. \A c \in Blocks, i \in IDs \ {stamp} : i \in shown'[c] <=> i \in shown[c]
    BY <1>9
  <2>3. \A u \in Sectors, i \in IDs \ {stamp} :
          i \in objectMap'[u] /\ ~object'[i].destroyed
            <=> i \in objectMap[u] /\ ~object[i].destroyed
    <3>1. \A u \in Sectors : objectMap[u] \subseteq DOMAIN object
      BY <1>1 DEF ObjectsFiled
    <3>. QED  BY <1>6, <1>7, <3>1
  <2>4. \A u \in Sectors : stamp \in objectMap'[u] <=> u = s
    <3>1. \A u \in Sectors : stamp \notin objectMap[u]
      BY <1>1, <1>5 DEF ObjectsFiled
    <3>. QED  BY <1>7, <3>1
  <2>5. ASSUME NEW c \in Blocks
        PROVE  stamp \in shown'[c] <=> /\ c \in playing
                                       /\ \E u \in Around(player[c].cur) :
                                            stamp \in objectMap'[u] /\ ~object'[stamp].destroyed
    <3>1. stamp \notin shown[c]
      BY <1>8
    <3>2. CASE c \notin playing
      BY <1>1, <1>3, <1>9, <3>1, <3>2, OnlyPlayers DEF see
    <3>3. CASE c \in playing
      <4>1. Around(player[c].cur) \subseteq Sectors
        BY <1>1, <3>3, AroundIs DEF PlayersFiled
      <4>2. c \in see <=> s \in Around(player[c].cur)
        BY <1>1, <1>3, <3>3, SeersOf DEF see
      <4>. QED  BY <1>3, <1>4, <1>6, <1>9, <2>4, <3>1, <3>3, <4>1, <4>2
    <3>. QED  BY <3>2, <3>3
  <2>6. \A c \in Blocks, i \in IDs \cap {stamp} :
          i \in shown'[c] <=> /\ c \in playing
                              /\ \E u \in Around(player[c].cur) :
                                   i \in objectMap'[u] /\ ~object'[i].destroyed
    BY <2>5
  <2>. QED  BY <1>1, <1>2, <2>1, <2>2, <2>3, <2>6, SeenOf
<1>12. /\ \A x \in DOMAIN object' : object'[x] \in Object
       /\ \A x \in DOMAIN object' : object'[x].cur = SectorOf(object'[x].tile)
       /\ DOMAIN object' \subseteq IDs
  BY <1>1, <1>4, <1>5, <1>6, TypeParts DEF Placed
<1>13. \A x \in DOMAIN object' : x < stamp'
  <2>1. \A x \in DOMAIN object : x \in Nat /\ x < stamp
    BY <1>1, TypeParts, IDsAre DEF Unique
  <2>2. stamp' \in Nat
    BY <1>2, <1>5
  <2>. QED  BY <1>5, <1>6, <2>1, <2>2
<1>14. /\ phase' \in Phases /\ todo' \subseteq DOMAIN object' /\ moved' \subseteq DOMAIN object'
       /\ Walks' /\ Swept' /\ stamp <= stamp'
  BY <1>1, <1>2, <1>4, <1>5, <1>6, TypeParts DEF Walks, Swept
<1>15. KnownOnce'
  BY <1>2, <1>14, NoneMoving
<1>. QED  BY <1>2, <1>5, <1>6, <1>7, <1>9, <1>10, <1>11, <1>12, <1>13, <1>14, <1>15, ObjectsOnly

\* Who shows an object that is filed in s has it around.
LEMMA ShownByIs ==
  ASSUME TypeOK, Unique, PlayersFiled, Shows, NEW o \in DOMAIN object,
         NEW s \in Sectors, FiledAt(o, s), NEW c \in Blocks, o \in shown[c]
  PROVE  c \in playing /\ c \in PlayersIn(Around(s))
<1>1. o \in IDs
  BY TypeParts
<1>2. c \in playing /\ (SeesPlayer(player[c].cur, o) \/ SeesObject(player[c].cur, o))
  BY <1>1 DEF Shows
<1>3. ~SeesPlayer(player[c].cur, o)
  BY DEF Unique, SeesPlayer
<1>4. Around(player[c].cur) \subseteq Sectors
  BY <1>2, AroundIs DEF PlayersFiled
<1>5. s \in Around(player[c].cur)
  BY <1>2, <1>3, <1>4 DEF SeesObject, FiledAt
<1>. QED  BY <1>2, <1>5, SeersOf

\* A dead monster leaves a crystal in its sector.
LEMMA RemoveMonsterKeeps ==
  ASSUME GInv, NEW o \in todo, NEW missed \in SUBSET todo, RemoveMonster(o, missed)
  PROVE  GInv'
<1> DEFINE s   == object[o].cur
           new == NewObject("crystal", object[o].tile, None)
           see == PlayersIn(Around(object[o].cur))
<1>1. /\ TypeOK /\ Walks /\ Unique /\ PlayersFiled /\ ObjectsFiled /\ Placed /\ Swept
      /\ Exact /\ Shows
  BY GInvParts
<1>2. /\ phase = "remove" /\ stamp < MaxStamp
      /\ object' = Insert([object EXCEPT ![o].destroyed = TRUE], stamp, new)
      /\ objectMap' = [objectMap EXCEPT ![s] = @ \cup {stamp}]
      /\ Tell({}, About(see, stamp), About(see, o))
      /\ stamp' = stamp + 1
      /\ todo' = todo \ ({o} \cup missed)
      /\ UNCHANGED <<playing, player, playerMap, phase, moved, halt>>
  BY DEF RemoveMonster, In
<1>3. o \in DOMAIN object /\ moved = {} /\ o \in IDs
  BY <1>1, <1>2, TypeParts DEF Walks
<1>4. s \in Sectors /\ FiledAt(o, s)
  BY <1>1, <1>2, <1>3, FiledThere
<1>5. new \in Object /\ new.cur = s /\ new.tile = object[o].tile /\ ~new.destroyed
  <2>1. object[o] \in Object /\ s = SectorOf(object[o].tile)
    BY <1>1, <1>3, TypeParts DEF Placed
  <2>2. object[o].tile \in Tiles
    BY <2>1, ObjectParts
  <2>. QED  BY <2>1, <2>2, NewObjectIs
<1>. HIDE DEF new, see
<1>6. /\ stamp \in IDs /\ stamp \in Nat /\ stamp \notin DOMAIN object /\ stamp' \in 1 .. MaxStamp
      /\ stamp < stamp' /\ o # stamp
  <2>1. stamp \in Nat /\ stamp \in IDs /\ stamp \notin DOMAIN object /\ stamp + 1 \in 1 .. MaxStamp
    BY <1>1, <1>2, IDsAre
  <2>. QED  BY <1>2, <1>3, <2>1
<1>7. /\ DOMAIN object' = DOMAIN object \cup {stamp} /\ object'[stamp] = new
      /\ \A x \in DOMAIN object : object'[x] = [object EXCEPT ![o].destroyed = TRUE][x]
  <2>1. object' = [x \in DOMAIN object \cup {stamp} |->
                     IF x = stamp THEN new ELSE [object EXCEPT ![o].destroyed = TRUE][x]]
    BY <1>2 DEF Insert
  <2>. QED  BY <1>6, <2>1
<1>8. ASSUME NEW x \in DOMAIN object
      PROVE  /\ object'[x] \in Object
             /\ object'[x].cur = object[x].cur /\ object'[x].old = object[x].old
             /\ object'[x].tile = object[x].tile
             /\ object'[x].destroyed = IF x = o THEN TRUE ELSE object[x].destroyed
  <2>1. PICK m \in Object : m = object[x]
    BY <1>1, TypeParts
  <2>2. object'[x] = IF x = o THEN [m EXCEPT !.destroyed = TRUE] ELSE m
    BY <1>7, <2>1
  <2>. QED  BY <2>1, <2>2, DestroyedIs
<1>9. /\ ObjectsFiled'
      /\ \A i : \A u \in Sectors :
           i \in objectMap'[u] <=> i \in objectMap[u] \/ (u = s /\ i = stamp)
  <2>1. \A x \in DOMAIN object : Moving(x) => Moving(x)'
    BY <1>2 DEF Moving
  <2>2. object'[stamp].cur = s
    BY <1>5, <1>7
  <2>3. stamp \notin DOMAIN object /\ DOMAIN object' = DOMAIN object \cup {stamp}
    BY <1>6, <1>7
  <2>. QED  BY <1>1, <1>2, <1>4, <1>8, <2>1, <2>2, <2>3, NewFiled
<1>10. /\ \A c \in Blocks : stamp \notin shown[c]
       /\ \A c \in Blocks : c \in see => o \in shown[c]
  <2>1. ~(stamp < stamp)
    BY <1>6
  <2>2. ~object[o].destroyed
    BY <1>1 DEF Swept
  <2>. QED  BY <1>1, <1>3, <1>4, <2>1, <2>2, ShownIDs, ShownTo DEF see
<1>11. /\ Exact'
       /\ \A c \in Blocks :
            shown'[c] = IF c \in see THEN (shown[c] \ {o}) \cup {stamp} ELSE shown[c]
  <2>1. /\ Exact' /\ shown \in [Blocks -> SUBSET IDs] /\ shown' \in [Blocks -> SUBSET IDs]
        /\ \A c \in Blocks, i \in IDs :
             i \in shown'[c] <=> \/ i \in shown[c] /\ ~(c \in see /\ i = o)
                                 \/ c \in see /\ i = stamp
    <3>1. Exact /\ stamp \in IDs /\ Tell({}, About(see, stamp), About(see, o))
      BY <1>1, <1>2, <1>6
    <3>2. \A c \in Blocks : (c \in see => stamp \notin shown[c]) /\ (c \in see => o \in shown[c])
      BY <1>10
    <3>. QED  BY <3>1, <3>2, ToldBoth, SMTT(60)
  <2>2. /\ \A c \in Blocks : shown[c] \subseteq IDs /\ shown'[c] \subseteq IDs
        /\ stamp \in IDs /\ o # stamp
    BY <1>6, <2>1
  <2>. QED  BY <2>1, <2>2
<1>12. objectMap' \in [Sectors -> SUBSET IDs]
  <2>1. objectMap \in [Sectors -> SUBSET IDs]
    BY <1>1, TypeParts
  <2>. QED  BY <1>2, <1>6, <2>1
<1>13. Shows'
  <2>1. \A c \in playing : player[c].clientID \notin {o, stamp}
    BY <1>1, <1>3, <1>6, IDsAre DEF Unique
  <2>2. \A c \in Blocks, i \in IDs \ {o, stamp} : i \in shown'[c] <=> i \in shown[c]
    BY <1>11
  <2>3. \A u \in Sectors, i \in IDs \ {o, stamp} :
          i \in objectMap'[u] /\ ~object'[i].destroyed
            <=> i \in objectMap[u] /\ ~object[i].destroyed
    <3>1. \A u \in Sectors : objectMap[u] \subseteq DOMAIN object
      BY <1>1 DEF ObjectsFiled
    <3>. QED  BY <1>8, <1>9, <3>1
  <2>4. \A u \in Sectors : stamp \in objectMap'[u] <=> u = s
    <3>1. \A u \in Sectors : stamp \notin objectMap[u]
      BY <1>1, <1>6 DEF ObjectsFiled
    <3>. QED  BY <1>9, <3>1
  <2>5. ASSUME NEW c \in Blocks
        PROVE  stamp \in shown'[c] <=> /\ c \in playing
                                       /\ \E u \in Around(player[c].cur) :
                                            stamp \in objectMap'[u] /\ ~object'[stamp].destroyed
    <3>1. stamp \notin shown[c]
      BY <1>10
    <3>2. CASE c \notin playing
      BY <1>1, <1>4, <1>11, <3>1, <3>2, OnlyPlayers DEF see
    <3>3. CASE c \in playing
      <4>1. Around(player[c].cur) \subseteq Sectors
        BY <1>1, <3>3, AroundIs DEF PlayersFiled
      <4>2. c \in see <=> s \in Around(player[c].cur)
        BY <1>1, <1>4, <3>3, SeersOf DEF see
      <4>3. stamp \in shown'[c] <=> c \in see
        BY <1>11, <3>1
      <4>4. ~object'[stamp].destroyed
        BY <1>5, <1>7
      <4>5. (\E u \in Around(player[c].cur) : stamp \in objectMap'[u] /\ ~object'[stamp].destroyed)
              <=> s \in Around(player[c].cur)
        BY <1>4, <2>4, <4>1, <4>4
      <4>. QED  BY <3>3, <4>2, <4>3, <4>5
    <3>. QED  BY <3>2, <3>3
  <2>6. ASSUME NEW c \in Blocks
        PROVE  o \notin shown'[c] /\ object'[o].destroyed
    <3>1. o \in shown[c] => c \in see
      BY <1>1, <1>3, <1>4, ShownByIs DEF see
    <3>. QED  BY <1>3, <1>6, <1>8, <1>11, <3>1
  <2>7. \A c \in Blocks, i \in IDs \cap {o, stamp} :
          i \in shown'[c] <=> /\ c \in playing
                              /\ \E u \in Around(player[c].cur) :
                                   i \in objectMap'[u] /\ ~object'[i].destroyed
    BY <2>5, <2>6
  <2>. QED  BY <1>1, <1>2, <2>1, <2>2, <2>3, <2>7, SeenOf
<1>14. /\ \A x \in DOMAIN object' : object'[x] \in Object
       /\ \A x \in DOMAIN object' : object'[x].cur = SectorOf(object'[x].tile)
       /\ DOMAIN object' \subseteq IDs
  <2>1. \A x \in DOMAIN object : object[x].cur = SectorOf(object[x].tile)
    BY <1>1 DEF Placed
  <2>2. \A x \in DOMAIN object : object'[x] \in Object /\ object'[x].cur = SectorOf(object'[x].tile)
    BY <1>8, <2>1
  <2>3. object'[stamp] \in Object /\ object'[stamp].cur = SectorOf(object'[stamp].tile)
    BY <1>3, <1>5, <1>7, <2>1
  <2>4. DOMAIN object \subseteq IDs
    BY <1>1, TypeParts
  <2>. QED  BY <1>6, <1>7, <2>2, <2>3, <2>4
<1>15. \A x \in DOMAIN object' : x < stamp'
  <2>1. \A x \in DOMAIN object : x \in Nat /\ x < stamp
    BY <1>1, TypeParts, IDsAre DEF Unique
  <2>2. stamp' \in Nat
    BY <1>2, <1>6
  <2>. QED  BY <1>6, <1>7, <2>1, <2>2
<1>16. /\ phase' \in Phases /\ todo' \subseteq DOMAIN object' /\ moved' \subseteq DOMAIN object'
       /\ Walks' /\ Swept' /\ stamp <= stamp'
  <2>1. Swept'
    <3>1. \A x \in todo' : x \in DOMAIN object /\ x # o /\ ~object[x].destroyed
      BY <1>1, <1>2, TypeParts DEF Swept
    <3>2. \A x \in todo' : ~object'[x].destroyed
      BY <1>8, <3>1
    <3>. QED  BY <1>2, <3>2 DEF Swept
  <2>. QED  BY <1>1, <1>2, <1>6, <1>7, <2>1, TypeParts DEF Walks
<1>17. KnownOnce'
  BY <1>2, <1>16, NoneMoving
<1>. QED  BY <1>2, <1>6, <1>7, <1>9, <1>11, <1>12, <1>13, <1>14, <1>15, <1>16, <1>17,
        ObjectsOnly

\* What is destroyed goes out of the maps, and no client showed it any more.
LEMMA DestroyKeeps ==
  ASSUME GInv, Destroy
  PROVE  GInv'
<1> DEFINE kept == {o \in DOMAIN object : ~object[o].destroyed}
<1>1. /\ TypeOK /\ Walks /\ Unique /\ PlayersFiled /\ ObjectsFiled /\ Placed /\ Exact /\ Shows
  BY GInvParts
<1>2. /\ phase = "remove" /\ todo = {} /\ phase' = "generate" /\ todo' = {} /\ moved' = {}
      /\ object' = Restrict(object, kept)
      /\ objectMap' = [s \in Sectors |-> objectMap[s] \cap kept]
      /\ UNCHANGED <<playing, player, playerMap, stamp, told, halt>>
  BY DEF Destroy, Turn
<1>3. DOMAIN object' = kept /\ \A o \in kept : object'[o] = object[o]
  BY <1>2 DEF Restrict
<1>4. \A s \in Sectors : objectMap'[s] = objectMap[s] \cap kept
  BY <1>2
<1>5. moved = {}
  BY <1>1, <1>2 DEF Walks
<1>6. ObjectsFiled'
  <2>1. \A s \in Sectors : objectMap'[s] \subseteq DOMAIN object'
    BY <1>3, <1>4
  <2>2. ASSUME NEW o \in DOMAIN object'
        PROVE  \E u \in Sectors :
                 FiledAt(o, u)' /\ (u = object'[o].cur \/ (Moving(o)' /\ u = object'[o].old))
    <3>1. o \in kept /\ o \in DOMAIN object
      BY <1>3
    <3>2. object[o].cur \in Sectors /\ FiledAt(o, object[o].cur)
      BY <1>1, <1>2, <1>5, <3>1, FiledThere
    <3>3. FiledAt(o, object[o].cur)'
      <4>1. \A u \in Sectors : o \in objectMap'[u] <=> u = object[o].cur
        BY <1>4, <3>1, <3>2 DEF FiledAt
      <4>2. object'[o].cur = object[o].cur
        BY <1>3, <3>1
      <4>. QED  BY <4>1, <4>2 DEF FiledAt
    <3>. QED  BY <1>3, <3>1, <3>2, <3>3
  <2>. QED  BY <2>1, <2>2 DEF ObjectsFiled
<1>7. Shows'
  <2>1. \A u \in Sectors, i \in IDs \ {} :
          i \in objectMap'[u] /\ ~object'[i].destroyed
            <=> i \in objectMap[u] /\ ~object[i].destroyed
    <3>1. \A u \in Sectors : objectMap[u] \subseteq DOMAIN object
      BY <1>1 DEF ObjectsFiled
    <3>. QED  BY <1>3, <1>4, <3>1
  <2>2. \A c \in Blocks, i \in IDs \ {} : i \in shown'[c] <=> i \in shown[c]
    BY <1>1, <1>2, ExactIs
  <2>3. \A b \in playing : player[b].clientID \notin {}
    OBVIOUS
  <2>4. \A c \in Blocks, i \in IDs \cap {} :
          i \in shown'[c] <=> /\ c \in playing
                              /\ \E s \in Around(player[c].cur) :
                                   i \in objectMap'[s] /\ ~object'[i].destroyed
    OBVIOUS
  <2>. QED  BY <1>1, <1>2, <2>1, <2>2, <2>3, <2>4, SeenOf
<1>8. /\ \A x \in DOMAIN object' : object'[x] \in Object /\ x < stamp' /\ x \in DOMAIN object
      /\ \A x \in DOMAIN object' : object'[x].cur = SectorOf(object'[x].tile)
      /\ DOMAIN object' \subseteq IDs
  BY <1>1, <1>2, <1>3, TypeParts DEF Unique, Placed
<1>9. objectMap' \in [Sectors -> SUBSET IDs] /\ Exact'
  <2>1. objectMap \in [Sectors -> SUBSET IDs]
    BY <1>1, TypeParts
  <2>. QED  BY <1>1, <1>2, <2>1, ExactIs
<1>10. /\ phase' \in Phases /\ todo' \subseteq DOMAIN object' /\ moved' \subseteq DOMAIN object'
       /\ Walks' /\ stamp' \in 1 .. MaxStamp /\ stamp <= stamp'
  BY <1>1, <1>2, TypeParts, SizeAssumption DEF Walks, Phases
<1>11. Swept'
  <2>1. \A o \in DOMAIN object' : ~object'[o].destroyed
    BY <1>3
  <2>. QED  BY <1>2, <2>1 DEF Swept
<1>12. KnownOnce'
  BY <1>2, <1>10, NoneMoving
<1>. QED  BY <1>2, <1>6, <1>7, <1>8, <1>9, <1>10, <1>11, <1>12, ObjectsOnly

\* Who no longer sees a monster that moved forgets it, and who sees it now shows it.
LEMMA UpdateObjectSectorKeeps ==
  ASSUME GInv, NEW o \in todo, UpdateObjectSector(o)
  PROVE  GInv'
<1> DEFINE m       == object[o]
           A       == Around(object[o].old)
           N       == Around(object[o].cur)
           leavers == PlayersIn(A \ N)
           comers  == PlayersIn(N \ A)
<1>1. /\ TypeOK /\ Walks /\ Unique /\ PlayersFiled /\ ObjectsFiled /\ Placed /\ Swept
      /\ KnownOnce /\ Exact /\ Shows
  BY GInvParts
<1>2. phase = "refile" /\ moved = {}
  BY <1>1 DEF UpdateObjectSector, In, Walks
<1>3. CASE NotErased(objectMap, o, m.old, m.cur)
  <2>1. Halt("objectNotErased")
    BY <1>3 DEF UpdateObjectSector
  <2>2. "objectNotErased" \in Halts
    BY DEF Halts
  <2>. QED  BY <2>1, <2>2, HaltKeeps
<1>4. CASE ~NotErased(objectMap, o, m.old, m.cur)
  <2>1. /\ objectMap' = Refile(objectMap, o, m.old, m.cur)
        /\ Tell({}, About(comers, o), About(leavers, o))
        /\ todo' = todo \ {o}
        /\ UNCHANGED <<playing, player, object, playerMap, stamp, phase, moved, halt>>
    BY <1>4 DEF UpdateObjectSector
  <2>2. o \in DOMAIN object /\ o \in IDs /\ ~m.destroyed
    BY <1>1, <1>2, TypeParts DEF Swept
  <2>3. /\ m.cur \in Sectors /\ m.old \in Sectors \cup {None}
        /\ A \subseteq Sectors /\ N \subseteq Sectors
    <3>1. m \in Object
      BY <1>1, <2>2, TypeParts
    <3>. QED  BY <3>1, ObjectParts, AroundIs
  <2>4. PICK s \in Sectors : FiledAt(o, s) /\ (s = m.cur \/ s = m.old)
    BY <1>1, <2>2 DEF ObjectsFiled
  <2>5. \/ s = m.old
        \/ s = m.cur /\ m.old \in {None, m.cur}
    BY <1>4, <2>3, <2>4 DEF NotErased, FiledAt
  <2>6. /\ \A c : c \in leavers <=> c \in playing /\ player[c].cur \in A \ N
        /\ \A c : c \in comers <=> c \in playing /\ player[c].cur \in N \ A
    BY <1>1, <2>3, PlayersInIs
  <2>7. \A u \in Sectors :
          objectMap'[u] = IF u = m.cur THEN objectMap[u] \cup {o}
                          ELSE IF u = m.old THEN objectMap[u] \ {o} ELSE objectMap[u]
    BY <2>1 DEF Refile
  <2>. HIDE DEF leavers, comers
  <2>8. \A u \in Sectors : o \in objectMap'[u] <=> u = m.cur
    BY <2>4, <2>5, <2>7 DEF FiledAt
  <2>9. \A x : x # o => \A u \in Sectors : x \in objectMap'[u] <=> x \in objectMap[u]
    BY <2>7
  <2>10. objectMap \in [Sectors -> SUBSET IDs]
    BY <1>1, TypeParts
  <2>11. ASSUME NEW c \in playing
         PROVE  o \in shown[c] <=> player[c].cur \in Around(s)
    <3>1. c \in Blocks /\ player[c].cur \in Sectors /\ Around(player[c].cur) \subseteq Sectors
      BY <1>1, TypeParts, AroundIs DEF PlayersFiled
    <3>2. o \in shown[c] <=> SeesObject(player[c].cur, o)
      BY <1>1, <2>2, <3>1 DEF Shows, SeesPlayer, Unique
    <3>3. SeesObject(player[c].cur, o) <=> s \in Around(player[c].cur)
      BY <2>2, <2>4, <3>1 DEF SeesObject, FiledAt
    <3>. QED  BY <2>4, <3>1, <3>2, <3>3, AroundIs
  <2>12. /\ Exact'
         /\ \A c \in Blocks : c \in leavers => shown'[c] = shown[c] \ {o}
         /\ \A c \in Blocks : c \in comers => shown'[c] = shown[c] \cup {o}
         /\ \A c \in Blocks : c \notin leavers /\ c \notin comers => shown'[c] = shown[c]
    <3>1. (leavers # {} => s = m.old) /\ (comers # {} => s = m.old)
      <4>1. m.old = m.cur => A \ N = {} /\ N \ A = {}
        OBVIOUS
      <4>2. m.old = None => A = {}
        BY AroundIs
      <4>3. m.old = None => comers = {}
        <5>1. m.old = None => Alone(o)
          BY <1>1, <1>2, <2>2 DEF KnownOnce, Moving
        <5>. QED  BY <2>6, <5>1 DEF Alone
      <4>. QED  BY <2>5, <2>6, <4>1, <4>2, <4>3
    <3>2. \A c \in Blocks : (c \in comers => o \notin shown[c]) /\ (c \in leavers => o \in shown[c])
      BY <2>6, <2>11, <3>1
    <3>3. /\ Exact' /\ shown \in [Blocks -> SUBSET IDs] /\ shown' \in [Blocks -> SUBSET IDs]
          /\ \A c \in Blocks, i \in IDs :
               i \in shown'[c] <=> \/ i \in shown[c] /\ ~(c \in leavers /\ i = o)
                                   \/ c \in comers /\ i = o
      <4>1. Exact /\ o \in IDs /\ Tell({}, About(comers, o), About(leavers, o))
        BY <1>1, <2>1, <2>2
      <4>. QED  BY <3>2, <4>1, ToldBoth, SMTT(60)
    <3>4. \A c \in Blocks : c \in leavers => c \notin comers
      BY <2>6
    <3>5. ASSUME NEW c \in Blocks
          PROVE  /\ c \in leavers => shown'[c] = shown[c] \ {o}
                 /\ c \in comers => shown'[c] = shown[c] \cup {o}
                 /\ c \notin leavers /\ c \notin comers => shown'[c] = shown[c]
      <4>1. shown[c] \subseteq IDs /\ shown'[c] \subseteq IDs /\ o \in IDs
        BY <2>2, <3>3
      <4>2. \A i \in IDs :
              i \in shown'[c] <=> \/ i \in shown[c] /\ ~(c \in leavers /\ i = o)
                                  \/ c \in comers /\ i = o
        BY <3>3
      <4>3. CASE c \in leavers
        BY <3>4, <4>1, <4>2, <4>3
      <4>4. CASE c \in comers
        BY <3>4, <4>1, <4>2, <4>4
      <4>5. CASE c \notin leavers /\ c \notin comers
        BY <4>1, <4>2, <4>5
      <4>. QED  BY <4>3, <4>4, <4>5
    <3>. QED  BY <3>3, <3>5, Zenon
  <2>13. objectMap' \in [Sectors -> SUBSET IDs]
    <3>1. \A u \in Sectors : objectMap'[u] \subseteq IDs
      BY <2>2, <2>7, <2>10
    <3>2. objectMap' = [u \in Sectors |-> objectMap'[u]]
      BY <2>1 DEF Refile
    <3>. QED  BY <3>1, <3>2
  <2>14. ObjectsFiled'
    <3>1. \A u \in Sectors : objectMap'[u] \subseteq DOMAIN object'
      <4>1. \A u \in Sectors : objectMap[u] \subseteq DOMAIN object
        BY <1>1 DEF ObjectsFiled
      <4>2. \A u \in Sectors : objectMap'[u] \subseteq objectMap[u] \cup {o}
        BY <2>7
      <4>. QED  BY <2>1, <2>2, <4>1, <4>2
    <3>2. ASSUME NEW x \in DOMAIN object'
          PROVE  \E u \in Sectors :
                   FiledAt(x, u)' /\ (u = object'[x].cur \/ (Moving(x)' /\ u = object'[x].old))
      <4>1. CASE x = o
        <5>1. FiledAt(x, m.cur)'
          BY <2>1, <2>8, <4>1 DEF FiledAt
        <5>. QED  BY <2>1, <2>3, <4>1, <5>1
      <4>2. CASE x # o
        <5>1. PICK u \in Sectors :
                FiledAt(x, u) /\ (u = object[x].cur \/ (Moving(x) /\ u = object[x].old))
          BY <1>1, <2>1 DEF ObjectsFiled
        <5>2. FiledAt(x, u)'
          BY <2>9, <4>2, <5>1 DEF FiledAt
        <5>3. Moving(x) => Moving(x)'
          BY <2>1, <4>2 DEF Moving
        <5>. QED  BY <2>1, <5>1, <5>2, <5>3
      <4>. QED  BY <4>1, <4>2
    <3>. QED  BY <3>1, <3>2 DEF ObjectsFiled
  <2>15. Shows'
    <3>1. \A c \in playing : player[c].clientID \notin {o}
      BY <1>1, <2>2 DEF Unique
    <3>2. \A c \in Blocks, i \in IDs \ {o} : i \in shown'[c] <=> i \in shown[c]
      BY <2>12
    <3>3. \A u \in Sectors, i \in IDs \ {o} :
            i \in objectMap'[u] /\ ~object'[i].destroyed
              <=> i \in objectMap[u] /\ ~object[i].destroyed
      BY <2>1, <2>9
    <3>4. ASSUME NEW c \in Blocks
          PROVE  o \in shown'[c] <=> /\ c \in playing
                                     /\ \E u \in Around(player[c].cur) :
                                          o \in objectMap'[u] /\ ~object'[o].destroyed
      <4>1. CASE c \notin playing
        <5>1. o \notin shown[c] /\ c \notin comers
          BY <1>1, <2>6, <4>1, OnlyPlayers
        <5>. QED  BY <2>12, <4>1, <5>1
      <4>2. CASE c \in playing
        <5>1. player[c].cur \in Sectors /\ Around(player[c].cur) \subseteq Sectors
          BY <1>1, <4>2, AroundIs DEF PlayersFiled
        <5>2. (\E u \in Around(player[c].cur) : o \in objectMap'[u] /\ ~object'[o].destroyed)
                <=> player[c].cur \in N
          BY <2>1, <2>2, <2>3, <2>8, <5>1, AroundIs
        <5>3. o \in shown[c] <=> player[c].cur \in Around(s)
          BY <2>11, <4>2
        <5>4. o \in shown'[c] <=> player[c].cur \in N
          <6>1. CASE c \in leavers
            BY <2>6, <2>12, <6>1
          <6>2. CASE c \in comers
            BY <2>6, <2>12, <6>2
          <6>3. CASE c \notin leavers /\ c \notin comers
            <7>1. player[c].cur \in A <=> player[c].cur \in N
              BY <2>6, <4>2, <6>3
            <7>2. player[c].cur \in Around(s) <=> player[c].cur \in N
              <8>1. CASE s = m.old
                BY <7>1, <8>1
              <8>2. CASE s = m.cur
                BY <8>2
              <8>. QED  BY <2>5, <8>1, <8>2
            <7>. QED  BY <2>12, <5>3, <6>3, <7>2
          <6>. QED  BY <6>1, <6>2, <6>3
        <5>. QED  BY <4>2, <5>2, <5>4
      <4>. QED  BY <4>1, <4>2
    <3>5. \A c \in Blocks, i \in IDs \cap {o} :
            i \in shown'[c] <=> /\ c \in playing
                                /\ \E u \in Around(player[c].cur) :
                                     i \in objectMap'[u] /\ ~object'[i].destroyed
      BY <3>4
    <3>. QED  BY <1>1, <2>1, <3>1, <3>2, <3>3, <3>5, SeenOf
  <2>16. /\ \A x \in DOMAIN object' : object'[x] \in Object /\ x < stamp' /\ x \in DOMAIN object
         /\ \A x \in DOMAIN object' : object'[x].cur = SectorOf(object'[x].tile)
         /\ DOMAIN object' \subseteq IDs
    BY <1>1, <2>1, TypeParts DEF Unique, Placed
  <2>17. /\ phase' \in Phases /\ todo' \subseteq DOMAIN object' /\ moved' \subseteq DOMAIN object'
         /\ Walks' /\ Swept' /\ stamp' \in 1 .. MaxStamp /\ stamp <= stamp'
    BY <1>1, <1>2, <2>1, TypeParts, SizeAssumption DEF Walks, Swept
  <2>18. KnownOnce'
    <3>1. \A x \in DOMAIN object : Moving(x)' => Moving(x)
      BY <2>1 DEF Moving
    <3>. QED  BY <1>1, <2>1, <3>1, KnownOnceStays
  <2>. QED  BY <1>2, <2>1, <2>12, <2>13, <2>14, <2>15, <2>16, <2>17, <2>18,
           ObjectsOnly
<1>. QED  BY <1>3, <1>4

-----------------------------------------------------------------------------
(***************************************************************************)
(* Monsters move.                                                          *)
(***************************************************************************)
\* The least of three neighbours, and the first sector of a neighbourhood.
LEMMA LeastIs ==
  ASSUME NEW x \in Int, NEW S \in SUBSET Int, \A n \in S : n - x \in -1 .. 1, S # {}
  PROVE  \E k \in S : \A n \in S : k <= n
<1>1. \A n \in S : n = x - 1 \/ n = x \/ n = x + 1
  OBVIOUS
<1>2. CASE x - 1 \in S
  <2>1. \A n \in S : x - 1 <= n
    BY <1>1
  <2>. QED  BY <1>2, <2>1
<1>3. CASE x - 1 \notin S /\ x \in S
  <2>1. \A n \in S : x <= n
    BY <1>1, <1>3
  <2>. QED  BY <1>3, <2>1
<1>4. CASE x - 1 \notin S /\ x \notin S
  <2>1. \A n \in S : n = x + 1
    BY <1>1, <1>4
  <2>2. PICK k \in S : TRUE
    OBVIOUS
  <2>3. k = x + 1 /\ k <= k
    BY <2>1
  <2>. QED  BY <2>1, <2>3
<1>. QED  BY <1>2, <1>3, <1>4

\* A monster looks around its sector row by row; the player it finds is playing.
LEMMA FirstIs ==
  ASSUME NEW p \in Sectors, NEW F \in SUBSET Around(p), F # {}
  PROVE  \E s \in F : \A u \in F : s[2] < u[2] \/ (s[2] = u[2] /\ s[1] <= u[1])
<1>1. p[1] \in Int /\ p[2] \in Int
  BY SizeAssumption DEF Sectors
<1>2. /\ \A q \in F : q[1] \in Int /\ q[2] \in Int
      /\ \A q \in F : q[1] - p[1] \in -1 .. 1 /\ q[2] - p[2] \in -1 .. 1
  <2>1. \A q \in Sectors : q[1] \in Int /\ q[2] \in Int
    BY SizeAssumption DEF Sectors
  <2>2. Around(p) = Near(Sectors, p)
    BY AroundIs DEF Around
  <2>. QED  BY <2>1, <2>2 DEF Near
<1> DEFINE Ys == {q[2] : q \in F}
<1>3. PICK y \in Ys : \A n \in Ys : y <= n
  <2>1. Ys \in SUBSET Int /\ (\A n \in Ys : n - p[2] \in -1 .. 1) /\ Ys # {}
    BY <1>2
  <2>. HIDE DEF Ys
  <2>. QED  BY <1>1, <2>1, LeastIs
<1>4. y \in Int /\ \A q \in F : y <= q[2]
  BY <1>2, <1>3
<1> DEFINE Xs == {q[1] : q \in {r \in F : r[2] = y}}
<1>5. PICK x \in Xs : \A n \in Xs : x <= n
  <2>1. Xs \in SUBSET Int /\ (\A n \in Xs : n - p[1] \in -1 .. 1) /\ Xs # {}
    BY <1>2, <1>3
  <2>. HIDE DEF Xs
  <2>. QED  BY <1>1, <2>1, LeastIs
<1>6. PICK s \in F : s[1] = x /\ s[2] = y
  BY <1>5
<1>7. ASSUME NEW u \in F
      PROVE  s[2] < u[2] \/ (s[2] = u[2] /\ s[1] <= u[1])
  <2>1. CASE u[2] = y
    BY <1>5, <1>6, <2>1
  <2>2. CASE u[2] # y
    <3>1. y <= u[2] /\ u[2] \in Int
      BY <1>2, <1>4
    <3>. QED  BY <1>4, <1>6, <2>2, <3>1
  <2>. QED  BY <2>1, <2>2
<1>. QED  BY <1>7

LEMMA NearestIs ==
  ASSUME PlayersFiled, NEW t \in Tiles
  PROVE  /\ GetNearestPlayer(t) \subseteq playing
         /\ GetNearestPlayer(t) = {} =>
              \A c \in playing : player[c].cur \notin Around(SectorOf(t))
<1> DEFINE found == {s \in Around(SectorOf(t)) : playerMap[s] # {}}
           First(s) == \A u \in found : s[2] < u[2] \/ (s[2] = u[2] /\ s[1] <= u[1])
<1>1. SectorOf(t) \in Sectors /\ Around(SectorOf(t)) \subseteq Sectors
  BY SectorIn, AroundIs
<1>2. CASE found = {}
  <2>1. GetNearestPlayer(t) = {}
    BY <1>2 DEF GetNearestPlayer
  <2>2. \A u \in Around(SectorOf(t)) : playerMap[u] = {}
    BY <1>2
  <2>. QED  BY <1>1, <2>1, <2>2 DEF PlayersFiled
<1>3. CASE found # {}
  <2>1. GetNearestPlayer(t) = playerMap[CHOOSE s \in found : First(s)]
    BY <1>3 DEF GetNearestPlayer
  <2>2. \E s \in found : First(s)
    BY <1>1, <1>3, FirstIs
  <2>3. (CHOOSE s \in found : First(s)) \in found
    <3>. HIDE DEF found, First
    <3>. QED  BY <2>2
  <2>4. PICK s \in found : GetNearestPlayer(t) = playerMap[s]
    BY <2>1, <2>3
  <2>. QED  BY <1>1, <2>4 DEF PlayersFiled
<1>. QED  BY <1>2, <1>3

\* A monster that has moved, or stayed.
LEMMA SettleKeeps ==
  ASSUME GInv, phase = "monsters", NEW o \in todo, NEW m \in Object,
         m.cur = SectorOf(m.tile), ~m.destroyed, Settle(o, m),
         m.cur = object[o].cur \/ m.old = object[o].cur,
         m.old = None => \A c \in playing : player[c].cur \notin Around(m.cur)
  PROVE  GInv'
<1>1. /\ TypeOK /\ Walks /\ Unique /\ PlayersFiled /\ ObjectsFiled /\ Placed /\ Swept
      /\ KnownOnce /\ Exact /\ Shows
  BY GInvParts
<1>2. /\ object' = [object EXCEPT ![o] = m]
      /\ moved' = IF m.old # m.cur THEN moved \cup {o} ELSE moved
      /\ todo' = todo \ {o}
      /\ UNCHANGED <<playing, player, playerMap, objectMap, stamp, told, phase, halt>>
  BY DEF Settle
<1>3. o \in DOMAIN object /\ o \notin moved /\ ~object[o].destroyed
  BY <1>1, TypeParts DEF Walks, Swept
<1>4. /\ DOMAIN object' = DOMAIN object /\ object'[o] = m
      /\ \A x \in DOMAIN object : x # o => object'[x] = object[x]
  BY <1>2, <1>3
<1>5. object[o].cur \in Sectors /\ FiledAt(o, object[o].cur)
  BY <1>1, <1>3, FiledThere
<1>6. ObjectsFiled'
  <2>1. \A u \in Sectors : objectMap'[u] \subseteq DOMAIN object'
    BY <1>1, <1>2, <1>4 DEF ObjectsFiled
  <2>2. ASSUME NEW x \in DOMAIN object'
        PROVE  \E u \in Sectors :
                 FiledAt(x, u)' /\ (u = object'[x].cur \/ (Moving(x)' /\ u = object'[x].old))
    <3>1. CASE x = o
      <4>1. PICK s \in Sectors : s = object[o].cur
        BY <1>5
      <4>2. \A u \in Sectors : o \in objectMap'[u] <=> u = s
        BY <1>2, <1>5, <4>1 DEF FiledAt
      <4>3. FiledAt(o, s)'
        BY <4>2 DEF FiledAt
      <4>4. CASE m.cur = object[o].cur
        BY <1>4, <3>1, <4>1, <4>3, <4>4
      <4>5. CASE m.old = object[o].cur /\ m.old # m.cur
        <5>1. Moving(o)'
          BY <1>2, <4>5 DEF Moving
        <5>. QED  BY <1>4, <3>1, <4>1, <4>3, <4>5, <5>1
      <4>. QED  BY <4>4, <4>5
    <3>2. CASE x # o
      <4>1. PICK u \in Sectors :
              FiledAt(x, u) /\ (u = object[x].cur \/ (Moving(x) /\ u = object[x].old))
        BY <1>1, <1>4 DEF ObjectsFiled
      <4>2. FiledAt(x, u)'
        BY <1>2, <4>1 DEF FiledAt
      <4>3. Moving(x) => Moving(x)'
        BY <1>2, <3>2 DEF Moving
      <4>. QED  BY <1>4, <3>2, <4>1, <4>2, <4>3
    <3>. QED  BY <3>1, <3>2
  <2>. QED  BY <2>1, <2>2 DEF ObjectsFiled
<1>7. Shows'
  <2>1. \A x \in DOMAIN object : object'[x].destroyed = object[x].destroyed
    <3>1. m.destroyed = object[o].destroyed
      <4>1. object[o].destroyed \in BOOLEAN /\ m.destroyed \in BOOLEAN
        BY <1>1, <1>3, TypeParts, ObjectParts
      <4>. QED  BY <1>3, <4>1
    <3>. QED  BY <1>4, <3>1
  <2>2. shown' = shown
    BY <1>1, <1>2, ExactIs
  <2>. QED  BY <1>1, <1>2, <2>1, <2>2, ViewStays
<1>8. /\ \A x \in DOMAIN object' : object'[x] \in Object /\ x < stamp' /\ x \in DOMAIN object
      /\ \A x \in DOMAIN object' : object'[x].cur = SectorOf(object'[x].tile)
      /\ DOMAIN object' \subseteq IDs
  BY <1>1, <1>2, <1>4, TypeParts DEF Unique, Placed
<1>9. /\ phase' \in Phases /\ todo' \subseteq DOMAIN object' /\ moved' \subseteq DOMAIN object'
      /\ stamp' \in 1 .. MaxStamp /\ stamp <= stamp'
      /\ objectMap' \in [Sectors -> SUBSET IDs] /\ Exact'
  BY <1>1, <1>2, <1>3, <1>4, TypeParts, SizeAssumption, ExactIs
<1>10. Walks' /\ Swept'
  BY <1>1, <1>2, <1>4 DEF Walks, Swept
<1>11. KnownOnce'
  <2>1. ASSUME NEW x \in DOMAIN object', Moving(x)', object'[x].old = None
        PROVE  \A c \in playing' : player'[c].cur \notin Around(object'[x].cur)
    <3>1. CASE x = o
      BY <1>2, <1>4, <2>1, <3>1
    <3>2. CASE x # o
      <4>1. Moving(x) /\ object[x].old = None
        BY <1>2, <1>4, <2>1, <3>2 DEF Moving
      <4>2. Alone(x)
        BY <1>1, <1>4, <2>1, <4>1 DEF KnownOnce
      <4>. QED  BY <1>2, <1>4, <2>1, <3>2, <4>2 DEF Alone
    <3>. QED  BY <3>1, <3>2
  <2>. QED  BY <2>1 DEF KnownOnce, Alone
<1>. QED  BY <1>2, <1>6, <1>7, <1>8, <1>9, <1>10, <1>11, ObjectsOnly

\* A step of a monster changes its tile and its sectors.
LEMMA MovedIs ==
  ASSUME NEW m \in Object, NEW t \in Tiles
  PROVE  /\ UpdateTileAndSector(m, t) \in Object
         /\ UpdateTileAndSector(m, t).tile = t /\ UpdateTileAndSector(m, t).old = m.cur
         /\ UpdateTileAndSector(m, t).cur = SectorOf(t)
         /\ UpdateTileAndSector(m, t).destroyed = m.destroyed
<1>1. PICK s \in Sectors : s = SectorOf(t)
  BY SectorIn
<1>2. PICK c \in Sectors : c = m.cur
  BY ObjectParts
<1>3. UpdateTileAndSector(m, t) = [m EXCEPT !.tile = t, !.old = c, !.cur = s]
  BY <1>1, <1>2 DEF UpdateTileAndSector
<1>4. /\ [m EXCEPT !.tile = t, !.old = c, !.cur = s] \in Object
      /\ [m EXCEPT !.tile = t, !.old = c, !.cur = s].tile = t
      /\ [m EXCEPT !.tile = t, !.old = c, !.cur = s].old = c
      /\ [m EXCEPT !.tile = t, !.old = c, !.cur = s].cur = s
      /\ [m EXCEPT !.tile = t, !.old = c, !.cur = s].destroyed = m.destroyed
  BY DEF Object
<1>. QED  BY <1>1, <1>2, <1>3, <1>4

\* A monster that steps onto a tile of the field.
LEMMA StepKeeps ==
  ASSUME GInv, phase = "monsters", NEW o \in todo, NEW m \in Object, ~m.destroyed,
         m.cur = object[o].cur, NEW t \in Tiles, Settle(o, UpdateTileAndSector(m, t))
  PROVE  GInv'
<1> DEFINE n == UpdateTileAndSector(m, t)
<1>1. n \in Object /\ n.cur = SectorOf(n.tile) /\ ~n.destroyed /\ n.old = object[o].cur
  BY MovedIs
<1>2. Settle(o, n)
  OBVIOUS
<1>3. n.old # None
  BY <1>1, NoneAssumption, ObjectParts
<1>. HIDE DEF n
<1>. QED  BY <1>1, <1>2, <1>3, SettleKeeps

\* The states of a monster: it chases a player, or it idles.
LEMMA ChasingStateKeeps ==
  ASSUME GInv, phase = "monsters", NEW o \in todo, NEW m \in Object, ~m.destroyed,
         m.cur = object[o].cur, m.target \in Blocks, ChasingState(o, m)
  PROVE  GInv'
<1> DEFINE p == player[m.target].tile
<1>1. p \in Tiles /\ m.tile \in Tiles
  <2>1. player[m.target] \in Player
    BY GInvParts, TypeParts
  <2>. QED  BY <2>1, PlayerParts, ObjectParts
<1>2. CASE m.tile[1] # p[1]
  <2>1. Settle(o, UpdateTileAndSector(m, Toward(m.tile, p)))
    BY <1>2 DEF ChasingState
  <2>2. Toward(m.tile, p) \in Tiles
    BY <1>1, <1>2, TowardIn
  <2>. QED  BY <2>1, <2>2, StepKeeps
<1>3. CASE m.tile[1] = p[1]
  <2> DEFINE t == <<p[1], m.tile[2] + Sign(p[2] - m.tile[2])>>
  <2>1. Halt("zeroDivide") \/ Settle(o, UpdateTileAndSector(m, t))
    BY <1>3 DEF ChasingState
  <2>2. CASE Halt("zeroDivide")
    BY <2>2, HaltKeeps DEF Halts
  <2>3. CASE Settle(o, UpdateTileAndSector(m, t))
    <3>1. t \in Tiles
      BY <1>1, TowardIn
    <3>. HIDE DEF t
    <3>. QED  BY <2>3, <3>1, StepKeeps
  <2>. HIDE DEF t
  <2>. QED  BY <2>1, <2>2, <2>3
<1>. QED  BY <1>2, <1>3

LEMMA IdleStateKeeps ==
  ASSUME GInv, phase = "monsters", NEW o \in todo, NEW m \in Object, ~m.destroyed,
         m.cur = object[o].cur, m.tile = object[o].tile, IdleState(o, m)
  PROVE  GInv'
<1>1. /\ TypeOK /\ PlayersFiled /\ Placed /\ Alive /\ Unique /\ ObjectsFiled
  BY GInvParts
<1>2. m.tile \in Tiles /\ o \in DOMAIN object
  BY <1>1, ObjectParts, TypeParts
<1>3. CASE GetNearestPlayer(m.tile) # {}
  <2>1. PICK b \in GetNearestPlayer(m.tile) :
          IF player[b].HP <= 0 THEN Halt("overflow")
          ELSE ChasingState(o, [m EXCEPT !.target = b, !.targetID = player[b].clientID])
    BY <1>3 DEF IdleState
  <2>2. b \in playing /\ b \in Blocks
    BY <1>1, <1>2, NearestIs, TypeParts
  <2>3. player[b].HP > 0 /\ player[b].clientID \in 0 .. MaxStamp /\ player[b].HP \in Int
    <3>1. player[b] \in Player
      BY <1>1, <2>2, TypeParts
    <3>. QED  BY <1>1, <2>2, <3>1, PlayerParts DEF Alive
  <2>4. ~(player[b].HP <= 0)
    BY <2>3
  <2>5. ChasingState(o, [m EXCEPT !.target = b, !.targetID = player[b].clientID])
    BY <2>1, <2>4
  <2>6. /\ [m EXCEPT !.target = b, !.targetID = player[b].clientID] \in Object
        /\ [m EXCEPT !.target = b, !.targetID = player[b].clientID].target = b
        /\ [m EXCEPT !.target = b, !.targetID = player[b].clientID].cur = m.cur
        /\ [m EXCEPT !.target = b, !.targetID = player[b].clientID].destroyed = m.destroyed
    <3>1. PICK i \in 0 .. MaxStamp : i = player[b].clientID
      BY <2>3
    <3>2. /\ [m EXCEPT !.target = b, !.targetID = i] \in Object
          /\ [m EXCEPT !.target = b, !.targetID = i].target = b
          /\ [m EXCEPT !.target = b, !.targetID = i].cur = m.cur
          /\ [m EXCEPT !.target = b, !.targetID = i].destroyed = m.destroyed
      BY <2>2 DEF Object
    <3>. QED  BY <3>1, <3>2
  <2>. QED  BY <2>2, <2>5, <2>6, ChasingStateKeeps
<1>4. CASE GetNearestPlayer(m.tile) = {}
  <2> DEFINE open == TileAround(m.tile) \ Walls
  <2>1. \/ Settle(o, m)
        \/ Halt("spin")
        \/ \E t \in open : Settle(o, UpdateTileAndSector(m, t))
    BY <1>4 DEF IdleState
  <2>2. CASE Settle(o, m)
    <3>1. m.cur = SectorOf(m.tile)
      BY <1>1, <1>2 DEF Placed
    <3>2. \A c \in playing : player[c].cur \notin Around(m.cur)
      BY <1>1, <1>2, <1>4, <3>1, NearestIs
    <3>. QED  BY <2>2, <3>1, <3>2, SettleKeeps
  <2>3. CASE Halt("spin")
    BY <2>3, HaltKeeps DEF Halts
  <2>4. CASE \E t \in open : Settle(o, UpdateTileAndSector(m, t))
    <3>1. PICK t \in open : Settle(o, UpdateTileAndSector(m, t))
      BY <2>4
    <3>2. t \in Tiles
      BY DEF TileAround, Near
    <3>. QED  BY <3>1, <3>2, StepKeeps
  <2>. QED  BY <2>1, <2>2, <2>3, <2>4
<1>. QED  BY <1>3, <1>4

\* The context of a monster lets one of its states move it.
LEMMA MonsterMoveKeeps ==
  ASSUME GInv, NEW o \in todo, MonsterMove(o)
  PROVE  GInv'
<1> DEFINE m == object[o]
           n == [object[o] EXCEPT !.target = None, !.targetID = 0]
<1>1. /\ phase = "monsters"
      /\ IF ~Initialized THEN Halt("noState")
         ELSE IF KeepsChasing(m) THEN ChasingState(o, m) ELSE IdleState(o, n)
  BY DEF MonsterMove, In
<1>2. m \in Object /\ ~m.destroyed
  BY <1>1, GInvParts, TypeParts DEF Swept
<1>3. CASE ~Initialized
  BY <1>1, <1>3, HaltKeeps DEF Halts
<1>4. CASE Initialized /\ KeepsChasing(m)
  <2>1. m.target \in Blocks
    BY <1>2, <1>4, ObjectParts DEF KeepsChasing
  <2>. QED  BY <1>1, <1>2, <1>4, <2>1, ChasingStateKeeps
<1>5. CASE Initialized /\ ~KeepsChasing(m)
  <2>1. n \in Object /\ n.cur = m.cur /\ n.tile = m.tile /\ n.destroyed = m.destroyed
    <3>1. 0 \in 0 .. MaxStamp /\ None \in Blocks \cup {None}
      BY SizeAssumption
    <3>2. PICK k \in Object : k = object[o]
      BY <1>2
    <3>3. /\ [k EXCEPT !.target = None, !.targetID = 0] \in Object
          /\ [k EXCEPT !.target = None, !.targetID = 0].cur = k.cur
          /\ [k EXCEPT !.target = None, !.targetID = 0].tile = k.tile
          /\ [k EXCEPT !.target = None, !.targetID = 0].destroyed = k.destroyed
      BY <3>1 DEF Object
    <3>. QED  BY <3>2, <3>3
  <2>2. IdleState(o, n)
    BY <1>1, <1>5
  <2>. HIDE DEF n
  <2>. QED  BY <1>1, <1>2, <2>1, <2>2, IdleStateKeeps
<1>. QED  BY <1>3, <1>4, <1>5

-----------------------------------------------------------------------------
(***************************************************************************)
(* The rest of the frame.                                                  *)
(***************************************************************************)
\* Monsters attack: nothing but HP changes.
LEMMA AttackPlayerKeeps ==
  ASSUME GInv, NEW attackers \in SUBSET Monsters, AttackPlayer(attackers)
  PROVE  GInv'
<1> DEFINE damage(b) ==
             MONSTER_DAMAGE * Cardinality({o \in attackers : b \in playerMap[object[o].cur]})
<1>1. TypeOK /\ Walks /\ Alive
  BY GInvParts
<1>2. /\ phase = "refile" /\ todo = {} /\ phase' = "users" /\ todo' = {} /\ moved' = {}
      /\ player' = [b \in Blocks |->
                      IF player[b].isDead THEN player[b]
                      ELSE [player[b] EXCEPT !.HP = @ - damage(b)]]
      /\ UNCHANGED <<playing, object, playerMap, objectMap, stamp, told, halt>>
  BY DEF AttackPlayer, Turn
<1>3. ASSUME NEW b \in Blocks PROVE damage(b) \in Nat
  <2>1. IsFiniteSet(attackers)
    <3>1. attackers \subseteq 1 .. MaxStamp
      BY <1>1, TypeParts DEF Monsters, IDs
    <3>2. IsFiniteSet(1 .. MaxStamp)
      BY FS_Interval, SizeAssumption
    <3>. QED  BY <3>1, <3>2, FS_Subset
  <2>2. Cardinality({o \in attackers : b \in playerMap[object[o].cur]}) \in Nat
    BY <2>1, FS_Subset, FS_CardinalityType
  <2>. QED  BY <2>2, SizeAssumption
<1>. HIDE DEF damage
<1>4. ASSUME NEW b \in Blocks
      PROVE  /\ player'[b] \in Player /\ player'[b].HP <= HP_MAX
             /\ player'[b].clientID = player[b].clientID /\ player'[b].cur = player[b].cur
             /\ player'[b].isDead = player[b].isDead
             /\ player[b].isDead => player'[b].HP = player[b].HP
  <2>1. PICK p \in Player : p = player[b]
    BY <1>1, TypeParts
  <2>2. PICK n \in Nat : n = damage(b)
    BY <1>3
  <2>3. p.HP \in Int /\ p.HP <= HP_MAX
    BY <1>1, <2>1, TypeParts, PlayerParts
  <2>4. PICK h \in Int : h = p.HP - n
    BY <2>3
  <2>5. player'[b] = IF p.isDead THEN p ELSE [p EXCEPT !.HP = h]
    BY <1>2, <2>1, <2>2, <2>4 DEF Player
  <2>6. h <= HP_MAX
    BY <2>3, <2>4, SizeAssumption
  <2>7. /\ [p EXCEPT !.HP = h] \in Player /\ [p EXCEPT !.HP = h].HP = h
        /\ [p EXCEPT !.HP = h].clientID = p.clientID /\ [p EXCEPT !.HP = h].cur = p.cur
        /\ [p EXCEPT !.HP = h].isDead = p.isDead
    BY DEF Player
  <2>. QED  BY <2>1, <2>3, <2>5, <2>6, <2>7
<1>5. player' \in [Blocks -> Player]
  <2>1. player' = [b \in Blocks |-> player'[b]]
    BY <1>2
  <2>. QED  BY <1>4, <2>1
<1>6. playing \subseteq Blocks /\ moved = {}
  BY <1>1, <1>2, TypeParts DEF Walks
<1>7. Alive'
  BY <1>1, <1>2, <1>4, <1>6 DEF Alive
<1>. QED  BY <1>2, <1>4, <1>5, <1>6, <1>7, PlayersOnly DEF Phases

\* The dead are marked before the frame ends.
LEMMA UpdateUsersKeeps ==
  ASSUME GInv, UpdateUsers
  PROVE  GInv'
<1>1. TypeOK /\ Walks /\ Alive
  BY GInvParts
<1>2. /\ phase = "users" /\ todo = {} /\ phase' = "move" /\ todo' = {} /\ moved' = {}
      /\ player' = [b \in Blocks |-> IF b \in playing THEN OnUserUpdate(player[b]) ELSE player[b]]
      /\ UNCHANGED <<playing, object, playerMap, objectMap, stamp, told, halt>>
  BY DEF UpdateUsers, Turn
<1>3. HP_MAX \div 2 \in Nat /\ HP_MAX \div 2 > 0 /\ HP_MAX \div 2 <= HP_MAX
  BY SizeAssumption
<1>4. PICK half \in Int : half = HP_MAX \div 2
  BY <1>3
<1>5. ASSUME NEW b \in Blocks
      PROVE  /\ player'[b] \in Player /\ player'[b].HP <= HP_MAX
             /\ player'[b].clientID = player[b].clientID /\ player'[b].cur = player[b].cur
             /\ b \in playing => player'[b].HP > 0
  <2>1. PICK p \in Player : p = player[b]
    BY <1>1, TypeParts
  <2>2. p.HP \in Int /\ p.HP <= HP_MAX /\ (b \in playing /\ p.isDead => p.HP > 0)
    BY <1>1, <2>1, TypeParts, PlayerParts DEF Alive
  <2>3. player'[b] = IF b \in playing /\ ~p.isDead /\ p.HP <= 0
                     THEN [p EXCEPT !.isDead = TRUE, !.HP = half] ELSE p
    BY <1>2, <1>4, <2>1 DEF OnUserUpdate
  <2>4. /\ [p EXCEPT !.isDead = TRUE, !.HP = half] \in Player
        /\ [p EXCEPT !.isDead = TRUE, !.HP = half].HP = half
        /\ [p EXCEPT !.isDead = TRUE, !.HP = half].clientID = p.clientID
        /\ [p EXCEPT !.isDead = TRUE, !.HP = half].cur = p.cur
    BY DEF Player
  <2>5. CASE b \in playing /\ ~p.isDead /\ p.HP <= 0
    BY <1>3, <1>4, <2>1, <2>3, <2>4, <2>5
  <2>6. CASE ~(b \in playing /\ ~p.isDead /\ p.HP <= 0)
    BY <2>1, <2>2, <2>3, <2>6
  <2>. QED  BY <2>5, <2>6
<1>6. player' \in [Blocks -> Player]
  <2>1. player' = [b \in Blocks |-> player'[b]]
    BY <1>2
  <2>. QED  BY <1>5, <2>1
<1>7. playing \subseteq Blocks /\ moved = {}
  BY <1>1, <1>2, TypeParts DEF Walks
<1>8. Alive'
  BY <1>2, <1>5, <1>7 DEF Alive
<1>. QED  BY <1>2, <1>5, <1>6, <1>7, <1>8, PlayersOnly DEF Phases

\* A part of the frame ends when it has walked over all of its objects.
LEMMA NextPartKeeps ==
  ASSUME GInv, NextPart
  PROVE  GInv'
<1>1. TypeOK /\ Walks /\ Swept /\ Alive /\ NeverOverflows
  BY GInvParts
<1>2. /\ UNCHANGED <<playing, player, object, playerMap, objectMap, stamp, told, halt>>
      /\ todo = {} /\ moved' = {}
      /\ \/ phase = "move" /\ phase' = "leave" /\ todo' = {}
         \/ phase = "leave" /\ phase' = "msgs" /\ todo' = {}
         \/ /\ phase = "msgs" /\ phase' = "remove"
            /\ todo' = {o \in Monsters : object[o].HP <= 0 /\ ~object[o].destroyed}
         \/ phase = "generate" /\ phase' = "monsters" /\ todo' = Monsters
         \/ phase = "monsters" /\ phase' = "refile" /\ todo' = moved
  BY DEF NextPart, Turn, fieldVars
<1>3. todo' \subseteq DOMAIN object
  BY <1>1, <1>2, TypeParts DEF Monsters
<1>4. Walks' /\ Swept' /\ Alive'
  <2>1. Walks' /\ Alive'
    BY <1>1, <1>2 DEF Walks, Alive
  <2>2. \A o \in todo' : ~object'[o].destroyed
    <3>1. CASE phase = "monsters"
      BY <1>1, <1>2, <1>3, <3>1 DEF Swept
    <3>2. CASE phase = "generate"
      BY <1>1, <1>2, <1>3, <3>2 DEF Swept
    <3>3. CASE phase \in {"move", "leave", "msgs"}
      BY <1>2, <3>3
    <3>. QED  BY <1>2, <3>1, <3>2, <3>3
  <2>3. Swept'
    BY <1>1, <1>2, <2>2 DEF Swept
  <2>. QED  BY <2>1, <2>3
<1>5. \A o \in DOMAIN object : Moving(o) <=> Moving(o)'
  BY <1>1, <1>2 DEF Walks, Moving
<1>6. /\ player' \in [Blocks -> Player] /\ \A b \in Blocks : player'[b].HP <= HP_MAX
      /\ \A o \in DOMAIN object : object'[o] \in Object
      /\ phase' \in Phases /\ moved' \subseteq DOMAIN object
      /\ halt' \in Halts /\ halt' # "overflow"
  BY <1>1, <1>2, TypeParts DEF Phases, NeverOverflows
<1>. QED  BY <1>2, <1>3, <1>4, <1>5, <1>6, QuietKeeps

LEMMA StutterKeeps ==
  ASSUME GInv, UNCHANGED vars
  PROVE  GInv'
<1>1. UNCHANGED <<playing, player, object, playerMap, objectMap, stamp, told, phase, todo, moved,
                  halt>>
  BY DEF vars, fieldVars, frameVars
<1>2. TypeOK /\ Walks /\ Swept /\ Alive /\ NeverOverflows
  BY GInvParts
<1>3. Walks' /\ Swept' /\ Alive'
  BY <1>1, <1>2 DEF Walks, Swept, Alive
<1>4. \A o \in DOMAIN object : Moving(o) <=> Moving(o)'
  BY <1>1 DEF Moving
<1>5. /\ player' \in [Blocks -> Player] /\ \A b \in Blocks : player'[b].HP <= HP_MAX
      /\ \A o \in DOMAIN object : object'[o] \in Object
      /\ phase' \in Phases /\ todo' \subseteq DOMAIN object /\ moved' \subseteq DOMAIN object
      /\ halt' \in Halts /\ halt' # "overflow"
  BY <1>1, <1>2, TypeParts DEF NeverOverflows
<1>. QED  BY <1>1, <1>3, <1>4, <1>5, QuietKeeps

-----------------------------------------------------------------------------
(***************************************************************************)
(* The theorems.                                                           *)
(***************************************************************************)
\* The invariant holds in the beginning, and every step keeps it.
LEMMA InitGInv == Init => GInv
<1> SUFFICES ASSUME Init PROVE GInv
  OBVIOUS
<1>1. /\ playing = {} /\ stamp = 1 /\ player = [b \in Blocks |-> NewPlayer] /\ object = <<>>
      /\ playerMap = [s \in Sectors |-> {}] /\ objectMap = [s \in Sectors |-> {}]
      /\ told = [b \in Blocks |-> [id \in IDs |-> 0]]
      /\ phase = "move" /\ todo = {} /\ moved = {} /\ halt = "no"
  BY DEF Init
<1>2. DOMAIN object = {}
  BY <1>1
<1>3. NewPlayer \in Player /\ NewPlayer.HP = 0 /\ NewPlayer.clientID = 0
  <2>1. <<0, 0>> \in Tiles
    <3>1. <<0, 0>> \in Tiles \/ Tiles = {}
      BY SizeAssumption DEF Tiles
    <3>. QED  BY <3>1, FieldAssumption
  <2>. QED  BY <2>1, SizeAssumption DEF NewPlayer, Player
<1>4. TypeOK
  <2>1. player \in [Blocks -> Player] /\ \A b \in Blocks : player[b].HP <= HP_MAX
    BY <1>1, <1>3, SizeAssumption
  <2>2. /\ playerMap \in [Sectors -> SUBSET Blocks] /\ objectMap \in [Sectors -> SUBSET IDs]
        /\ told \in [Blocks -> [IDs -> Int]]
    BY <1>1
  <2>3. stamp \in 1 .. MaxStamp
    BY <1>1, SizeAssumption
  <2>. QED  BY <1>1, <1>2, <2>1, <2>2, <2>3 DEF TypeOK, Phases, Halts
<1>5. Walks /\ Placed /\ Swept /\ Alive /\ NeverOverflows
  BY <1>1, <1>2 DEF Walks, Placed, Swept, Alive, NeverOverflows
<1>6. Unique
  BY <1>1, <1>2, <1>3 DEF Unique
<1>7. PlayersFiled /\ ObjectsFiled
  BY <1>1, <1>2 DEF PlayersFiled, ObjectsFiled
<1>8. KnownOnce /\ Exact /\ Shows
  <2>1. \A c \in Blocks, i \in IDs : told[c][i] = 0
    BY <1>1
  <2>2. \A c \in Blocks : shown[c] = {}
    BY <2>1 DEF shown
  <2>. QED  BY <1>1, <1>2, <2>2 DEF KnownOnce, Exact, Shows
<1>. QED  BY <1>4, <1>5, <1>6, <1>7, <1>8 DEF GInv

LEMMA NextGInv == GInv /\ [Next]_vars => GInv'
<1> SUFFICES ASSUME GInv, [Next]_vars PROVE GInv'
  OBVIOUS
<1>1. ASSUME NEW b \in Blocks, PoolReuses(b) \/ OnUserLeave(b) PROVE GInv'
  BY <1>1, PoolReusesKeeps, OnUserLeaveKeeps
<1>2. ASSUME NEW b \in Blocks, NEW t \in Positions, NEW hp \in SavedHP, OnUserMoveIn(b, t, hp)
      PROVE  GInv'
  BY <1>2, OnUserMoveInKeeps
<1>3. ASSUME Request PROVE GInv'
  <2>1. PICK b \in Blocks :
          \/ \E t \in Positions, gained \in 0..HP_MAX : ReqMoveCharacter(b, t, gained)
          \/ \E t \in Positions : ReqStopCharacter(b, t)
          \/ \E hit \in SUBSET Monsters : ReqAttack(b, hit)
          \/ \E o \in DOMAIN object : ReqPick(b, o)
          \/ ReqSit(b)
          \/ ReqPlayerRestart(b)
    BY <1>3 DEF Request
  <2>2. CASE \E t \in Positions, gained \in 0..HP_MAX : ReqMoveCharacter(b, t, gained)
    BY <2>2, ReqMoveCharacterKeeps
  <2>3. CASE \E t \in Positions : ReqStopCharacter(b, t)
    BY <2>3, ReqStopCharacterKeeps
  <2>4. CASE \E hit \in SUBSET Monsters : ReqAttack(b, hit)
    BY <2>4, ReqAttackKeeps
  <2>5. CASE \E o \in DOMAIN object : ReqPick(b, o)
    BY <2>5, ReqPickKeeps
  <2>6. CASE ReqSit(b)
    BY <2>6, ReqSitKeeps
  <2>7. CASE ReqPlayerRestart(b)
    BY <2>7, ReqPlayerRestartKeeps
  <2>. QED  BY <2>1, <2>2, <2>3, <2>4, <2>5, <2>6, <2>7
<1>4. ASSUME NEW o \in todo, NEW missed \in SUBSET todo, RemoveMonster(o, missed) PROVE GInv'
  BY <1>4, RemoveMonsterKeeps
<1>5. ASSUME NEW o \in todo, MonsterMove(o) \/ UpdateObjectSector(o) PROVE GInv'
  BY <1>5, MonsterMoveKeeps, UpdateObjectSectorKeeps
<1>6. ASSUME NEW t \in monsterRespawn, NEW old \in LeftOver, GenerateNewMonster(t, old) PROVE GInv'
  BY <1>6, GenerateKeeps
<1>7. ASSUME NEW attackers \in SUBSET Monsters, AttackPlayer(attackers) PROVE GInv'
  BY <1>7, AttackPlayerKeeps
<1>8. CASE Destroy \/ UpdateUsers \/ NextPart \/ UNCHANGED vars
  BY <1>8, DestroyKeeps, UpdateUsersKeeps, NextPartKeeps, StutterKeeps
<1>. QED  BY <1>1, <1>2, <1>3, <1>4, <1>5, <1>6, <1>7, <1>8 DEF Next

\* The invariant holds throughout, whatever the size of the field and whoever comes.
THEOREM InvariantHolds == Spec => []GInv
<1>1. Init => GInv
  BY InitGInv
<1>2. GInv /\ [Next]_vars => GInv'
  BY NextGInv
<1>. QED  BY <1>1, <1>2, PTL DEF Spec

\* Every variable keeps its range: positions are in the field, and IDs are below stamp.
THEOREM TypeCorrect == Spec => []TypeOK
<1>1. GInv => TypeOK
  BY DEF GInv
<1>. QED  BY <1>1, InvariantHolds, PTL

\* The sector maps and what they file agree, for every field, spawn point and memory left over.
THEOREM FiledWhereItIsHolds == Spec => []FiledWhereItIs
<1>1. ASSUME GInv PROVE FiledWhereItIs
  <2>1. PlayersFiled /\ ObjectsFiled
    BY <1>1, GInvParts
  <2>2. ASSUME NEW o \in DOMAIN object
        PROVE  \E s \in Sectors :
                 /\ {u \in Sectors : o \in objectMap[u]} = {s}
                 /\ s = object[o].cur \/ (o \in moved \cup todo /\ s = object[o].old)
    <3>1. PICK s \in Sectors :
            FiledAt(o, s) /\ (s = object[o].cur \/ (Moving(o) /\ s = object[o].old))
      BY <2>1 DEF ObjectsFiled
    <3>2. {u \in Sectors : o \in objectMap[u]} = {s}
      BY <3>1 DEF FiledAt
    <3>. QED  BY <3>1, <3>2 DEF Moving
  <2>. QED  BY <2>1, <2>2 DEF FiledWhereItIs, PlayersFiled
<1>. QED  BY <1>1, InvariantHolds, PTL

\* What every client is told of, once, is what is around its player.
THEOREM TellsWhatIsAroundHolds == Spec => []TellsWhatIsAround
<1>1. ASSUME GInv PROVE TellsWhatIsAround
  <2>1. TypeOK /\ Unique /\ PlayersFiled /\ ObjectsFiled /\ Exact /\ Shows
    BY <1>1, GInvParts
  <2>2. ASSUME NEW c \in playing
        PROVE  \A i \in IDs : i \in shown[c] <=> i \in IDsOf(PlayersIn(Around(player[c].cur)))
                                                       \cup ObjectsIn(Around(player[c].cur))
    <3> DEFINE N == Around(player[c].cur)
    <3>1. c \in Blocks /\ N \subseteq Sectors
      BY <2>1, TypeParts, AroundIs DEF PlayersFiled
    <3>2. \A i : i \in IDsOf(PlayersIn(N)) <=> \E d \in PlayersIn(N) : i = player[d].clientID
      BY IDsOfIs
    <3>3. \A d : d \in PlayersIn(N) <=> d \in playing /\ player[d].cur \in N
      BY <2>1, <3>1, PlayersInIs
    <3>4. \A i : i \in IDsOf(PlayersIn(N)) <=> SeesPlayer(player[c].cur, i)
      BY <3>2, <3>3 DEF SeesPlayer
    <3>5. \A i : i \in ObjectsIn(N) <=> SeesObject(player[c].cur, i)
      BY SeesObjectIs
    <3>6. \A i \in IDs : i \in shown[c]
                           <=> SeesPlayer(player[c].cur, i) \/ SeesObject(player[c].cur, i)
      BY <2>1, <3>1 DEF Shows
    <3>. HIDE DEF N
    <3>7. \A i \in IDs : i \in shown[c] <=> i \in IDsOf(PlayersIn(N)) \cup ObjectsIn(N)
      BY <3>4, <3>5, <3>6
    <3>. QED  BY <3>7 DEF N
  <2>3. \A c \in Blocks : c \notin playing => shown[c] = {}
    BY <2>1, OnlyPlayers
  <2>4. \A c \in Blocks, i \in IDs :
          told[c][i] \in {0, 1} /\ (i \in shown[c] <=> told[c][i] = 1)
    BY <2>1 DEF Exact, shown
  <2>5. \A c \in Blocks, i \in IDs :
          LET near == Around(player[c].cur)
          IN  told[c][i] = IF c \in playing /\ i \in IDsOf(PlayersIn(near)) \cup ObjectsIn(near)
                           THEN 1 ELSE 0
    <3>1. ASSUME NEW c \in Blocks, NEW i \in IDs
          PROVE  i \in shown[c] <=> c \in playing /\ i \in IDsOf(PlayersIn(Around(player[c].cur)))
                                                             \cup ObjectsIn(Around(player[c].cur))
      BY <2>2, <2>3
    <3>. QED  BY <2>4, <3>1
  <2>. QED  BY <2>5 DEF TellsWhatIsAround
<1>. QED  BY <1>1, InvariantHolds, PTL

\* No monster finds a player whose HP are used up, so its states never send it back and forth.
THEOREM NeverOverflowsHolds == Spec => []NeverOverflows
<1>1. GInv => NeverOverflows
  BY DEF GInv
<1>. QED  BY <1>1, InvariantHolds, PTL
=============================================================================
