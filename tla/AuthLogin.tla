------------------------------ MODULE AuthLogin ------------------------------
(***************************************************************************)
(* Logging in: the handlers of AuthPipe_CS_Stub.h, the online map of the   *)
(* authentication pipe, and the characters in the game database.           *)
(*                                                                         *)
(* All handlers run in the one thread of the authentication pipe; a packet *)
(* set is handled to its end, also after its user has asked to move.  The  *)
(* database is written by a thread of its own, from a queue, and read by   *)
(* the authentication thread directly.                                     *)
(*                                                                         *)
(* Modelled: accounts, the map from accounts to sessions, and whether an   *)
(* account has a character.  What a character consists of, nicknames and   *)
(* the log database are left out; redis, MySQL and the game pipes are      *)
(* external.  How a session is released and moved is NetPipe's business.   *)
(***************************************************************************)
EXTENDS Naturals, Sequences, FiniteSets

CONSTANTS
  Sessions,   \* session IDs: one per connection
  Accounts,   \* the accounts of the account database
  Keyed,      \* accounts above 1000000, whose session key redis knows
  Existing,   \* accounts that have a character from the start
  MaxSaves,   \* bound: INSERTs of characters waiting at a time
  None

ASSUME AccountsAssumption == Keyed \subseteq Accounts /\ Existing \subseteq Accounts
ASSUME MaxSavesAssumption == MaxSaves \in Nat
ASSUME NoneAssumption == None \notin Sessions /\ None \notin Accounts

VARIABLES
  place,     \* where the user of each session is
  account,   \* accountNum_ of its PipePlayer; None is 0
  cut,       \* the session is being disconnected
  dead,      \* the session is released
  cur,       \* the session whose packet set is being handled
  onlineMap, \* onlineMap_: the session logged in to each account
  rows,      \* accounts with a row in gamedb.character
  saves,     \* INSERTs waiting in DBQueue_
  crashed

sessionVars == <<place, account, cut, dead>>
dbVars      == <<rows, saves>>
loginVars == <<sessionVars, cur, onlineMap, dbVars, crashed>>

Places == {"out", "auth", "moving", "between", "game", "gone"}

LoginTypeOK ==
  /\ place \in [Sessions -> Places]
  /\ account \in [Sessions -> Accounts \cup {None}]
  /\ cut \in [Sessions -> BOOLEAN] /\ dead \in [Sessions -> BOOLEAN]
  /\ cur \in Sessions \cup {None}
  /\ onlineMap \in [Accounts -> Sessions \cup {None}]
  /\ rows \subseteq Accounts /\ saves \in Seq(Accounts)
  /\ crashed \in BOOLEAN

LoginInit ==
  /\ place = [s \in Sessions |-> "out"]
  /\ account = [s \in Sessions |-> None]
  /\ cut = [s \in Sessions |-> FALSE] /\ dead = [s \in Sessions |-> FALSE]
  /\ cur = None
  /\ onlineMap = [a \in Accounts |-> None]
  /\ rows = Existing /\ saves = <<>>
  /\ crashed = FALSE

\* UserMap::Release, which does nothing for an account that is not there.
Release(a) == onlineMap' = [b \in Accounts |-> IF b = a THEN None ELSE onlineMap[b]]

-----------------------------------------------------------------------------
(***************************************************************************)
(* The life of a session, as the authentication pipe sees it.              *)
(***************************************************************************)
OnUserJoin(s) ==
  /\ cur = None /\ place[s] = "out"
  /\ place' = [place EXCEPT ![s] = "auth"]
  /\ UNCHANGED <<account, cut, dead, cur, onlineMap, dbVars, crashed>>

\* Clients go when they like.
ClientGone(s) ==
  /\ place[s] \notin {"out", "gone"}
  /\ cut' = [cut EXCEPT ![s] = TRUE]
  /\ UNCHANGED <<place, account, dead, cur, onlineMap, dbVars, crashed>>

\* A worker releases the session, unless a move holds a reference to it.
ReleaseSession(s) ==
  /\ cut[s] /\ place[s] \in {"auth", "game"}
  /\ dead' = [dead EXCEPT ![s] = TRUE]
  /\ UNCHANGED <<place, account, cut, cur, onlineMap, dbVars, crashed>>

OnUserLeave(s) ==
  /\ cur = None /\ place[s] = "auth" /\ dead[s]
  /\ place' = [place EXCEPT ![s] = "gone"]
  /\ Release(account[s])
  /\ UNCHANGED <<account, cut, dead, cur, dbVars, crashed>>

\* A user that moves out under no account, or one the map does not have, is fatal.
OnUserMoveOut(s) ==
  /\ cur = None /\ place[s] = "moving"
  /\ place' = [place EXCEPT ![s] = "between"]
  /\ Release(account[s])
  /\ crashed' = (account[s] = None \/ onlineMap[account[s]] = None)
  /\ UNCHANGED <<account, cut, dead, cur, dbVars>>

EnterGame(s) ==
  /\ place[s] = "between"
  /\ place' = [place EXCEPT ![s] = "game"]
  /\ UNCHANGED <<account, cut, dead, cur, onlineMap, dbVars, crashed>>

LeaveGame(s) ==
  /\ place[s] = "game" /\ dead[s]
  /\ place' = [place EXCEPT ![s] = "gone"]
  /\ UNCHANGED <<account, cut, dead, cur, onlineMap, dbVars, crashed>>

-----------------------------------------------------------------------------
(***************************************************************************)
(* The handlers.  One that returns false ends its set and disconnects.     *)
(***************************************************************************)
BeginSet(s) ==
  /\ cur = None /\ place[s] = "auth"
  /\ cur' = s
  /\ UNCHANGED <<sessionVars, onlineMap, dbVars, crashed>>

EndSet ==
  /\ cur # None
  /\ cur' = None
  /\ UNCHANGED <<sessionVars, onlineMap, dbVars, crashed>>

Disconnect(ss) ==
  /\ cut' = [s \in Sessions |-> cut[s] \/ s \in ss]
  /\ cur' = None

\* NetRoot::MovePipe fails for a session released already, and for a user that moves.
MovePipe(s) == place' = IF dead[s] THEN place ELSE [place EXCEPT ![s] = "moving"]

\* Mutant: a login under an account that is there takes its place.
LoginDuplicateExchange(a) ==
  /\ cur # None /\ onlineMap[a] # None
  /\ Disconnect({onlineMap[a]})
  /\ onlineMap' = [onlineMap EXCEPT ![a] = cur]
  /\ account' = [account EXCEPT ![cur] = a]
  /\ UNCHANGED <<place, dead, dbVars, crashed>>

\* Both the user found in the map and the new one are disconnected.
LoginDuplicate(a) ==
  /\ cur # None /\ onlineMap[a] # None
  /\ Disconnect({cur, onlineMap[a]})
  /\ UNCHANGED <<place, account, dead, onlineMap, dbVars, crashed>>

\* The key in redis differs: the map keeps the account.
LoginRefused(a) ==
  /\ cur # None /\ onlineMap[a] = None /\ a \in Keyed
  /\ onlineMap' = [onlineMap EXCEPT ![a] = cur]
  /\ Disconnect({cur})
  /\ UNCHANGED <<place, account, dead, dbVars, crashed>>

LogIn(a) ==
  /\ cur # None /\ onlineMap[a] = None
  /\ onlineMap' = [onlineMap EXCEPT ![a] = cur]
  /\ account' = [account EXCEPT ![cur] = a]
  /\ UNCHANGED <<cut, dead, cur, dbVars, crashed>>

LoginNoCharacter(a) ==
  /\ a \notin rows
  /\ LogIn(a)
  /\ UNCHANGED place

LoginWithCharacter(a) ==
  /\ a \in rows
  /\ LogIn(a)
  /\ MovePipe(cur)

\* A type out of range is refused.
SelectRefused ==
  /\ cur # None
  /\ Disconnect({cur})
  /\ UNCHANGED <<place, account, dead, onlineMap, dbVars, crashed>>

\* The handler asks neither whether the user was told to select nor whether it has
\* logged in: one that has not moves under no account, and its row is no account's.
ReqCharacterSelect ==
  /\ cur # None
  /\ account[cur] = None \/ Len(saves) < MaxSaves
  /\ saves' = IF account[cur] = None THEN saves ELSE Append(saves, account[cur])
  /\ MovePipe(cur)
  /\ UNCHANGED <<account, cut, dead, cur, onlineMap, rows, crashed>>

\* DBThread executes the statements in the order of the queue.
SaveNext ==
  /\ saves # <<>>
  /\ rows' = rows \cup {Head(saves)}
  /\ saves' = Tail(saves)
  /\ UNCHANGED <<sessionVars, cur, onlineMap, crashed>>

-----------------------------------------------------------------------------
Handle ==
  \/ EndSet \/ SelectRefused \/ ReqCharacterSelect
  \/ \E a \in Accounts : \/ LoginDuplicate(a) \/ LoginRefused(a)
                         \/ LoginNoCharacter(a) \/ LoginWithCharacter(a)

LoginNext ==
  /\ ~crashed
  /\ \/ \E s \in Sessions :
          \/ OnUserJoin(s) \/ ClientGone(s) \/ ReleaseSession(s) \/ OnUserLeave(s)
          \/ OnUserMoveOut(s) \/ EnterGame(s) \/ LeaveGame(s) \/ BeginSet(s)
     \/ Handle \/ SaveNext

LoginSpec == LoginInit /\ [][LoginNext]_loginVars

-----------------------------------------------------------------------------
(***************************************************************************)
(* What the online map is for, and how far it gets.                        *)
(***************************************************************************)
InAuth(s) == place[s] \in {"auth", "moving"}

\* A logged-in user of the authentication pipe is the one the map has for its
\* account, so that the release when it leaves or moves hits its own entry; and the
\* fatal check of OnUserMoveOut is met by no user that has logged in, only by one
\* that selected a character without a login (AuthPipe.cpp:27-50).
EntryOfPlayer ==
  /\ \A s \in Sessions : InAuth(s) /\ account[s] # None => onlineMap[account[s]] = s
  /\ crashed => \E s \in Sessions : place[s] = "between" /\ account[s] = None
=============================================================================
