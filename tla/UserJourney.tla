---------------------------- MODULE UserJourney ----------------------------
(***************************************************************************)
(* What the pipes promise to content: a user is in at most one pipe at a   *)
(* time, joins in a pipe of the first kind and moves only from there to    *)
(* one of the second; a session that has been accepted does not vanish on  *)
(* the way, only from the pipe its user is in.                             *)
(* NetPipe implements this with queues between threads.                    *)
(***************************************************************************)
CONSTANTS
  Users,
  First, Second   \* the pipes a user passes, in this order

VARIABLE
  place   \* where each user is: a pipe, or not accepted yet ("before"), about to
          \* join ("joining"), moved out and about to move in ("moving"), or gone
          \* for good ("after")

Init == place = [u \in Users |-> "before"]

Goes(u, to) == place' = [place EXCEPT ![u] = to]

Accept(u)    == place[u] = "before"  /\ Goes(u, "joining")
Join(u, p)   == place[u] = "joining" /\ p \in First  /\ Goes(u, p)
MoveOut(u)   == place[u] \in First   /\ Goes(u, "moving")
MoveIn(u, p) == place[u] = "moving"  /\ p \in Second /\ Goes(u, p)
Leave(u)     == place[u] \in First \cup Second /\ Goes(u, "after")

Next == \E u \in Users :
  \/ Accept(u) \/ MoveOut(u) \/ Leave(u)
  \/ \E p \in First \cup Second : Join(u, p) \/ MoveIn(u, p)

Spec == Init /\ [][Next]_place
=============================================================================
