-------------------------------- MODULE Fifo --------------------------------
(***************************************************************************)
(* What the queues between two threads promise: what is put in comes out   *)
(* once, in the order it went in, and a queue that refuses is full.        *)
(***************************************************************************)
EXTENDS Naturals, Sequences

CONSTANTS
  Values,
  Capacity

VARIABLES
  waiting,  \* what was put in and has not come out
  refused   \* whether a producer was turned away

Init == waiting = <<>> /\ refused = FALSE

Put(v) ==
  /\ Len(waiting) < Capacity
  /\ waiting' = Append(waiting, v)
  /\ UNCHANGED refused

Take ==
  /\ waiting # <<>>
  /\ waiting' = Tail(waiting)
  /\ UNCHANGED refused

Refuse ==
  /\ Len(waiting) = Capacity
  /\ refused' = TRUE
  /\ UNCHANGED waiting

Next == (\E v \in Values : Put(v)) \/ Take \/ Refuse

Spec == Init /\ [][Next]_<<waiting, refused>>
=============================================================================
