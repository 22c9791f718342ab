------------------------------ MODULE OrderedSet ------------------------------
(***************************************************************************)
(* What the map of a pipe's users promises: a set of keys that are entered *)
(* and removed one by one, each at most once, and walked in their order.   *)
(***************************************************************************)
EXTENDS Integers, FiniteSets, SequencesExt

CONSTANT Keys

VARIABLES
  walk,    \* what Foreach visits
  answer   \* what the last Insert or Delete returned

Members == ToSet(walk)
Sorted(S) == [i \in 1..Cardinality(S) |-> CHOOSE k \in S : Cardinality({j \in S : j < k}) = i - 1]

Init == walk = <<>> /\ answer = TRUE

Insert(k) ==
  /\ answer' = (k \notin Members)
  /\ walk' = Sorted(Members \cup {k})

Delete(k) ==
  /\ answer' = (k \in Members)
  /\ walk' = Sorted(Members \ {k})

Next == \E k \in Keys : Insert(k) \/ Delete(k)

Spec == Init /\ [][Next]_<<walk, answer>>
=============================================================================
