------------------------------ MODULE MCNetSend ------------------------------
(***************************************************************************)
(* Small instances of NetSend: threads are model values.                   *)
(***************************************************************************)
EXTENDS NetSend, TLC

Symmetry == Permutations(Workers) \cup Permutations(Senders)
=============================================================================
