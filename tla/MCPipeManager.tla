---------------------------- MODULE MCPipeManager ----------------------------
(***************************************************************************)
(* Small instances of PipeManager; users and pipes are interchangeable.    *)
(***************************************************************************)
EXTENDS PipeManager, TLC

Symmetry == Permutations(Users) \cup Permutations(Pipes)
=============================================================================
