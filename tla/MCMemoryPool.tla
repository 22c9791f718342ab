---------------------------- MODULE MCMemoryPool ----------------------------
(***************************************************************************)
(* Small instances of MemoryPool; every constant has its value in the cfg. *)
(***************************************************************************)
EXTENDS MemoryPool
=============================================================================
