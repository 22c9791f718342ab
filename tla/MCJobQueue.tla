----------------------------- MODULE MCJobQueue -----------------------------
(***************************************************************************)
(* Small instances of JobQueue; every constant has its value in the cfg.   *)
(***************************************************************************)
EXTENDS JobQueue
=============================================================================
