---------------------------- MODULE MCNetSession ----------------------------
(***************************************************************************)
(* Small instances of NetSession: slots and threads are model values.      *)
(***************************************************************************)
EXTENDS NetSession
=============================================================================
