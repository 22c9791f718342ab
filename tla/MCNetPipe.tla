------------------------------ MODULE MCNetPipe ------------------------------
(***************************************************************************)
(* Small instances of NetPipe; every constant has its value in the cfg.    *)
(***************************************************************************)
EXTENDS NetPipe
=============================================================================
