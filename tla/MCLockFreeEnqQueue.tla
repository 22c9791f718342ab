-------------------------- MODULE MCLockFreeEnqQueue --------------------------
(***************************************************************************)
(* Small instances of LockFreeEnqQueue: producers are model values.        *)
(***************************************************************************)
EXTENDS LockFreeEnqQueue
=============================================================================
