----------------------------- MODULE MCAuthLogin -----------------------------
(***************************************************************************)
(* Small instances of AuthLogin; every constant has its value in the cfg.  *)
(***************************************************************************)
EXTENDS AuthLogin, TLC

Symmetry == Permutations(Sessions)
=============================================================================
