--------------------------- MODULE MCMyRedBlackTree ---------------------------
(***************************************************************************)
(* Small instances of MyRedBlackTree.                                      *)
(***************************************************************************)
EXTENDS MyRedBlackTree
=============================================================================
