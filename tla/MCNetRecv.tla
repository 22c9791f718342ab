------------------------------ MODULE MCNetRecv -------------------------------
(* Packets of two to four bytes in buffers of fourteen, so that a receive   *)
(* can bring a part of a packet, several packets, and more than a set can   *)
(* hold.  The server has packets of 5 to 517 bytes in buffers of 8192.      *)
EXTENDS NetRecv, TLC

BufferSymmetry == Permutations(Buffers)
=============================================================================
