------------------------------ MODULE MCGamePipe ------------------------------
(* A strip of three sectors of one tile each. *)
EXTENDS GamePipe

MCWalls     == {<<0, 0>>, <<1, 0>>}
MCRespawn   == {<<2, 0>>}
MCPositions == {<<0, 0>>, <<2, 0>>}
MCSpawn     == <<1, 0>>
MCSavedHP   == {1}
MCLeftOver  == {None, <<0, 0>>}
MCUnused    == {None}
=============================================================================
