--------------------------- MODULE MCChainSystem ---------------------------
(* Values for the constants of ChainSystem. *)
EXTENDS ChainSystem

Wall(text, time) == [text |-> text, ms |-> Some(time)]

OneWall == {Wall(0, 0)}
TwoWalls == {Wall(0, 0), Wall(2, 2001)}
=============================================================================
