------------------------ MODULE MCGameControlNetwork ------------------------
(* Small instances of GameControlNetwork for TLC. *)
EXTENDS GameControlNetwork, TLC

CONSTANTS h, a, b, i1, i2, all

NoTarget == -1
=============================================================================
