--------------------------- MODULE MCPoolCreator ---------------------------
(* Small instances of PoolCreator for TLC.                                  *)
EXTENDS PoolCreator

CONSTANTS winner, corners, contradiction, none
=============================================================================
