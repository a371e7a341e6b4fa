---------------------------- MODULE MCPoolEscrow ----------------------------
(* A small instance of PoolEscrow for TLC.                                  *)
EXTENDS PoolEscrowRefinement, TLC

CONSTANTS a, b, c, d, outsider

\* Four participants, one of them with more than the others, so that shares of
\* the pot do not divide; the creator stakes nothing.
MCSmallEndowment == a :> 2 @@ b :> 1 @@ c :> 1 @@ d :> 1
=============================================================================
