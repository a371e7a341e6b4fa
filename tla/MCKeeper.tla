------------------------------ MODULE MCKeeper ------------------------------
(* Small instances of Keeper for TLC.                                       *)
EXTENDS Keeper, TLC

CONSTANTS k1, k2, p, q

\* Both keepers list every pool.
MCScope == [k \in Keepers |-> Pools]

\* Two keepers differ in nothing but their names.
KeepersAreAlike == Permutations(Keepers)
=============================================================================
