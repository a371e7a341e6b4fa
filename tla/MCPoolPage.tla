----------------------------- MODULE MCPoolPage -----------------------------
(* Small instances of PoolPage for TLC.                                     *)
EXTENDS PoolPage

CONSTANTS a, b, c, none

\* b and c have staked all they had, on opposite sides; a has one unit left
\* and may have staked one with b.
PageEndowment == [o \in Owners |-> IF o = a THEN 1 ELSE 0]
Staked(side, amount) == [side |-> side, amount |-> amount]
PageOpenings ==
    {[o \in Owners |-> IF o = a THEN first
                      ELSE IF o = b THEN Staked("Yes", 1) ELSE Staked("No", 1)] :
        first \in {Staked(None, 0), Staked("Yes", 1)}}
=============================================================================
