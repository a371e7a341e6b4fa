------------------------ MODULE MCSettlementBinding ------------------------
(* Small instances of SettlementBinding for TLC.                            *)
EXTENDS SettlementBinding, TLC

\* Every boundary of the thresholds: both sides of 0, 30 and 60.
MCBoundaries == {-1, 0, 1, 2, 30, 31, 60, 61}

MCOtherScore == [k \in StatKeys |-> IF k \in {1, 8} THEN 3 ELSE 0]
=============================================================================
