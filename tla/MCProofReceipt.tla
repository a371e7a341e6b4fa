--------------------------- MODULE MCProofReceipt ---------------------------
(* A small instance of ProofReceipt for TLC.                                *)
EXTENDS ProofReceipt, TLC

CONSTANTS a, b, c

\* Two unequal winners whose shares of one unit do not divide.
ReceiptEndowment == a :> 1 @@ b :> 2 @@ c :> 1
\* The two goals keys of the final score.
GoalKeys == <<1, 2>>
=============================================================================
