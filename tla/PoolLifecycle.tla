--------------------------- MODULE PoolLifecycle ---------------------------
(***************************************************************************)
(* The life of a pool as everything outside the escrow program sees it: its *)
(* state, and the score sequence of the outcome recorded for it.  The       *)
(* program implements this module (PoolEscrowRefinement); the clients and   *)
(* the keeper are modelled against it.                                      *)
(***************************************************************************)
EXTENDS Naturals

VARIABLES
    state,      \* "Absent" before create_pool, then one of enum PoolState
    sequence    \* settled_sequence, 0 until an outcome is recorded

life == <<state, sequence>>

Unresolved == {"Open", "Locked"}
\* What recording an outcome, and cancelling, can leave behind.  A pool nobody
\* staked in is closed at once; a winning side nobody backed is refunded.
Outcomes == {"SettledYes", "SettledNo", "Cancelled", "Closed"}
Cancellations == {"Cancelled", "Closed"}
Payable == {"SettledYes", "SettledNo", "Cancelled"}
Resolved == Outcomes
States == {"Absent"} \cup Unresolved \cup Resolved

Init == state = "Absent" /\ sequence = 0

Create ==
    /\ state = "Absent"
    /\ state' = "Open"
    /\ UNCHANGED sequence

Lock ==
    /\ state = "Open"
    /\ state' = "Locked"
    /\ UNCHANGED sequence

RecordOutcome ==
    /\ state = "Locked"
    /\ state' \in Outcomes
    /\ sequence' \in Nat \ {0}

Cancel ==
    /\ state \in Unresolved
    /\ state' \in Cancellations
    /\ UNCHANGED sequence

PayTheLast ==
    /\ state \in Payable
    /\ state' = "Closed"
    /\ UNCHANGED sequence

Next ==
    \/ Create
    \/ Lock
    \/ RecordOutcome
    \/ Cancel
    \/ PayTheLast

Spec == Init /\ [][Next]_life
=============================================================================
