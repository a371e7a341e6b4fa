------------------------ MODULE PoolEscrowRefinement ------------------------
(***************************************************************************)
(* What PoolEscrow implements: EscrowPromise, for its participants, and     *)
(* PoolLifecycle, for the clients and the keeper that watch its state.      *)
(***************************************************************************)
EXTENDS PoolEscrow

\* The pool's state and winning_side, read as the verdict: a winning side that
\* nobody backed is a refund.
Verdict ==
    IF pool.state \in Unresolved \cup {"Absent"} THEN "Undecided"
    ELSE IF pool.winningSide # None /\ pool.sideAmount[pool.winningSide] > 0
         THEN pool.winningSide
         ELSE "Void"

Promise ==
    INSTANCE EscrowPromise WITH
        stake <- [o \in Owners |-> position[o].amount],
        side <- [o \in Owners |-> position[o].side],
        verdict <- Verdict,
        payment <- [o \in Owners |-> Received(o)],
        paid <- {o \in Owners : position[o].claimed \/ position[o].refunded},
        pot <- pool.remainingPool

\* Every behaviour of the program is one the promise allows: each instruction
\* is a deposit, the verdict, a payment of what is owed, or invisible.
ImplementsPromise == Promise!Spec

\* With the fairness of PoolEscrow, whoever the verdict entitles is paid.
KeepsPromise == Promise!FairSpec

Lifecycle == INSTANCE PoolLifecycle WITH
                 state <- pool.state, sequence <- pool.settledSequence

\* Seen from outside, every instruction is a step of the pool's lifecycle or
\* invisible: claims and refunds close a pool once, deposits and locks never
\* touch a recorded outcome, and nothing leaves a resolution.
FollowsLifecycle == Lifecycle!Spec
=============================================================================
