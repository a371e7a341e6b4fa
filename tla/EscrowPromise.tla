--------------------------- MODULE EscrowPromise ---------------------------
(***************************************************************************)
(* What the escrow program promises its participants, without its counters, *)
(* clocks, accounts and instruction checks: stakes are taken, a verdict is  *)
(* reached once, and everyone the verdict entitles is paid once, out of the *)
(* stakes alone and at least the floor of the share owed.                   *)
(***************************************************************************)
EXTENDS Integers, FiniteSets

CONSTANTS Owners, MaxU64

VARIABLES
    stake,     \* stake[o]: what o has staked
    side,      \* side[o]: the side o staked on
    verdict,   \* the side that won, "Void" when everyone is to be refunded
    payment,   \* payment[o]: what o has been paid
    paid,      \* the owners that have been paid
    pot        \* what is still held for the owners

promise == <<stake, side, verdict, payment, paid, pot>>

Sides == {"Yes", "No"}
None == "None"

StakeUnits(S) == {u \in S \X (1 .. MaxU64) : u[2] <= stake[u[1]]}
StakeOf(S) == Cardinality(StakeUnits(S))

Backers(s) == {o \in Owners : side[o] = s}
Entitled ==
    IF verdict = "Void" THEN {o \in Owners : side[o] # None} ELSE Backers(verdict)

Init ==
    /\ stake = [o \in Owners |-> 0]
    /\ side = [o \in Owners |-> None]
    /\ verdict = "Undecided"
    /\ payment = [o \in Owners |-> 0]
    /\ paid = {}
    /\ pot = 0

Deposit(o, s, n) ==
    /\ verdict = "Undecided"
    /\ n > 0
    /\ side[o] \in {None, s}
    /\ stake' = [stake EXCEPT ![o] = @ + n]
    /\ side' = [side EXCEPT ![o] = s]
    /\ pot' = pot + n
    /\ UNCHANGED <<verdict, payment, paid>>

\* A side nobody backed cannot win.
Decide(v) ==
    /\ verdict = "Undecided"
    /\ v \in Sides => Backers(v) # {}
    /\ verdict' = v
    /\ UNCHANGED <<stake, side, payment, paid, pot>>

\* Owed(o, n): n settles what the verdict owes o.  The last one entitled takes
\* whatever is left, so that nothing stays behind.
Owed(o, n) ==
    /\ n <= pot
    /\ verdict = "Void" => n = stake[o]
    /\ verdict \in Sides =>
          (n + 1) * StakeOf(Backers(verdict)) > StakeOf(Owners) * stake[o]
    /\ Entitled \subseteq paid \cup {o} => n = pot

Pay(o, n) ==
    /\ verdict # "Undecided"
    /\ o \in Entitled \ paid
    /\ Owed(o, n)
    /\ payment' = [payment EXCEPT ![o] = n]
    /\ paid' = paid \cup {o}
    /\ pot' = pot - n
    /\ UNCHANGED <<stake, side, verdict>>

Next ==
    \/ \E o \in Owners, s \in Sides, n \in 1 .. MaxU64 : Deposit(o, s, n)
    \/ \E v \in Sides \cup {"Void"} : Decide(v)
    \/ \E o \in Owners, n \in 0 .. MaxU64 : Pay(o, n)

Spec == Init /\ [][Next]_promise

(* Whoever is entitled is eventually paid. *)
PayAnyone(o) == \E n \in 0 .. MaxU64 : Pay(o, n)
FairSpec == Spec /\ \A o \in Owners : WF_promise(PayAnyone(o))
=============================================================================
