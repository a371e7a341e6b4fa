----------------------------- MODULE PoolEscrow -----------------------------
(***************************************************************************)
(* The Solana escrow program of one YES/NO prediction pool                 *)
(* (programs/proof_play).  A creator opens a pool; participants stake      *)
(* token units on one side before a cutoff; anyone locks it; a proved (or, *)
(* for demo pools, a declared) outcome settles it; winners claim shares of *)
(* the whole pot, or everyone is refunded.                                 *)
(*                                                                         *)
(* Each action is one instruction.  A Solana transaction is atomic: a      *)
(* failed `require!` or checked operation reverts everything, so every     *)
(* error path of a handler is a conjunct of its action's guard.            *)
(*                                                                         *)
(* One pool is modelled.  Its accounts are addressed by seeds that contain *)
(* the pool's key, so pools share nothing but the participants' wallets.   *)
(***************************************************************************)
EXTENDS Integers, FiniteSets

CONSTANTS
    Owners,      \* wallets that may stake; each has at most one position
    Creator,     \* the pool's creator (may also be one of the Owners)
    Endowment,   \* Endowment[o]: units in o's token account at the start
    Gifts,       \* amounts that may be sent straight to the vault
    MaxGift,     \* bound on the units sent straight to the vault in total
    MaxU64,      \* the largest token amount (u64)
    MaxTime,     \* the largest timestamp (i64), and the bound on the clock
    Grace,       \* MIN_SETTLEMENT_GRACE_SECONDS
    Sequences    \* score-feed sequence numbers a caller may pass

ASSUME OwnersAssumption == IsFiniteSet(Owners)
ASSUME NumbersAssumption ==
    /\ MaxU64 \in Nat
    /\ MaxGift \in Nat
    /\ MaxTime \in Nat
    /\ Grace \in Nat
    /\ Endowment \in [Owners -> 0 .. MaxU64]
    /\ Gifts \subseteq Nat
    /\ Sequences \subseteq Nat

VARIABLES
    pool,        \* the Pool account
    position,    \* position[o]: the Position account of o in this pool
    record,      \* the SettlementRecord account
    wallet,      \* wallet[o]: units in o's token account
    vault,       \* units in the pool's vault
    clock        \* Clock::unix_timestamp

vars == <<pool, position, record, wallet, vault, clock>>

Sides == {"Yes", "No"}
None == "None"
Amounts == 0 .. MaxU64
Timestamps == 0 .. MaxTime
Callers == Owners \cup {Creator}

\* "Absent" is the state before create_pool; the others are enum PoolState.
Unresolved == {"Open", "Locked"}
Settled == {"SettledYes", "SettledNo"}
PoolStates == {"Absent"} \cup Unresolved \cup Settled \cup {"Cancelled", "Closed"}

SettledFor(side) == IF side = "Yes" THEN "SettledYes" ELSE "SettledNo"

NoPosition == [side |-> None, amount |-> 0, claimed |-> FALSE, refunded |-> FALSE]
NoRecord == [winningSide |-> None, sequence |-> 0]

PoolAccounts ==
    [state : PoolStates, cutoff : Timestamps, refundAfter : Timestamps,
     demoMode : BOOLEAN, winningSide : Sides \cup {None},
     sideAmount : [Sides -> Amounts], remainingPool : Amounts,
     remainingWinning : Amounts, settledSequence : Nat]

PositionAccounts ==
    [side : Sides \cup {None}, amount : Amounts, claimed : BOOLEAN, refunded : BOOLEAN]

\* Every counter stays a u64 and no balance is ever negative.
TypeOK ==
    /\ pool \in PoolAccounts
    /\ position \in [Owners -> PositionAccounts]
    /\ record \in [winningSide : Sides \cup {None}, sequence : Nat]
    /\ wallet \in [Owners -> Nat]
    /\ vault \in Nat
    /\ clock \in Timestamps

Init ==
    /\ pool = [state |-> "Absent", cutoff |-> 0, refundAfter |-> 0,
               demoMode |-> FALSE, winningSide |-> None,
               sideAmount |-> [s \in Sides |-> 0], remainingPool |-> 0,
               remainingWinning |-> 0, settledSequence |-> 0]
    /\ position = [o \in Owners |-> NoPosition]
    /\ record = NoRecord
    /\ wallet = Endowment
    /\ vault = 0
    /\ clock = 0

-----------------------------------------------------------------------------
(* The pool's arithmetic *)

Pot(p) == p.sideAmount["Yes"] + p.sideAmount["No"]

(* The operators named Faulty... are plausible slips in the operator that    *)
(* follows them.  Nothing uses them: substituting one must break a property. *)

FaultyOutcomeStateKeepsPot(p, side) ==
    IF p.remainingPool = 0 \/ p.sideAmount[side] = 0
    THEN "Closed" ELSE SettledFor(side)

\* How a resolution leaves the pool: nothing staked is already closed, a
\* winning side nobody backed refunds everyone, otherwise winners claim.
OutcomeState(p, side) ==
    IF p.remainingPool = 0 THEN "Closed"
    ELSE IF p.sideAmount[side] = 0 THEN "Cancelled"
    ELSE SettledFor(side)

OutcomeRecorded(p, side, sequence) ==
    [p EXCEPT !.winningSide = side,
              !.settledSequence = sequence,
              !.remainingWinning = p.sideAmount[side],
              !.state = OutcomeState(p, side)]

FaultyPayoutOfTotals(p, amount) ==
    (Pot(p) * amount) \div p.sideAmount[p.winningSide]

FaultyPayoutOfVault(p, amount) ==
    IF amount = p.remainingWinning
    THEN vault
    ELSE (vault * amount) \div p.remainingWinning

FaultyPayoutRoundedUp(p, amount) ==
    (p.remainingPool * amount + p.remainingWinning - 1) \div p.remainingWinning

\* floor(R * amount / W), and all that remains for the last winner.
Payout(p, amount) ==
    IF amount = p.remainingWinning
    THEN p.remainingPool
    ELSE (p.remainingPool * amount) \div p.remainingWinning

\* The conditions under which claim_amount returns an amount.
Claimable(p, q) ==
    /\ p.state \in Settled
    /\ q.side # None
    /\ p.state = SettledFor(q.side)
    /\ ~q.claimed
    /\ ~q.refunded
    /\ q.amount > 0
    /\ p.remainingWinning >= q.amount
    /\ p.remainingPool >= p.remainingWinning
    /\ Payout(p, q.amount) > 0

ClaimRecorded(p, amount, payout) ==
    [p EXCEPT !.remainingPool = @ - payout,
              !.remainingWinning = @ - amount,
              !.state = IF p.remainingWinning = amount THEN "Closed" ELSE @]

FaultyRefundableTwice(p, q) ==
    /\ p.state = "Cancelled"
    /\ q.amount > 0
    /\ p.remainingPool >= q.amount

Refundable(p, q) ==
    /\ p.state = "Cancelled"
    /\ ~q.claimed
    /\ ~q.refunded
    /\ q.amount > 0
    /\ p.remainingPool >= q.amount

RefundRecorded(p, amount) ==
    [p EXCEPT !.remainingPool = @ - amount,
              !.state = IF p.remainingPool = amount THEN "Closed" ELSE @]

\* Every instruction that resolves the pool or pays from it first checks that
\* the vault holds the recorded liability (VaultBalanceMismatch).
VaultCovers(p) == vault >= p.remainingPool

-----------------------------------------------------------------------------
(* Who may do what, and when *)

FaultyAcceptsDepositsAtCutoff(p) == p.state = "Open" /\ clock <= p.cutoff
AcceptsDeposits(p) == p.state = "Open" /\ clock < p.cutoff

FaultyAcceptsOutcomeAgain(p, sequence) ==
    p.state \notin {"Absent", "Open"} /\ sequence > 0
AcceptsOutcome(p, sequence) == p.state = "Locked" /\ sequence > 0

FaultyAcceptsCancelResolved(p) == p.state \notin {"Absent", "Closed"}
AcceptsCancel(p) == p.state \in Unresolved

FaultyMayCancelCreatorOnly(authority) == authority = Creator
MayCancel(authority) == authority = Creator \/ clock >= pool.refundAfter

-----------------------------------------------------------------------------
(* Instructions *)

\* Any caller can derive these parameters; the settlement configuration that
\* is created with the pool is the subject of a module of its own.
CreatePool(cutoff, refundAfter, demoMode) ==
    /\ pool.state = "Absent"
    /\ cutoff > clock
    /\ cutoff + Grace <= MaxTime
    /\ refundAfter >= cutoff + Grace
    /\ pool' = [pool EXCEPT !.state = "Open", !.cutoff = cutoff,
                            !.refundAfter = refundAfter, !.demoMode = demoMode]
    /\ UNCHANGED <<position, record, wallet, vault, clock>>

\* Every check on the way of a deposit: the token program's, the pool's and the
\* position's.
JoinAccepted(o, side, amount) ==
    /\ amount > 0
    /\ wallet[o] >= amount
    /\ vault + amount <= MaxU64
    /\ AcceptsDeposits(pool)
    /\ pool.sideAmount[side] + amount <= MaxU64
    /\ pool.remainingPool + amount <= MaxU64
    /\ position[o].side \in {None, side}
    /\ ~position[o].claimed
    /\ ~position[o].refunded
    /\ position[o].amount + amount <= MaxU64

\* Transfer into the vault, then book the stake on the pool and the position.
JoinPool(o, side, amount) ==
    /\ JoinAccepted(o, side, amount)
    /\ pool' = [pool EXCEPT !.sideAmount[side] = @ + amount,
                            !.remainingPool = @ + amount]
    /\ position' = [position EXCEPT ![o].side = side, ![o].amount = @ + amount]
    /\ wallet' = [wallet EXCEPT ![o] = @ - amount]
    /\ vault' = vault + amount
    /\ UNCHANGED <<record, clock>>

LockPool ==
    /\ pool.state = "Open"
    /\ clock >= pool.cutoff
    /\ pool' = [pool EXCEPT !.state = "Locked"]
    /\ UNCHANGED <<position, record, wallet, vault, clock>>

\* Only the creator may sign this one.
RecordDemoOutcome(side, sequence) ==
    /\ VaultCovers(pool)
    /\ pool.demoMode
    /\ AcceptsOutcome(pool, sequence)
    /\ pool' = OutcomeRecorded(pool, side, sequence)
    /\ UNCHANGED <<position, record, wallet, vault, clock>>

\* Anyone may sign this one.  The payload has passed validate_payload and the
\* daily-root checks; `side` is the boolean TxLINE returns for it, about which
\* the program knows nothing.  The record account is created here (`init`),
\* which fails when it exists.
SettlePool(side, sequence) ==
    /\ VaultCovers(pool)
    /\ AcceptsOutcome(pool, sequence)
    /\ record = NoRecord
    /\ pool' = OutcomeRecorded(pool, side, sequence)
    /\ record' = [winningSide |-> side, sequence |-> sequence]
    /\ UNCHANGED <<position, wallet, vault, clock>>

CancelPool(authority) ==
    /\ VaultCovers(pool)
    /\ AcceptsCancel(pool)
    /\ MayCancel(authority)
    /\ pool' = [pool EXCEPT !.winningSide = None,
                            !.remainingWinning = 0,
                            !.state = IF pool.remainingPool = 0
                                      THEN "Closed" ELSE "Cancelled"]
    /\ UNCHANGED <<position, record, wallet, vault, clock>>

ClaimAccepted(o) ==
    LET payout == Payout(pool, position[o].amount) IN
    /\ Claimable(pool, position[o])
    /\ vault >= payout
    /\ VaultCovers(pool)
    /\ pool.remainingPool >= payout
    \* with the last winning stake paid nothing may remain (record_claim)
    /\ pool.remainingWinning = position[o].amount => pool.remainingPool = payout

Claim(o) ==
    LET payout == Payout(pool, position[o].amount) IN
    /\ ClaimAccepted(o)
    /\ pool' = ClaimRecorded(pool, position[o].amount, payout)
    /\ position' = [position EXCEPT ![o].claimed = TRUE]
    /\ wallet' = [wallet EXCEPT ![o] = @ + payout]
    /\ vault' = vault - payout
    /\ UNCHANGED <<record, clock>>

RefundAccepted(o) ==
    /\ Refundable(pool, position[o])
    /\ vault >= position[o].amount
    /\ VaultCovers(pool)

Refund(o) ==
    LET amount == position[o].amount IN
    /\ RefundAccepted(o)
    /\ pool' = RefundRecorded(pool, amount)
    /\ position' = [position EXCEPT ![o].refunded = TRUE]
    /\ wallet' = [wallet EXCEPT ![o] = @ + amount]
    /\ vault' = vault - amount
    /\ UNCHANGED <<record, clock>>

(* Outside the program: the token program lets anyone credit the vault, and *)
(* time passes.  MaxGift and MaxTime are bounds.                            *)
DirectTransfer(gift) ==
    /\ pool.state # "Absent"
    /\ gift > 0
    /\ vault + gift <= MaxU64
    /\ vault + gift <= pool.remainingPool + MaxGift
    /\ vault' = vault + gift
    /\ UNCHANGED <<pool, position, record, wallet, clock>>

Tick ==
    /\ clock < MaxTime
    /\ clock' = clock + 1
    /\ UNCHANGED <<pool, position, record, wallet, vault>>

Next ==
    \/ \E cutoff, refundAfter \in Timestamps, demoMode \in BOOLEAN :
          CreatePool(cutoff, refundAfter, demoMode)
    \/ \E o \in Owners, side \in Sides, amount \in Amounts : JoinPool(o, side, amount)
    \/ LockPool
    \/ \E side \in Sides, sequence \in Sequences : RecordDemoOutcome(side, sequence)
    \/ \E side \in Sides, sequence \in Sequences : SettlePool(side, sequence)
    \/ \E authority \in Callers : CancelPool(authority)
    \/ \E o \in Owners : Claim(o)
    \/ \E o \in Owners : Refund(o)
    \/ \E gift \in Gifts : DirectTransfer(gift)
    \/ Tick

Spec == Init /\ [][Next]_vars

-----------------------------------------------------------------------------
(* Safety                                                                  *)

(* A stake of n is counted as n units, so that what a set of owners staked  *)
(* is the cardinality of a set and needs no recursive sum.                  *)
StakeUnits(positions, S) ==
    {u \in S \X (1 .. MaxU64) : u[2] <= positions[u[1]].amount}
StakedBy(positions, S) == Cardinality(StakeUnits(positions, S))
StakeOf(S) == StakedBy(position, S)

Backers(side) == {o \in Owners : position[o].side = side}
UnpaidBackers(side) == {o \in Backers(side) : ~position[o].claimed}
Unrefunded == {o \in Owners : ~position[o].refunded}
Claimed == {o \in Owners : position[o].claimed}

\* What o has been paid out of the vault so far.
Received(o) == wallet[o] + position[o].amount - Endowment[o]

\* The pool's four counters are caches of what the position accounts say
\* (Pool::{add_stake, record_outcome, record_claim, record_refund} maintain
\* them without ever reading the other positions): each side's amount is what
\* its backers staked, R is the unpaid liability and W the unclaimed winning
\* stake.
BooksBalance ==
    /\ \A side \in Sides : pool.sideAmount[side] = StakeOf(Backers(side))
    /\ pool.state \in Unresolved => pool.remainingPool = Pot(pool)
    /\ pool.state = "Cancelled" => pool.remainingPool = StakeOf(Unrefunded)
    /\ \A side \in Sides :
          pool.state = SettledFor(side) =>
             pool.remainingWinning = StakeOf(UnpaidBackers(side))

\* No winner or refundee can be locked out by the order in which the others
\* were paid: every check that Claim or Refund would make on an entitled
\* position passes, the vault's balance and record_claim's final require
\* included.
NobodyStranded ==
    \A o \in Owners :
       LET q == position[o] IN
       /\ pool.state \in Settled /\ pool.state = SettledFor(q.side) /\ q.side # None
             /\ ~q.claimed
          => /\ Claimable(pool, q)
             /\ vault >= Payout(pool, q.amount)
             /\ VaultCovers(pool)
             /\ pool.remainingWinning = q.amount =>
                   pool.remainingPool = Payout(pool, q.amount)
       /\ pool.state = "Cancelled" /\ q.side # None /\ ~q.refunded
          => Refundable(pool, q) /\ VaultCovers(pool)

\* Nobody is paid anything but what is owed: a refund is the exact stake; a
\* claim is at least the floor of the owner's share of the whole pot and
\* exceeds the share by at most one unit per earlier claim, whatever the
\* order of claims and whatever was sent straight to the vault; nobody else is
\* paid at all (docs/pool-program.md, "Accounting and safety rules").
PaidWhatIsOwed ==
    \A o \in Owners :
       LET q == position[o]
           winning == pool.sideAmount[q.side]
       IN  /\ ~q.claimed /\ ~q.refunded => Received(o) = 0
           /\ q.refunded => ~q.claimed /\ Received(o) = q.amount
           /\ q.claimed =>
                 /\ q.side = pool.winningSide
                 /\ (Received(o) + 1) * winning > Pot(pool) * q.amount
                 /\ Received(o) * winning
                       <= Pot(pool) * q.amount + (Cardinality(Claimed) - 1) * winning

\* A closed pool owes nothing: every position was refunded, or a winner was
\* recorded and every position on that side was paid (PoolState::Closed, "no
\* withdrawable stake remains").
ClosedLeavesNobodyUnpaid ==
    pool.state = "Closed" =>
       /\ pool.remainingPool = 0
       /\ \A o \in Owners :
             position[o].side # None =>
                \/ position[o].refunded
                \/ /\ pool.winningSide \in Sides
                   /\ IF position[o].side = pool.winningSide
                      THEN position[o].claimed
                      ELSE Claimed # {}

\* The one-time settlement record and the pool tell the same story for ever:
\* once it exists the pool is resolved with the record's winner and sequence,
\* and no later cancellation can have replaced it.
RecordAgrees ==
    record # NoRecord =>
       /\ pool.state \notin Unresolved \cup {"Absent"}
       /\ pool.winningSide = record.winningSide
       /\ pool.settledSequence = record.sequence

\* A resolution is final: no instruction reopens a resolved pool, changes its
\* winner or its sequence, or moves it anywhere but to Closed.
ResolutionIsFinal ==
    [][pool.state \notin Unresolved \cup {"Absent"} =>
          /\ pool'.state \in {pool.state, "Closed"}
          /\ pool'.winningSide = pool.winningSide
          /\ pool'.settledSequence = pool.settledSequence]_vars

\* From the cutoff on nobody's stake moves, although the pool stays Open until
\* somebody locks it.
StakesFreezeAtCutoff ==
    [][pool.state # "Absent" /\ clock >= pool.cutoff =>
          /\ pool'.sideAmount = pool.sideAmount
          /\ \A o \in Owners : position'[o].amount = position[o].amount
                               /\ position'[o].side = position[o].side]_vars

\* What a winner could claim never drops while others claim before it, so
\* claiming early gains nothing.
Quote(o) == Payout(pool, position[o].amount)
QuotesNeverDrop ==
    [][\A o \in Owners :
          Claimable(pool, position[o]) /\ ~position'[o].claimed =>
             Quote(o)' >= Quote(o)]_vars

(* The inductive invariant behind the theorems: Coherent for those of       *)
(* PoolEscrowProofs up to there, and the rate for what everyone is paid.    *)

\* A position exists exactly when it has a stake, and is marked paid only on
\* the side of a recorded winner or after a cancellation.
PositionsCoherent ==
    \A o \in Owners :
       LET q == position[o] IN
       /\ q.side = None <=> q.amount = 0
       /\ q.claimed => ~q.refunded /\ q.side # None /\ q.side = pool.winningSide
       /\ q.refunded => q.side # None

\* What each state of the pool implies about its counters and its positions.
StageCoherent ==
    /\ pool.state \in Unresolved \cup {"Absent"} =>
          /\ pool.remainingPool = Pot(pool)
          /\ pool.winningSide = None
          /\ Claimed = {}
          /\ Unrefunded = Owners
    /\ \A side \in Sides :
          pool.state = SettledFor(side) =>
             /\ pool.winningSide = side
             /\ Unrefunded = Owners
             /\ pool.remainingWinning > 0
             /\ pool.remainingPool >= pool.remainingWinning
    /\ pool.state = "Cancelled" => Claimed = {} /\ pool.remainingPool > 0

Coherent ==
    /\ TypeOK
    /\ BooksBalance
    /\ PositionsCoherent
    /\ StageCoherent
    /\ ClosedLeavesNobodyUnpaid
    /\ VaultCovers(pool)

\* While winners claim, what remains per unclaimed winning unit never falls
\* below the pot per winning unit, and every claim adds at most one unit to
\* the surplus that rounding down leaves to the later winners.
SharesKeepRate ==
    \A side \in Sides :
       pool.state = SettledFor(side) =>
          LET winning == pool.sideAmount[side]
              share == Pot(pool) * pool.remainingWinning
          IN  /\ share <= pool.remainingPool * winning
              /\ pool.remainingPool * winning <= share + Cardinality(Claimed) * winning

IInv == Coherent /\ SharesKeepRate

-----------------------------------------------------------------------------
(* Liveness                                                                *)

(* Nothing obliges the creator, the keeper or TxLINE to act.  What is       *)
(* assumed is that time passes, that the owner of a payable position        *)
(* eventually collects it, and that once refund_after has passed somebody   *)
(* (cancel_pool is permissionless then) eventually cancels an unresolved    *)
(* pool.                                                                    *)
CancelOverdue ==
    /\ clock >= pool.refundAfter
    /\ \E authority \in Owners : CancelPool(authority)

Fairness ==
    /\ WF_vars(Tick)
    /\ WF_vars(CancelOverdue)
    /\ \A o \in Owners : WF_vars(Claim(o)) /\ WF_vars(Refund(o))

FairSpec == Spec /\ Fairness

\* Escrowed money always comes out: with no creator, keeper or oracle alive, a
\* created pool is eventually closed.
EveryPoolCloses == pool.state = "Open" ~> pool.state = "Closed"
=============================================================================
