---------------------------- MODULE ProofReceipt ----------------------------
(***************************************************************************)
(* The Proof Receipt (packages/receipt): the record of one claim that the  *)
(* pages show, built from what the score feed, the proof and the pool say, *)
(* and refused when those disagree.  The receipt is read off the escrow    *)
(* program's own pool at any moment of its life.                           *)
(*                                                                         *)
(* A part of the input that may be missing is a set of at most one record. *)
(***************************************************************************)
EXTENDS PoolEscrow, Sequences

CONSTANT
    StatKeys     \* the stat keys of the pool's condition, in order

FinalPeriod == 100
FinalStatus == 100

\* The final record lists the condition's own stats, of the whole game.
IsOfTheCondition(result, statKeys) ==
    /\ result.sequence > 0
    /\ result.action = "game_finalised"
    /\ result.statusId = FinalStatus
    /\ Len(result.stats) = Len(statKeys)
    /\ \A i \in DOMAIN statKeys :
          /\ result.stats[i].key = statKeys[i]
          /\ result.stats[i].period = FinalPeriod

\* The proof was accepted for that very record, and the winner is its verdict.
IsSettledByIt(settlement, validation, result) ==
    /\ validation.proofAccepted
    /\ validation.predicateResult \in BOOLEAN
    /\ settlement.observedSequence = result.sequence
    /\ settlement.winningSide = IF validation.predicateResult THEN "Yes" ELSE "No"

\* payoutSummary: the claim, recomputed from what was staked on each side.
CalculatedClaim(settlement, payout) ==
    ((payout.sideAmount["Yes"] + payout.sideAmount["No"]) * payout.userStake)
        \div payout.sideAmount[settlement.winningSide]

PayoutAgrees(settlement, payout) ==
    /\ payout.sideAmount[settlement.winningSide] # 0
    /\ \A claimed \in payout.claimedAmount : claimed = CalculatedClaim(settlement, payout)

\* A receipt that is not verified may name no winner and no claim.
NamesNoWinner(input) ==
    /\ \A settlement \in input.settlement : settlement.winningSide = None
    /\ \A payout \in input.payout : payout.claimedAmount = {}

\* buildProofReceipt returns a receipt for this input, and does not throw.
IsAccepted(input) ==
    /\ input.market.statKeys # <<>>
    /\ IF input.status = "verified"
       THEN \E result \in input.result, validation \in input.validation,
               settlement \in input.settlement, payout \in input.payout :
               /\ IsOfTheCondition(result, input.market.statKeys)
               /\ IsSettledByIt(settlement, validation, result)
               /\ PayoutAgrees(settlement, payout)
       ELSE NamesNoWinner(input)

\* receiptFromDevnetEvidence, of the claim that o made from this pool.
Evidence(o) ==
    [status |-> "verified",
     market |-> [statKeys |-> StatKeys],
     result |-> {[sequence |-> record.sequence, action |-> "game_finalised",
                  statusId |-> FinalStatus,
                  stats |-> [i \in DOMAIN StatKeys |->
                                [key |-> StatKeys[i], period |-> FinalPeriod]]]},
     validation |-> {[proofAccepted |-> TRUE,
                      predicateResult |-> record.winningSide = "Yes"]},
     settlement |-> {[observedSequence |-> pool.settledSequence,
                      winningSide |-> record.winningSide]},
     payout |-> {[sideAmount |-> pool.sideAmount, userStake |-> position[o].amount,
                  claimedAmount |-> {Received(o)}]}]

\* "The reusable receipt builder fails closed when final inputs, observed
\* sequence, predicate result, winner, or payout accounting disagree"
\* (docs/replay-keeper-receipt.md:59), and its formula is "floor(total
\* remaining pool x user winning stake / remaining winning stake)"
\* (packages/receipt/src/index.ts:127).  Every input here is what the program
\* recorded and paid, so a receipt of every claim of a proved pool exists.
EveryClaimHasAReceipt ==
    record # NoRecord =>
       \A o \in Owners : position[o].claimed => IsAccepted(Evidence(o))
=============================================================================
