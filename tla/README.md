# ProofPlay: specification and verification

TLA+ models of ProofPlay (prediction pools on Solana, settled from TxLINE score
proofs), the TLC instances that check them, and TLAPS proofs about them.
`PROJECT.json` maps every definition to the source lines it stands for.

## The system

| Component | State it keeps | Operations | Talks to |
| --- | --- | --- | --- |
| Escrow program (`programs/proof_play`) | per pool: `Pool`, `SettlementConfig`, `Position`s, `SettlementRecord`, token vault | `create_pool`, `join_pool`, `lock_pool`, `record_demo_outcome`, `settle_pool`, `cancel_pool`, `claim`, `refund` | token program, TxLINE program (CPI), clock |
| Settlement keeper (`scripts/keeper`) | nothing durable; one run's listing, the pool in hand, the attempt | `run`/`watch`: list, history, proof, refresh, submit, confirm | program accounts over RPC, TxLINE API |
| Score stream (`packages/txline/src/sse.ts`) | `lastEventId`, per-fixture last sequence and pending buffer, reconnect count | connect, parse, push, reconnect | TxLINE SSE; consumers through an async generator |
| TxLINE client (`client.ts`, `adapter.ts`, `errors.ts`) | guest token, API token | authenticated request, renewal on 401, normalisation | TxLINE HTTP; keeper, API routes |
| Condition engine (`packages/condition-engine`) | none (pure) | parse, validate, normalise, compile to stat keys and strategy, evaluate | web client (commitment), program (strategy) |
| Replay (`packages/replay`) | reducer state: status, sequence, progress, timeline | prepare, schedule, emit, reduce | replay API route, browser `EventSource` |
| Proof Receipt (`packages/receipt`) | none (pure) | validate the bindings, recompute the payout | read model of the program's accounts |
| Pool creation page (`condition-builder.tsx`, `wallet-pool-creator.tsx`, `wallet-provider.tsx`) | legs and their preview, confirmed draft, estimated transaction, transaction phase | edit, compile, confirm, estimate, sign, submit, confirm | condition engine, wallet, RPC |
| Pool page (`pool-experience.tsx`, `pool-actions.ts`, `proof-play-program.ts`) | snapshot of pool and position, connected account, transaction phase | read snapshot, join, claim, refund, switch account | wallet, RPC |
| Judge demo (`demo-state.ts`, `judge-demo.tsx`) | stage, fixture, side, completion | select, compile, join, replay, settle, back, reset | replay player |
| Match center (`match-center.tsx`, `replay-match.tsx`, `live-score-monitor.tsx`) | mode; player or monitor, `EventSource`, stale timer | play, pause, restart, follow live, retry | replay and live score routes |
| Devnet verifiers (`tooling/verify-*-devnet.ts`) | the step reached, evidence | create, join, expected rejections, settle, claim, refund, report | escrow program, TxLINE; the receipt pages read the evidence |
| TxLINE credentials (`server.ts`, `cli.ts`, `verification.ts`) | the credentials file | subscribe, activate, recover, renew, verify | TxLINE program and API |
| Other API routes and pages | none of their own | thin wrappers, rendering | the above |

The program is the only authority over money. The keeper and the wallet clients
only send it transactions and read its accounts; they share no other state and
learn of each other's steps only through the chain. TxLINE supplies scores to
the stream, the history to the keeper, and its on-chain daily roots to
`settle_pool`.

### What is hard, and what makes each part correct

* **Escrow.** Pro-rata payouts rounded down over balances that shrink with each
  claim, in an order nobody controls; resolutions of degenerate pools (nothing
  staked, a winning side nobody backed); four counters that cache what the
  positions say and are never recomputed; cancellation racing settlement; a vault anyone may send
  tokens to; counterparties that never come back. Correct means: books balance,
  everyone is paid what is owed and only once, nobody is stranded, a resolution
  is final, and the money always comes out.
* **Keeper.** Every `await` is a window: the pool may be settled or cancelled by
  somebody else, a sent transaction may land long after its confirmation was
  given up, a crash forgets it. Correct means: at most one settlement, only from
  a proved final record, true reports, no failing pool in the way of the others,
  and eventual settlement.
* **Score stream.** Duplicates, reordering, gaps, truncated blocks, a bounded
  buffer, reconnects with `Last-Event-ID`. Correct means: in order, once, and
  eventually everything that was sent.
* **TxLINE client.** Concurrent renewals of one token, one retry per request,
  diagnostics that decide whether the stream ends or reconnects.
* **Condition engine.** The compiled strategy must decide exactly what the
  canonical condition says, at every boundary of a threshold, and cover each stat
  index once.
* **Replay and live monitor.** Pause, resume, restart, the browser's own reconnects,
  records after the final one, records published while nothing was connected. Correct
  means: each record reduced once, in order; a replay that ends; a monitor that does not
  call itself current when it is not.
* **Receipt.** Must accept every claim the program pays and nothing else.
* **Bytes between browser and program.** Accounts and instructions are laid out twice, by
  Anchor and by hand; a field out of place reads as another one.
* **Devnet verifiers.** They name the code of one failing check among several, on a chain
  where clock, keeper and strangers act too and calls get lost. Correct means: they fail only for a cause
  and what they write down is true.
* **Pool creation page.** Compilations, estimates and submissions overlap with
  edits, new confirmations and second clicks. Correct means: the preview is of the
  legs on the screen, the wallet signs what was reviewed, and one estimate makes one
  pool.
* **Pool page.** Decisions on a stale snapshot and clock, and a confirmation
  lost after the transaction landed.
* **Judge demo.** A later stage must never be reached without the earlier ones,
  going back included.

## Modules

| Module | What it is |
| --- | --- |
| `PoolEscrow` | the escrow program, one pool; its safety and liveness properties; the inductive invariant `IInv` |
| `EscrowPromise` | what the program promises participants, without counters, clock or accounts |
| `PoolLifecycle` | a pool as seen from outside: its state and settled sequence |
| `PoolEscrowRefinement` | the mappings of `PoolEscrow` onto the two modules above |
| `Keeper` | settlement keepers against pools that follow `PoolLifecycle` |
| `ConditionEngine` | pure: validation, normalisation, compilation and local evaluation of a condition, and what its legs mean |
| `SettlementBinding` | a condition from the creator's legs to the side it pays: compiler, `SettlementConfig`, a match, proofs sent to `settle_pool` |
| `ScoreStream` | `streamNormalizedScores` over a feed and connections that break |
| `PoolCreator` | the pool creation page, and its transactions on the chain |
| `AccountCodec` | pure: the accounts and instructions as both sides lay them out, addresses, and the program's account constraints |
| `PoolPage` | the pool page, the wallet and other tabs over `PoolEscrow` and `AccountCodec` |
| `TxlineRecords` | pure: what the adapter makes of TxLINE's answers - score records and proofs |
| `ReplayPlayer` | the replay route, the browser's `EventSource`, the player and its reducer |
| `JudgeDemo` | the guided demonstration around a `ReplayPlayer` |
| `LiveMonitor` | the live score route and the monitor that listens to it |
| `MatchCenter` | the pages that show a match: the judge demo, or the match page with player and monitor; their inductive invariant |
| `ProofReceipt` | which receipts `buildProofReceipt` accepts, read off `PoolEscrow` |
| `DevnetVerifier` | the two verifier scripts, step by step, against `PoolEscrow` and `ProofReceipt` |
| `MC...` | values of the constants for TLC |
| `PoolEscrowProofs` | the arithmetic of payouts, stakes as cardinalities, the theorems about `PoolEscrow`, and that it implements `EscrowPromise` |
| `KeeperProofs`, `ScoreStreamProofs`, `PoolCreatorProofs`, `PoolPageProofs`, `SettlementBindingProofs`, `MatchCenterProofs`, `DevnetVerifierProofs` | the theorems about the module of that name |

`ScoreStream` and `PoolCreator` stand alone, and `Keeper` acts on pools that follow
`PoolLifecycle`. `PoolPage`, `ProofReceipt` and `DevnetVerifier` extend `PoolEscrow`, so that
pages and scripts act on the very program; `SettlementBinding` extends `ConditionEngine` and
`TxlineRecords`; `MatchCenter` extends `JudgeDemo` and `LiveMonitor`, both over
`ReplayPlayer` and `TxlineRecords`.

Operators named `Faulty...` are plausible slips in the operator after them. They
are used nowhere; each is what a property was seen to catch when put in the place
of the original (`mutants` in `PROJECT.json`).

### PoolEscrow

The variables are the accounts of one pool: `pool` (record of `Pool`'s fields),
`position[o]` (`Position`), `record` (`SettlementRecord`), `wallet[o]` and `vault`
(token accounts), and `clock`. An action is one instruction, handler and
state method together: transactions are atomic, so every `require!` and
checked operation on the path is a conjunct of the guard (`JoinAccepted`,
`ClaimAccepted` and `RefundAccepted` name the guards that the pool page's simulation asks
for too). Guards that only
identify accounts (seeds, mints, owners, programs) are not modelled: with one
pool there is nothing to confuse. `settle_pool`'s payload checks and the TxLINE
call are in `SettlementBinding`; here the side they yield is a free choice, which
is more than the program allows. The creator may be a participant or an outsider.

`pool.state = "Absent"` is the state before `create_pool`; the values of
`remainingWinning` outside settled states are those the program leaves there.
The token transfer into the vault fails when the wallet is short or the vault
would exceed `u64`; the transfer out checks the vault. `DirectTransfer` and `Tick`
are the token program and the clock.

Stakes are summed without recursion: `StakeUnits(positions, S)` holds one pair
per unit staked by the owners in `S`, and its cardinality is the sum. This is
what lets the prover, which has no induction over data, reason about sums.

### Keeper

`pc[k]` is the `await` at which keeper `k` stands; `listed[k]` are the pools of
the current run not yet taken up, with the state `listPools` returned for them;
`job[k]` is the pool in hand with the attempt of the running `#withRetry`, the
chosen final sequence and what is known of the sent transaction; `result[k]` are
the run's results. Each phase has one action for the answer and one for the
error, whose `cause` is what the code distinguishes: `transient`
(`isRetryableKeeperError`), `fatal` (any other), `resolved`
(`isAlreadySettledError`). Whether the program's refusal also reads as retryable
depends on the text of the error, so both are allowed. `inflight` holds sent
transactions: they land, are refused or expire on their own; `awaited` says whether
the sender still listens. `OthersMove` is everybody else, restricted to the steps
of `PoolLifecycle`, which `PoolEscrow` is proved to implement. Backoff lengths,
logging and the content of proofs are left out; a proof either matches or not
(`Unprovable`). `dryRun` are the keepers started with `--dry-run`, chosen once.
Rollback of a transaction already confirmed is not modelled.

### ConditionEngine and SettlementBinding

`ConditionEngine` has no variables. A leg is a record; legs that lack a field carry
`NoParticipant` or `NoComparison`. `ConditionError` gives the first error the
parser reports, in its order; `Sorted` is the normal form; `CompileCondition` gives
the status, the error, the normal legs, the stat keys and the strategy;
`EvaluateCondition` is the local evaluator with missing stats. `Holds` is the
meaning of a leg as rendered to the creator, the reference the compiled strategy
is measured against. Errors that follow from the shape of the JSON alone, rendering
and the hash are left out: the commitment is the list of normal legs.

`SettlementBinding` walks one condition through its life: `Compile`, `Edit`,
`CreatePool` (the checks of `SettlementConfig::initialize`), `HalfTime` and
`FullTime` of the match, and `SettlePool` with any `Payloads`: another fixture,
other keys or another order, leaves of the first half, unsound timestamps or roots,
another strategy, another day's root. TxLINE's own program is an assumption: it
answers for genuine leaves under their day's root, and a leaf with the full-game
period (100) carries the final value of its stat. The program never sees the
legs: that the strategy it stores is the compiled form of the commitment it stores
is up to the client that creates the pool, and `CreatePool` is that client. On the way
the strategy is written by the client (`ComparisonsWritten`, `EncodedPredicate`) and read by
the program (`ComparisonsRead`, `DecodedPredicate`), each by its own numbering;
`KeeperSubmits` is what the adapter (`normalizeScoreProofV3`) and the keeper
(`MatchesPool`) let through of a proof.

### ScoreStream

The feed is a log whose positions are the event ids; `Publish` appends records in
any order, repeated, or malformed. `phase` is where the generator stands,
`position` what it has read and where its connection is, `request` the guest token,
`tracker[f]` the `ScoreSequenceTracker` of a fixture, `outbox` what the last push let
out and the consumer has not taken. `Push` is the tracker's algorithm: buffering,
flushing consecutive numbers, giving up a gap when the buffer overflows.
`EndsInsideEvent` is a body that ends after the `id:` line of an event;
`truncated` remembers that it happened, for `DeliversWhatIsDue` only. Delays of
the backoff and telemetry are left out. Every event is assumed to have an id.

### PoolCreator

Each `await` of the page ends an action: `CompileSettles`, `PrepareSucceeds`/
`PrepareFails`, and a call of `create` that goes through `building` (the blockhash),
`signing` (the wallet), `signed` and `sent`. React closures are modelled as such: an
estimate or a call of `create` keeps the draft and the transaction it was clicked
for, and its result sets the state whatever was confirmed meanwhile. Cutoff checks
are failures that may happen. `network` and `Land` are the chain: `create_pool`
fails when the account of the pool exists.

### AccountCodec and PoolPage

`AccountCodec` writes an account as Anchor writes the struct of `state.rs` and reads it
as `proof-play-program.ts` reads its bytes: a sequence of fields with their widths, so that
a reader that is out of step either fails or takes another field of the same width, as the
code would. Instructions are built by the client (`CreatePoolInstruction`,
`JoinPoolInstruction`, `PayoutInstruction`) and held against the program's `Accounts`
structs (`CreatedTerms`, `AccountsAccepted`): order, seeds, mint and owner. A derived address is
the tuple of its seeds; collisions are left out.

`PoolPage` starts from a pool created by the client's own instruction. `shown` is the
snapshot, `due` and `reading` the effect that reads it, first the pool, then the owner's
accounts; a read that was superseded has no effect. `ClaimOffered`, `RefundOffered` and
`JoinOffered` are the rules of `pool-actions.ts` and of the buttons. A click keeps the
snapshot of its rendering (`Begins`), asks the wallet (`AskWallet`), is simulated (`Accepts`:
all that the runtime and the program check) and sent (`Submit`), lands or is dropped on its own (`Land`, `Drop`), and the page hears of it or not
(`Confirm`, `Fail`). `Elsewhere` is everybody else, the owner's other tabs included.

### TxlineRecords, ReplayPlayer, JudgeDemo, LiveMonitor, MatchCenter

`TxlineRecords` is what `normalizers.ts` and `adapter.ts` do with an answer: the envelope,
the required and optional fields, the lifecycle, the order of a history. One unreadable record
fails a history.

`ReplayPlayer` composes route, connection, player and reducer. `answer` is the history
TxLINE has, `source` the `EventSource` with what its stream has delivered, `player` the
state, `rendered` its value at the last rendering, which is what a click sees. An
`EventSource` whose connection breaks opens it again with the URL it was made with; one
that is answered with an error gives up. `JudgeDemo` adds the demo's reducer, its own state
and the player's callbacks. `LiveMonitor` adds the live route: every connection is a stream
of its own, which begins wherever TxLINE begins it (`LiveOpens`), since the route does not
read the id the browser sends back. `MatchCenter` is the page with its mode; what is not
shown is not mounted.

### ProofReceipt

`IsAccepted` is the conjunction of what `buildProofReceipt` would throw for otherwise, and
`Evidence(o)` the input read off the program's accounts after `o`'s claim. Formats of
identifiers, hashes and links are left out.

### DevnetVerifier

A script is a sequence of steps, each with what it does, as whom, and the answers it goes on
with; `expectFailure` is a step whose answers are error codes. `StepAnswer` makes the
program's checks in the program's order (`JoinChecks`, `SettleChecks`, ...), account constraints
first, and answers with the first that fails. `Effect` is the instruction of `PoolEscrow`.
The clock runs, the project's keeper settles, strangers lock and cancel, and calls are lost.
A lost call ends the script (`LoseConnection`), except where `expectFailure` is given no codes,
at the altered value, the altered Merkle proof and the replay: there any error will do, and the
script takes the failure of the call for the refusal and goes on (`MistakeForRefusal`). `answers`
keeps what it made of each answer, and `WrittenEvidence` writes the reasons down.
The lifecycle script's second pool has accounts of its own (`MoveOn`). Fees, compute units and
transaction sizes are left out.

## Runs

| Run | Instance | What it shows |
| --- | --- | --- |
| `escrow` | 4 owners with 2, 1, 1, 1 units, the creator an outsider; clock 0..3; gifts of 1; with fairness | the inductive invariant, all safety and action properties, `EveryPoolCloses`, and the implementation of `EscrowPromise` (`KeepsPromise`, its liveness included) and `PoolLifecycle` (`FollowsLifecycle`) |
| `keeper` | 1 keeper, dry or not, 2 pools, one unprovable, 1 attempt, with fairness | only proved finals are sent; runs cover their scope; what can be settled is |
| `keeper_pair` | 2 keepers, dry or not, up to their names, 1 pool, 2 attempts, 2 score records | reports are true; a settlement is credited to one keeper |
| `conditions` | up to 2 legs of every kind, thresholds around 0, 30 and 60; stats of 0 or 2; every proof | everything about compiling, encoding and settling |
| `stream` | 1 fixture, numbers up to 3, 3 events, buffer of 1, 1 reconnect without progress, with fairness | order, no silent skip, a bounded buffer, and delivery |
| `creator` | 3 conditions, one of which does not compile; 2 edits, estimates, clicks and addresses | `PreviewIsOfTheLegs`, `OnePoolPerEstimate` |
| `pool_page` | 3 owners, 2 of them accounts of the wallet, or none connected; 1 transaction of the page; others act elsewhere | the page's rules are the program's, its quotes hold, and it shows what it confirmed |
| `match_pages` | 9 histories; the demo or the match page; pauses, restarts, breaks, modes; with fairness | every record counts once, settlement follows the final record, a monitor without a running timer is current, a replay ends |
| `verifier` | both scripts, stakes 4, 6 and 2, with fairness | they fail only for a cause, report the truth, and end, lost calls taken for refusals included |
| `stream_cut`, `creator_review`, `receipt` | as the runs of the same module, or smaller | disagreements, see below |

The properties:

* Escrow: `IInv` (types and `u64` limits, counters equal to what the positions say, and the
  coherence the proofs need), `NobodyStranded` (every check of `claim`/`refund` passes for whoever is
  entitled), `PaidWhatIsOwed` (refund exact; a claim is at least the floor of the share of
  the whole pot and exceeds it by at most one unit per earlier claim; nobody else is
  paid), `ClosedLeavesNobodyUnpaid`, `RecordAgrees` (settlement record and pool),
  `ResolutionIsFinal`, `StakesFreezeAtCutoff`, `QuotesNeverDrop` (waiting while others
  claim costs nothing), `EveryPoolCloses`.
* Keeper: `OnlyProvenFinalsAreSent`, `ReportsAreTrue`, `RunsCoverTheirScope`,
  `OneKeeperSettles` (of several keepers whose transactions race, are repeated or land late,
  one counts the settlement as its own), `SettlesWhatItCan`.
* Conditions: `CompiledMeansDraft` (strategy, local evaluation and legs agree on every score),
  `AcceptedByProgram`, `ContradictionsAreExact` (refused if and only if no score satisfies
  both legs), `AcceptedIsOpen`, `OrderIsIrrelevant`, `MissingMeansUndecided` (no answer is
  revised when missing stats come in), `SettledAsTheConditionSays`,
  `KeeperAgreesWithProgram` (of proofs of the pool's final record the keeper submits those
  the program settles by).
* Stream: `InOrderAndOnce`, `NothingSkippedSilently`, `BuffersAreBounded`,
  `DeliversWhatIsDue`.
* Creation page: `PreviewIsOfTheLegs`, `OnePoolPerEstimate`.
* Pool page: `OffersWhatTheProgramAccepts` (with an up-to-date snapshot the page offers an
  action exactly when the program accepts the very instruction it would build),
  `PaysWhatItShowed` (a payout is never below the amount on the button),
  `ShowsWhatItConfirmed`.
* Match pages: `CountsEachRecordOnce`, `SettlementFollowsFinal`, `ConnectedMeansCurrent`,
  `ReplayEnds`.
* Verifiers: `FailsOnlyForCause`, `EvidenceIsTrue` (payout, pool and receipt are as written, and
  the reasons of the refusals are the program's unless calls were lost), `VerifierEnds`.

### Bounds

* Escrow: stakes of 2, 1, 1 and 1 in any split and on any side give exact shares, shares
  that lose a unit, and three claims in a row with changing remainders. `MaxU64` is the
  total and one gift, so gifts reach the `u64` checks.
* `MaxTime = 3`, `Grace = 1`: creation, deposits before the cutoff, the gap between
  cutoff and `refund_after`, and the time after. The code only compares times.
* `MaxGift = 1`: one unit of surplus is enough to distinguish the vault from `R`.
* `Sequences = {0, 1}`: the refused value and an accepted one.
* Keeper: 2 attempts (`keeper_pair`) are a first and a last one (both branches of
  `#withRetry`); `keeper` has one, since retries only delay the end of a phase, and what it
  checks of safety is proved for any number;
  2 pools a failing and a working one; 2 records a provisional and a final one, or a
  final one and its correction, in every order.
* Conditions: compiled predicates compare stats, sums and differences with constants,
  so thresholds on both sides of each limit (0, 30 for goals and margins, 60 for
  corners) and imagined scores of 0, 1, 2, 30 and 60 reach every boundary; a third leg
  is refused. Matches have stats of 0 or 2, which is enough for every order of two teams,
  for goals in one half only, and for both verdicts of the legs with small thresholds.
* Stream: a buffer of 1 overflows with the second held number, 3 numbers give a gap
  and a run behind it, 3 events repeat and reorder them. One event is sent again
  after `Last-Event-ID`. One fixture: the trackers of two share nothing but the log.
* Creator: two of everything are an old one and a new one.
* Pool page: two owners have staked on opposite sides, a third has one unit left and may
  have staked one. `MaxTime = 1`, `Grace = 0`: before and after the cutoff, where the refund
  date is too, so that everybody may cancel. One transaction of the page meets everything the chain, other tabs and
  the wallet do around it; double clicks and deposits begun again are outside this
  instance (see below).
* Match pages: the histories of at most 4 records are in order and not, with records after
  the final one, with a sequence twice, of another fixture, unreadable, wrapped or no
  collection at all; the timeline keeps 2 records instead of 40. The live feed is the
  prepared history, published record by record; a reconnect may begin anywhere in it.
* Receipt: stakes of 1, 2 and 1, the least in which two unequal winners share a rest.
* Verifiers: the real stakes; delays of 2 (cutoff) and 3 (grace) ticks, one for both pools.
  The clock stops at 5, and before the first pool early enough for that pool's deadlines.
* Deadlock is checked in `pool_page` and `match_pages`. Elsewhere the system may stop: a
  closed pool after the last tick has nothing left to do, a keeper may end, a settled
  condition, a stream that returned and a script that ended are done, and the page of a
  created pool is another page.

### Fairness

Escrow: time passes; the owner of a payable position eventually collects; once
`refund_after` has passed, some participant eventually calls `cancel_pool`, which is
permissionless then. Creator, keeper and oracle owe nothing.

Keeper: calls return or throw and backoffs elapse (weak fairness of a keeper's own
steps). A service asked infinitely often for one provable pool answers some day, and a
transaction sent infinitely often lands (strong fairness per pool: a failure leads
back to another attempt or another run). Nothing restarts an ended keeper for ever,
and nothing need restart it, so `SettlesWhatItCan` excepts keepers that have ended
for good.

Stream: the generator's own steps happen. TxLINE answers some of the requests it is
asked for ever, resuming right after `Last-Event-ID`, some renewal of the token
succeeds, and some connection lives until the next new event. A connection that
brings nothing is seen to break: the code has no read timeout of its own, so one that
hangs for ever would stop the stream for ever.

Match pages: the route answers, events that have arrived are handled, and at some time the
connection holds and nobody restarts the replay. `ReplayEnds` is about histories of matches
that are over (the last record is the only final one) and histories that are refused.

Verifiers: a call is answered, and the chain's clock advances.

## Proofs

The theorems hold for every value of the constants that satisfies the named assumptions of
the modules. Each rests on an inductive invariant, `IInv` (`PageInv` and `OfferInv` of the pool
page, `VerifierInv` of the scripts), that is defined beside the properties. TLC has checked it on the
instance of the module's run before it was proved; the escrow run still does, and adding it
to the `INVARIANTS` of another cfg repeats it there.

### Escrow: `PoolEscrowProofs`

For any finite set of owners, any endowments, any `u64` bound, any grace period and any
sequence numbers (`OwnersAssumption`, `NumbersAssumption`): type correctness, `BooksBalance`,
solvency of the vault, `ClosedLeavesNobodyUnpaid`, `NobodyStranded`, `ResolutionIsFinal`,
`StakesFreezeAtCutoff`, `PaidWhatIsOwed`, `QuotesNeverDrop`, `RecordAgrees`, and that the
program implements `PoolLifecycle` and, but for liveness, `EscrowPromise`.

`BooksBalance` is not inductive: nothing in it keeps a refunded position out of a
settled pool, or a claimed one out of a cancelled pool. `Coherent` adds

* `PositionsCoherent`: a position has a side exactly when it has a stake, and is
  marked claimed only on the recorded winning side;
* `StageCoherent`: what each pool state implies (nothing paid before a resolution;
  `R >= W > 0` while settled; `R > 0` while cancelled);
* `VaultCovers`: `vault >= R`.

The claim step rests on two facts about the payout: with `R >= W` and
`p < W`, `p <= floor(R*p/W)` (so the payout is positive) and
`R - floor(R*p/W) >= W - p` (so the invariant `R >= W` survives). The final claim is
exact because `W = p` then means, by counting units, that every other winner has been
paid. `NobodyIsStranded` then reads off `Coherent`.

What a claim is worth needs more: `SharesKeepRate` bounds `R` between `Pot*W/W0` and
`Pot*W/W0 + n` after `n` claims, `W0` being the winning side's total. Rounding down leaves the
rest of a division to later winners, which keeps the lower bound and adds at most a unit to
the upper one. From the lower bound a claim gives at least the floor of the exact share, from
the upper one at most a unit more per earlier claim (`PaysWhatIsOwed`), and since the rate
`R/W` only rises a claim of somebody else never lowers a quote (`WaitingIsFree`).
`KeepsThePromise` maps each instruction to a deposit, the verdict, a payment or a stutter of
`EscrowPromise`; it needs that a cancelled pool has no verdict for a side (`CancelledIsVoid`),
and the two theorems before it.

### Keeper: `KeeperProofs`

For any keepers, pools, records, attempts and strangers. `IInv` says of a keeper in the middle of a
pool that what its earlier phases established still holds (`JobIsCoherent`): the final
record is in the history, since feeds only grow; a proof exists; a transaction that answered
"Landed" or "Rejected" found an outcome, since outcomes are never taken back. `AwaitedIsTheJob`
ties a transaction in flight to the job that waits for it, which is what makes `ReportsAreTrue`
inductive; `ListAgesWell` says that a list only grows old in the direction of the lifecycle;
`NoneIsLost` that every pool of the scope is on the list, in hand or reported, which gives
`RunsCoverTheirScope`. `CreditsOneKeeper` (`OneKeeperSettles`) is inductive beside it: credit for a
settlement only comes with the answer "Landed"; the pool was Locked when the transaction landed,
so by `JobIsCoherent` and `ReportsAreTrue` nobody had credit before; and the refusal of a resolved
pool never ends as "settled".

### Stream: `ScoreStreamProofs`

For any fixtures, starts, limits and feeds. `TrackerFollows` says that the tracker's `last` is the last
number let out and that everything buffered is above it, so a push lets out an ascending run
that continues what the consumer has (`PushIsSound`); `OutboxIsOnePush`, that the
records of two pushes never wait together. That a buffer never outgrows its limit
(`OneGapIsEnough`) is a counting argument: a push adds one number, and giving up the first gap
lets out at least one. What a push lets out is given by
`Reach` and `Run` without recursion, which keeps it within the prover's reach.

### Creation page: `PoolCreatorProofs`

For any conditions, addresses and bounds. `OneTransactionPerEstimate` follows transactions from the estimate
that prepared them through every copy the page, the wallet and the network hold;
`OnePoolPerAddress` is the chain's rule; together they give `NoSecondPool`.
`PreviewFollowsTheLegs` is a property of the `active` flags of overlapping compilations.

### Conditions: `SettlementBindingProofs`

For any thresholds a creator may type and any scores, fixtures and proofs (`ValuesAssumption`).
Nothing here is an induction; the state's invariant (`IInv`) is short, and the work is about
`ConditionEngine`:

* `CompiledShape`: what compiles is one valid leg, or one on goals and one on corners, in
  that order whichever came first (`GoalsComeFirst`). Two legs on the same stats never get so far.
* `CodedMeansLeg`: for every kind of leg, every threshold in its bounds and every score, the
  predicates it compiles to are satisfied exactly when the leg holds.
* `StrategiesCover`: every stat is referenced once, so the compiler's own check is never what
  fails; `StrategyTravels`: writing and reading a predicate as numbers gives it back.
* `BindingLeaves`: a proof that passes `validate_payload` carries the final stats of the own
  match at the places the strategy expects, whoever sends it. With the above this is
  `SettlesAsTheConditionSays`.
* `ContradictMeansNever` and `NoContradictionMeansSome`: `validatePair` is sound and complete. A
  contradiction leaves no score because a leg needs `MinimumGoals`; where there is none, a score
  is constructed (the lowest of one leg under a limit, 60 to 1 for a common winner).

`RefusesOnlyContradictions` and `AcceptsOnlyOpenConditions` say that some score exists, and the
scores to choose from are a constant, so they assume that it has the numbers up to 60
(`Values \subseteq ProbeValues`), the largest threshold there is.

### Match pages: `MatchCenterProofs`

For any answers of the service with fields of the right types (`AnswersAssumption`) and any
length of the timeline. `InOrder` is the sort, as the one ascending list of a set;
`OrderExists` constructs that list from how many members come before each, so
`HistoricalScores` is what the comparison function says and `HistoryAscends` follows: a
history that is accepted ascends strictly. In such a list the records up to a sequence are
its first ones (`FirstOnes`), what a connection sends is a tail (`SentRecords`), and the
shown timeline, the last items of a list, can be kept by appending and cutting
(`LastOfAppend`).

`EachRecordOnce` needs to know that no connection is ahead of the player: a click starts it
where the page was last rendered, which is never later than where the player is, and it
brings everything in between again (`SourceFollows`). So the next record of a connection is
one the player has taken, which the reducer drops, or the next one (`NextIsKnownOrNext`).
`SettlementIsEarned` needs in addition that what the player has taken the demo has heard since
its last reset: an `onComplete` then comes after all the records before the final one
(`DemoFollows`). `ConnectedIsCurrent` follows the 15 seconds: only a final record stops the
timer, and the monitor then shows no less than the last record of its connection
(`MonitorFollows`).

### Verifiers: `DevnetVerifierProofs`

For any stakes, delays and bounds, as long as the deadlines fit the clock (`VerifierAssumption`)
and the deployer can pay for the second pool out of what the first returns (`StakesAssumption`).
The invariant, `VerifierInv`, goes by the program counter. `OnCourse` says, for each of the 21
and 23 steps, what the script has brought about before it: both pools' counters, positions, vault,
wallets and clock. For each of those states a lemma computes the first check of the program that
fails for the step, and shows that it is the code the script names. The other half is what may
go wrong: `Spoilt` and `Late` describe a pool that others have locked, settled or cancelled or
whose cutoff has passed, and the script then throws at the step that needs the pool as it was.
A lost call that is taken for a refusal leaves the course as it is, because what was sent there could
only be refused (`MistakeKeepsInv`); `HeardReasons` says what is noted at those three steps, the
program's reason or the lost call. `KeepsNotes` keeps what was written: the first pool when the
script moved on, and the evidence. `VerifierFailsOnlyForCause` and `VerifierEvidenceIsTrue` read off it; the latter adds that
`IsAccepted` of `ProofReceipt` accepts evidence of that form.

### Pool page: `PoolPageProofs`

For any accounts, openings, clicks and deadlines of the page's module (`AccountsAssumption`,
`OpeningsAssumption`, `SupplyAssumption`, `ClicksAssumption`, `DeadlinesAssumption`) on top of
the escrow's assumptions. `SupplyAssumption` says that the participants' balances and the opening
stakes together are a `u64`, as the supply of a mint is. Double clicks and any number of transactions are included here, beyond what the
run reaches.

* `ReadsWhatWasWritten`: what the client reads off the bytes of a pool or a position is what the
  program wrote there. The reader goes through the layout field by field, so the two agree
  because at every index the width before it is the same on both sides; a first field where it is
  not cannot exist.
* Every step of the page's chain is a step of `PoolEscrow` or leaves it alone, so `IInv`
  carries over; lemmas then say what any such step keeps of one position: stakes only grow until
  the pool is resolved and stay as they are after it, what was paid stays paid, and the pot does
  not fall.
* `PageInvariant` (`PageSpec => []PageInv`). A quote is computed from a pool and a position that
  were read at two moments, and the claim lands at a third. `QuoteStands` is what survives all
  three: the pool was resolved when it was read, so the stake read later is the final one, and a
  quote is at most what the claim pays now, with equality while nobody has been paid since. It
  goes from the read under way (`ReadingStands`) to the snapshot (`SnapshotStands`) to the click's
  transaction (`IntentStands`). `OutcomeStands` says that what a landed transaction brought
  about is not undone; `Fresh` that a page which is not about to read again has not read anything
  older than what it has confirmed. The latter rests on `Confirm` asking for a read that
  supersedes the one under way.
* `PagePaysWhatItShowed` follows from `QuoteStands` when the claim lands, and
  `PageShowsWhatItConfirmed` from `Fresh`.
* `PageOffersWhatIsAccepted` (`OffersWhatTheProgramAccepts`) needs three things more. The snapshot
  is a decoding of what was read, field by field (`SnapshotIsRead`), so an up-to-date one has the
  chain's state, cutoff, side and flags. The account that the program finds under each name of its
  `Accounts` structs is the one the client put at that place (`AccountsInPlace`,
  `AccountsAreAccepted`), and the side and amount of a deposit are read as written
  (`DepositIsRead`). And no deposit out of a token account overflows a counter: tokens only move
  between the accounts and the vault (`SupplyStep`), so the vault, which is at least the pot and so
  at least either side and any one stake, has room for the rest of the supply (`DepositFits`). That
  a payout offered is accepted is `NobodyStranded` of the escrow; the converse is in the guards.

### What stays with TLC

Liveness under fairness (`EveryPoolCloses`, `KeepsPromise` beyond `ImplementsPromise`,
`SettlesWhatItCan`, `DeliversWhatIsDue`, `ReplayEnds`, `VerifierEnds`) is beyond the prover.
Every safety property of the passing runs is a theorem.

## Where code and documents disagree

Shown by a run:

* `docs/txline-adapter.md` (53-56) has the stream parse frames across chunks and reconnect
  with the latest `Last-Event-ID`; when a body ends after an event's id line,
  `readSseMessages` (`sse.ts:73-75`) hands on the rest as an event, its id is taken
  and its data dropped, and the reconnect asks for what comes after it. The
  record is lost, without a reported gap if none follows (`stream_cut`).
* `docs/wallet-participation.md` (17-23) lists what "the review surface shows" before
  signing; `prepare` (`wallet-pool-creator.tsx:145`) sets the estimated transaction
  of the draft it was clicked for even when another draft has been confirmed
  meanwhile, and `create` sends it under the new review (`creator_review`).
* `packages/receipt/src/index.ts` (127) gives the claim as "floor(total remaining pool x user
  winning stake / remaining winning stake)", which is what the program pays; `payoutSummary`
  computes it from the original totals, so the receipt of a later winner who was paid
  a rest is refused as inconsistent (`receipt`).

Noticed without a run of its own:

* `docs/pool-program.md` (123-127) has the proof verifier prove "every adversarial alteration
  fails without changing state" and reject replay, and write a report of it. `expectFailure`
  (`verify-proof-settlement-devnet.ts:179-196`) without codes takes any error for the
  refusal, a failed RPC call included, so the report may name a network error as the reason why
  the altered value, the altered Merkle proof or the replay was rejected. The run `verifier`
  reaches such reports (`MistakeForRefusal`), and `EvidenceIsTrue` has to allow them where calls
  were lost; without its `lost` the property is violated.
* `docs/state-model.md` (229-233) makes RPC failures retryable; the keeper's refresh of
  the pool before submission (`core.ts:318`) is not retried and its failure is terminal
  (`RefreshFails`).
* "Transaction not submitted" (`wallet-pool-creator.tsx:271`) and the pool page's "Nothing
  changed on-chain" also follow a lost confirmation of a transaction that landed (`Fail`).
  A deposit that is begun again after that stakes twice; no document promises otherwise and no
  property excludes it.
* The lifecycle diagram of `docs/state-model.md` (135-147) draws no transition from Open or
  Locked to Closed, which is what `cancel` and `record_outcome` do with an empty pool.
* One failed listing ends a keeper that watches (`ListFails`).
* The judge demo seals any condition the judge has built with "Verified / Solana devnet"
  (`judge-demo.tsx:356-372`, `docs/demo-script.md:110`).
* `docs/replay-keeper-receipt.md` (7) has the replay deduplicate; `prepareReplayRecords`
  throws for a sequence that is there twice (`IsPrepared`).
* A history whose only final record is not its last leaves the player "running" with no
  source, and `ReplayEnds` assumes another history; no route sends the "replay-error" event the
  player listens for.
* The live route ignores `Last-Event-ID`. A reconnect after the final record starts the
  stale timer again, so that a finished match ends as "Live data may be stale"; a refused
  connection leaves "EventSource retries automatically", which it does not (`LiveIsRefused`).
* "A rejected settlement changed on-chain pool state." of the proof verifier also follows
  a settlement by the keeper, and a failed run of it loses the participant's generated
  key (`Throw`).

## Not modelled

* Of modelled parts: delays, backoff lengths and replay speeds; the progress fraction;
  telemetry; parsing and formatting of amounts; the estimate of an open pool's payout;
  lamports, fees and compute units; double clicks and repeated deposits in the instance of
  the pool page (`MaxTransactions = 1`).
* Translations without state that no modelled part uses: fixtures, odds and the V1 proof of
  `normalizers.ts`; the API routes but for replay and live scores, which only call the
  adapter and map its errors.
* The TxLINE credentials (`server.ts`, `cli.ts`, `verification.ts`), commands that an
  operator gives by hand, one at a time. Their hazards, for whoever extends the models: a crash
  between `subscribe` and the write of the credentials (`server.ts:399-420`), after which the
  signature `recover` needs was never printed; an update lost when `renew` or `verify`
  overlaps `activate` (`server.ts:204-213`, `cli.ts:155-171`); a file truncated by a crash
  while it is written (`server.ts:168`).
* Rendering, styling, static data, evidence files, and the scripts that check the
  repository or fund a wallet.
* TxLINE's own program, whose Merkle verification is outside this repository.

## Plan

Modelled and proved: the escrow program with its abstract specifications, the keeper, the
condition engine with its settlement binding, the score stream, the creation page, the pool
page with the account layouts, the match pages with replay and live monitor, and the devnet
verifiers; modelled and checked: the receipt. An extension would begin with the credentials
tooling, whose hazards are listed above.
