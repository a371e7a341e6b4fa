--------------------------- MODULE DevnetVerifier ---------------------------
(***************************************************************************)
(* The two devnet verifiers (tooling/verify-pool-lifecycle-devnet.ts and   *)
(* tooling/verify-proof-settlement-devnet.ts): scripts that deploy pools,  *)
(* send instructions that must succeed and instructions that must be       *)
(* rejected with the codes they name, and then write down what they saw.   *)
(* The Proof Receipt page is built from the second one's evidence.         *)
(*                                                                         *)
(* They run against the live escrow program: the chain's clock is not      *)
(* theirs, instructions are permissionless, and the project's own keeper   *)
(* settles every locked pool it lists.                                     *)
(***************************************************************************)
EXTENDS ProofReceipt

CONSTANTS
    Deployer, Participant,
    YesStake, NoStake,   \* 4 and 6 units
    SecondStake,         \* 2 units, in the pool that is cancelled
    FinalSequence,       \* the sequence of the fixture's final record
    CutoffDelay,         \* how long a pool of a verifier takes deposits
    LastTick             \* bound on the clock; deadlines may lie beyond it

ASSUME VerifierAssumption ==
    /\ Deployer # Participant
    /\ Owners = {Deployer, Participant} /\ Creator = Deployer
    /\ LastTick \in Nat /\ CutoffDelay \in Nat \ {0}
    /\ LastTick + CutoffDelay + Grace <= MaxTime
    /\ FinalSequence \in Sequences \ {0}
    /\ StatKeys \in Seq(Nat) /\ StatKeys # <<>>
ASSUME StakesAssumption ==
    /\ YesStake \in Nat \ {0} /\ NoStake \in Nat \ {0} /\ SecondStake \in Nat \ {0}
    \* the deployer still has this much when the first pool is settled
    /\ SecondStake <= 2 * YesStake + 3 * NoStake

VARIABLES
    script,      \* which verifier runs: "lifecycle" or "proof"
    pc,          \* the number of its next step
    ended,       \* "no", "done", or "failed": it threw
    now,         \* the chain time it read before it created its pool
    settledPool, \* the lifecycle verifier's first pool, once it has moved on
    answers,     \* answers[n]: what the script made of the answer to step n
    evidence,    \* the evidence file: empty, or a set of one record
    disturbed,   \* history: the clock or somebody else interfered
    lost         \* history: a call failed without an answer of the program

chain == <<pool, position, record, wallet, vault>>
verifier == <<script, pc, ended, now, settledPool, answers, evidence>>
history == <<disturbed, lost>>
verifierVars == <<chain, clock, verifier, history>>

-----------------------------------------------------------------------------
(* What an instruction answers.  A handler makes its checks in order and    *)
(* fails with the code of the first that does not hold; the accounts'       *)
(* constraints come before the handler.                                     *)

Check(code, holds) == [code |-> code, holds |-> holds]

Answer(checks) ==
    IF \A i \in DOMAIN checks : checks[i].holds THEN "ok"
    ELSE checks[CHOOSE i \in DOMAIN checks :
                   /\ ~checks[i].holds
                   /\ \A j \in 1 .. i - 1 : checks[j].holds].code

CreateChecks(cutoff, refundAfter) ==
    << Check("AccountAlreadyInitialized", pool.state = "Absent"),
       Check("InvalidCutoff", cutoff > clock),
       Check("InvalidRefundTime", refundAfter >= cutoff + Grace) >>

JoinChecks(o, side, amount) ==
    << Check("InvalidAmount", amount > 0),
       Check("InsufficientFunds", wallet[o] >= amount),
       Check("PoolNotOpen", pool.state = "Open"),
       Check("CutoffPassed", clock < pool.cutoff),
       Check("PositionMismatch", position[o].side \in {None, side}),
       Check("AlreadyClaimed", ~position[o].claimed),
       Check("AlreadyRefunded", ~position[o].refunded) >>

LockChecks ==
    << Check("PoolNotOpen", pool.state = "Open"),
       Check("CutoffNotReached", clock >= pool.cutoff) >>

DemoOutcomeChecks(sequence) ==
    << Check("VaultBalanceMismatch", VaultCovers(pool)),
       Check("UnverifiedSettlementDisabled", pool.demoMode),
       Check("PoolNotLocked", pool.state = "Locked"),
       Check("InvalidSequence", sequence > 0) >>

FaultySettleChecksLeaveDateOut(altered, sequence) ==
    << Check("AccountAlreadyInitialized", record = NoRecord),
       Check("InvalidSequence", sequence > 0),
       Check("VaultBalanceMismatch", VaultCovers(pool)),
       Check("SettlementStrategyMismatch", altered # "strategy"),
       Check("SettlementFixtureMismatch", altered # "fixture"),
       Check("NonFinalSettlementProof", altered # "period"),
       Check("InvalidDailyScoresRoot", altered # "root"),
       Check("TxlineRejected", altered \notin {"statValue", "merkleProof"}),
       Check("PoolNotLocked", pool.state = "Locked") >>

\* `altered` is the part of a true proof that was changed.  TxLINE's program
\* fails on a proof that its daily root does not commit to.
SettleChecks(altered, sequence) ==
    << Check("AccountAlreadyInitialized", record = NoRecord),
       Check("InvalidSequence", sequence > 0),
       Check("VaultBalanceMismatch", VaultCovers(pool)),
       Check("SettlementStrategyMismatch", altered # "strategy"),
       Check("SettlementFixtureMismatch", altered # "fixture"),
       Check("InvalidProofTimestamp", altered # "timestamp"),
       Check("NonFinalSettlementProof", altered # "period"),
       Check("InvalidDailyScoresRoot", altered # "root"),
       Check("TxlineRejected", altered \notin {"statValue", "merkleProof"}),
       Check("PoolNotLocked", pool.state = "Locked") >>

CancelChecks(authority) ==
    << Check("VaultBalanceMismatch", VaultCovers(pool)),
       Check("PoolAlreadyResolved", pool.state \in Unresolved),
       Check("UnauthorizedCancellation", MayCancel(authority)) >>

\* What is left in the pool pays this stake something.
Payable(o) ==
    /\ position[o].amount > 0
    /\ pool.remainingWinning >= position[o].amount
    /\ pool.remainingPool >= pool.remainingWinning
    /\ Payout(pool, position[o].amount) > 0

ClaimChecks(o) ==
    << Check("AccountNotInitialized", position[o].side # None),
       Check("InvalidPayoutState", pool.state \in Settled),
       Check("NotWinningPosition", pool.state = SettledFor(position[o].side)),
       Check("AlreadyClaimed", ~position[o].claimed),
       Check("AlreadyRefunded", ~position[o].refunded),
       Check("InvalidPayoutState", Payable(o)),
       Check("VaultBalanceMismatch", VaultCovers(pool)) >>

RefundChecks(o) ==
    << Check("AccountNotInitialized", position[o].side # None),
       Check("RefundNotAvailable", pool.state = "Cancelled"),
       Check("AlreadyClaimed", ~position[o].claimed),
       Check("AlreadyRefunded", ~position[o].refunded),
       Check("InvalidPayoutState",
             position[o].amount > 0 /\ pool.remainingPool >= position[o].amount),
       Check("VaultBalanceMismatch", VaultCovers(pool)) >>

-----------------------------------------------------------------------------
(* The scripts                                                             *)

\* A step names what it does, as whom, and the answers it goes on with.
Send(do, who) ==
    [do |-> do, who |-> who, side |-> None, amount |-> 0,
     altered |-> "nothing", codes |-> {"ok"}]
Deposit(who, side, amount) ==
    [Send("join", who) EXCEPT !.side = side, !.amount = amount]

FaultySendProofTwiceIsFine(altered) ==
    [Send("settle", Deployer) EXCEPT
        !.altered = altered, !.codes = {"ok", "AccountAlreadyInitialized"}]

SendProof(altered) == [Send("settle", Deployer) EXCEPT !.altered = altered]

\* expectFailure: success, and any other code, is an error of the script.
\* Without codes every error will do, also one the program knows nothing of.
Refused(step, codes) == [step EXCEPT !.codes = codes]
NetworkError == "NetworkError"
AnyReason ==
    {"AccountAlreadyInitialized", "InvalidSequence", "VaultBalanceMismatch",
     "SettlementStrategyMismatch", "SettlementFixtureMismatch",
     "InvalidProofTimestamp", "NonFinalSettlementProof",
     "InvalidDailyScoresRoot", "TxlineRejected", "PoolNotLocked", NetworkError}

\* The lifecycle verifier: a demo pool that is settled and claimed ...
SettledPoolSteps ==
    << Send("readClock", Deployer),
       Send("create", Deployer),
       Deposit(Deployer, "Yes", YesStake),
       Deposit(Participant, "No", NoStake),
       Send("wait", Deployer),
       Refused(Deposit(Deployer, "Yes", 1), {"CutoffPassed"}),
       Send("lock", Deployer),
       Send("demoOutcome", Deployer),
       Refused(Send("claim", Participant), {"NotWinningPosition"}),
       Refused(Send("claimElsewhere", Deployer), {"ConstraintSeeds"}),
       Send("claim", Deployer),
       Refused(Send("claim", Deployer), {"InvalidPayoutState", "AlreadyClaimed"}) >>

\* ... and one that is cancelled and refunded.
RefundedPoolSteps ==
    << Send("nextPool", Deployer),
       Send("readClock", Deployer),
       Send("create", Deployer),
       Deposit(Deployer, "No", SecondStake),
       Send("cancel", Deployer),
       Send("refund", Deployer),
       Refused(Send("refund", Deployer), {"RefundNotAvailable", "AlreadyRefunded"}) >>

LifecycleSteps ==
    << Send("fund", Deployer) >> \o SettledPoolSteps
        \o RefundedPoolSteps \o << Send("report", Deployer) >>

\* The proof verifier: a locked pool that is no demo, ...
LockedPoolSteps ==
    << Send("readClock", Deployer),
       Send("create", Deployer),
       Deposit(Deployer, "Yes", YesStake),
       Deposit(Participant, "No", NoStake),
       Send("wait", Deployer),
       Send("lock", Deployer) >>

\* ... the true proof altered in every part it consists of, ...
RejectedProofs ==
    << Refused(Send("demoOutcome", Deployer), {"UnverifiedSettlementDisabled"}),
       Refused(SendProof("fixture"), {"SettlementFixtureMismatch"}),
       Refused(SendProof("period"), {"NonFinalSettlementProof"}),
       Refused(SendProof("timestamp"), {"InvalidProofTimestamp"}),
       Refused(SendProof("strategy"), {"SettlementStrategyMismatch"}),
       Refused(SendProof("root"), {"InvalidDailyScoresRoot"}),
       Refused(SendProof("statValue"), AnyReason),
       Refused(SendProof("merkleProof"), AnyReason) >>

\* ... and the true one, sent twice.
SettlementSteps ==
    << Send("readPool", Deployer),
       Send("simulate", Deployer),
       SendProof("nothing"),
       Refused(SendProof("nothing"), AnyReason),
       Send("readRecord", Deployer),
       Send("claim", Deployer) >>

ProofSteps ==
    << Send("fetchProof", Deployer), Send("fund", Deployer) >> \o LockedPoolSteps
        \o RejectedProofs \o SettlementSteps \o << Send("writeEvidence", Deployer) >>

Steps == IF script = "proof" THEN ProofSteps ELSE LifecycleSteps
Step == Steps[pc]

\* Steps that only look at the chain, or at nothing on it.
Reads == {"fetchProof", "readClock", "wait", "readPool", "simulate",
          "readRecord", "report", "writeEvidence"}

\* mintTo: what each of them holds when the pools are created.
Minted ==
    [o \in Owners |->
        CASE script = "lifecycle" /\ o = Deployer -> 2 * (YesStake + NoStake)
          [] script = "lifecycle" /\ o = Participant -> YesStake + NoStake
          [] script = "proof" /\ o = Deployer -> YesStake
          [] OTHER -> NoStake]

Cutoff == now + CutoffDelay

\* The rejected proofs left no trace.
Untouched == pool.state = "Locked" /\ pool.settledSequence = 0 /\ record = NoRecord

\* The record says what the proof proved.
RecordOfTheProof == record = [winningSide |-> "Yes", sequence |-> FinalSequence]

StepAnswer(step) ==
    CASE step.do = "create" -> Answer(CreateChecks(Cutoff, Cutoff + Grace))
      [] step.do = "join" -> Answer(JoinChecks(step.who, step.side, step.amount))
      [] step.do = "lock" -> Answer(LockChecks)
      [] step.do = "demoOutcome" -> Answer(DemoOutcomeChecks(FinalSequence))
      [] step.do \in {"settle", "simulate"} ->
            Answer(SettleChecks(step.altered, FinalSequence))
      [] step.do = "claim" -> Answer(ClaimChecks(step.who))
      [] step.do = "claimElsewhere" -> "ConstraintSeeds"
      [] step.do = "cancel" -> Answer(CancelChecks(step.who))
      [] step.do = "refund" -> Answer(RefundChecks(step.who))
      [] step.do = "readPool" ->
            Answer(<<Check("RejectedSettlementChangedState", Untouched)>>)
      [] step.do = "readRecord" ->
            Answer(<<Check("ReceiptDoesNotMatch", RecordOfTheProof)>>)
      [] OTHER -> "ok"

\* The second pool of the lifecycle verifier has accounts of its own.
FreshPool ==
    [state |-> "Absent", cutoff |-> 0, refundAfter |-> 0, demoMode |-> FALSE,
     winningSide |-> None, sideAmount |-> [s \in Sides |-> 0], remainingPool |-> 0,
     remainingWinning |-> 0, settledSequence |-> 0]

Fund ==
    /\ wallet' = Minted
    /\ UNCHANGED <<pool, position, record, vault, clock>>

MoveOn ==
    /\ pool' = FreshPool
    /\ position' = [o \in Owners |-> NoPosition]
    /\ record' = NoRecord
    /\ vault' = 0
    /\ UNCHANGED <<wallet, clock>>

Effect(step) ==
    \/ step.do = "create" /\ CreatePool(Cutoff, Cutoff + Grace, script = "lifecycle")
    \/ step.do = "join" /\ JoinPool(step.who, step.side, step.amount)
    \/ step.do = "lock" /\ LockPool
    \/ step.do = "demoOutcome" /\ RecordDemoOutcome("Yes", FinalSequence)
    \/ step.do = "settle" /\ SettlePool("Yes", FinalSequence)
    \/ step.do = "claim" /\ Claim(step.who)
    \/ step.do = "cancel" /\ CancelPool(step.who)
    \/ step.do = "refund" /\ Refund(step.who)
    \/ step.do = "fund" /\ Fund
    \/ step.do = "nextPool" /\ MoveOn
    \/ step.do \in Reads /\ UNCHANGED <<chain, clock>>

\* The evidence file: what a receipt is made from, whose stake and claim are
\* constants of the script, and the reasons of the refusals.
ForReceipt ==
    [Evidence(Deployer) EXCEPT
        !.result = {[result EXCEPT !.sequence = FinalSequence] : result \in @},
        !.settlement = {[observedSequence |-> record.sequence,
                         winningSide |-> record.winningSide]},
        !.payout = {[sideAmount |-> pool.sideAmount, userStake |-> YesStake,
                     claimedAmount |-> {YesStake + NoStake}]}]

WrittenEvidence ==
    [forReceipt |-> ForReceipt,
     rejected |-> [demoHook |-> answers[9], fixture |-> answers[10],
                   period |-> answers[11], timestamp |-> answers[12],
                   strategy |-> answers[13], root |-> answers[14],
                   statValue |-> answers[15], merkleProof |-> answers[16]],
     replayRejectedAs |-> answers[20]]

\* The pools the lifecycle verifier reports on.
Reported == settledPool \cup {pool}

-----------------------------------------------------------------------------
VerifierInit ==
    /\ Init
    /\ script \in {"lifecycle", "proof"}
    /\ pc = 1
    /\ ended = "no"
    /\ now = 0
    /\ settledPool = {}
    /\ answers = [n \in 1 .. Len(Steps) |-> None]
    /\ evidence = {}
    /\ disturbed = FALSE
    /\ lost = FALSE

\* What the instruction does when it lands; a rejected one does nothing.
Land == IF StepAnswer(Step) = "ok" THEN Effect(Step) ELSE UNCHANGED <<chain, clock>>

\* The script takes this for the answer to its step, and goes on.
GoOn(answer) ==
    /\ pc' = pc + 1
    /\ answers' = [answers EXCEPT ![pc] = answer]

\* The step answers as the script expects.
Advance ==
    /\ ended = "no"
    /\ StepAnswer(Step) \in Step.codes
    /\ Step.do = "wait" => clock >= Cutoff
    /\ Land
    /\ GoOn(StepAnswer(Step))
    /\ ended' = IF pc = Len(Steps) THEN "done" ELSE "no"
    /\ now' = IF Step.do = "readClock" THEN clock ELSE now
    /\ settledPool' = IF Step.do = "nextPool" THEN {pool} ELSE settledPool
    /\ evidence' = IF Step.do = "writeEvidence" THEN {WrittenEvidence} ELSE evidence
    /\ UNCHANGED <<script, history>>

FaultyThrowSendsAgain ==
    /\ ended = "no"
    /\ StepAnswer(Step) \notin Step.codes
    /\ Land
    /\ UNCHANGED <<verifier, history>>

\* An answer the script does not expect ends it.
Throw ==
    /\ ended = "no"
    /\ StepAnswer(Step) \notin Step.codes
    /\ Land
    /\ ended' = "failed"
    /\ UNCHANGED <<script, pc, now, settledPool, answers, evidence, history>>

\* The RPC node or TxLINE fails the call; an instruction may have landed.  A
\* script that waits for an answer, or for a code it names, ends ...
LoseConnection ==
    /\ ended = "no"
    /\ NetworkError \notin Step.codes
    /\ Land \/ UNCHANGED <<chain, clock>>
    /\ ended' = "failed"
    /\ lost' = TRUE
    /\ UNCHANGED <<script, pc, now, settledPool, answers, evidence, disturbed>>

\* ... and one that waits for any error takes this one for the refusal.
MistakeForRefusal ==
    /\ ended = "no"
    /\ NetworkError \in Step.codes
    /\ Land \/ UNCHANGED <<chain, clock>>
    /\ GoOn(NetworkError)
    /\ lost' = TRUE
    /\ UNCHANGED <<script, ended, now, settledPool, evidence, disturbed>>

\* waitForTimestamp gives up by a clock of its own.
WaitTimesOut ==
    /\ ended = "no"
    /\ Step.do = "wait"
    /\ clock < Cutoff
    /\ ended' = "failed"
    /\ disturbed' = TRUE
    /\ UNCHANGED <<chain, clock, script, pc, now, settledPool, answers, evidence, lost>>

\* PROOF_PLAY_PREFLIGHT_ONLY: measure the transaction and create nothing.
PreflightOnly ==
    /\ ended = "no"
    /\ script = "proof"
    /\ Step.do = "fund"
    /\ ended' = "done"
    /\ UNCHANGED <<chain, clock, script, pc, now, settledPool, answers, evidence, history>>

(* The others                                                              *)

\* The deposits that are still to come would be too late.
ComesTooLate == ended = "no" /\ Step.do \in {"create", "join"} /\ clock' >= Cutoff

ChainTick ==
    /\ clock < (IF pool.state = "Absent" /\ settledPool = {}
                THEN LastTick - CutoffDelay ELSE LastTick)
    /\ Tick
    /\ disturbed' = (disturbed \/ ComesTooLate)
    /\ UNCHANGED <<verifier, lost>>

KeeperSettles ==
    /\ SettlePool("Yes", FinalSequence)
    /\ disturbed' = TRUE
    /\ UNCHANGED <<verifier, lost>>

StrangerLocks ==
    /\ LockPool
    /\ disturbed' = TRUE
    /\ UNCHANGED <<verifier, lost>>

StrangerCancels ==
    /\ CancelPool("Stranger")
    /\ disturbed' = TRUE
    /\ UNCHANGED <<verifier, lost>>

VerifierNext ==
    \/ Advance
    \/ Throw
    \/ LoseConnection
    \/ MistakeForRefusal
    \/ WaitTimesOut
    \/ PreflightOnly
    \/ ChainTick
    \/ KeeperSettles
    \/ StrangerLocks
    \/ StrangerCancels

VerifierSpec == VerifierInit /\ [][VerifierNext]_verifierVars

(* The chain's clock advances, and a script whose call is answered goes on. *)
VerifierFairSpec ==
    /\ VerifierSpec
    /\ WF_verifierVars(Advance)
    /\ WF_verifierVars(Throw)
    /\ WF_verifierVars(ChainTick)

-----------------------------------------------------------------------------
\* The verifiers expect exactly what the program does: a run fails only when
\* the network or the chain's clock failed it or somebody else used its pool.
\* No order of checks, rounding or closing on the way makes a healthy
\* deployment look broken.
FailsOnlyForCause == ended = "failed" => disturbed \/ lost

\* A noted reason is the program's, unless calls were lost.
Reason(noted, code) == noted = code \/ (lost /\ noted = NetworkError)

\* What is written down is true although much of it is constant in the script:
\* nobody else can have settled the pool, the winner holds the claimed amount,
\* nothing is left, and the Proof Receipt page accepts the evidence.  That a
\* lost call was taken for a refusal changes none of this but the reason: where
\* none was lost, the altered value and proof were refused by TxLINE's program
\* and the replay because the settlement is on record.  Only a report that names
\* these reasons shows what docs/pool-program.md:123-127 says of it.
EvidenceIsTrue ==
    /\ \A e \in evidence :
          /\ ~disturbed
          /\ IsAccepted(e.forReceipt)
          /\ pool.state = "Closed" /\ vault = 0
          /\ \A payout \in e.forReceipt.payout :
                payout.claimedAmount = {wallet[Deployer] - Minted[Deployer] + YesStake}
          /\ Reason(e.rejected.statValue, "TxlineRejected")
          /\ Reason(e.rejected.merkleProof, "TxlineRejected")
          /\ Reason(e.replayRejectedAs, "AccountAlreadyInitialized")
    /\ ended = "done" /\ script = "lifecycle" =>
          /\ \A p \in Reported :
                p.state = "Closed" /\ p.remainingPool = 0
          /\ vault = 0
          /\ wallet[Deployer] = Minted[Deployer] + NoStake

(* The inductive invariant behind the theorems of DevnetVerifierProofs: what *)
(* the script has brought about before each of its steps, by the number of   *)
(* the step, and where the interference of others leaves it instead.         *)

\* A pool nobody has touched.
Fresh ==
    /\ pool = FreshPool
    /\ position = [o \in Owners |-> NoPosition]
    /\ record = NoRecord
    /\ vault = 0

\* The owner has staked this on one side (or nothing yet) and was not paid.
Staked(owner, side, amount) ==
    /\ position[owner].side = IF amount = 0 THEN None ELSE side
    /\ position[owner].amount = amount
    /\ ~position[owner].claimed /\ ~position[owner].refunded

\* Both have yes and no on the two sides of the first pool.
FirstPool(yes, no) ==
    /\ pool.cutoff = Cutoff
    /\ pool.demoMode = (script = "lifecycle")
    /\ pool.sideAmount["Yes"] = yes /\ pool.sideAmount["No"] = no
    /\ pool.remainingPool = yes + no /\ vault = yes + no
    /\ Staked(Deployer, "Yes", yes) /\ Staked(Participant, "No", no)
    /\ wallet[Deployer] = Minted[Deployer] - yes
    /\ wallet[Participant] = Minted[Participant] - no

Undecided == pool.settledSequence = 0 /\ record = NoRecord

\* Only the proof leaves a record.
Decided ==
    /\ pool.settledSequence = FinalSequence
    /\ IF script = "proof" THEN RecordOfTheProof ELSE record = NoRecord

FirstOpen(yes, no) == pool.state = "Open" /\ FirstPool(yes, no) /\ Undecided
FirstLocked == pool.state = "Locked" /\ FirstPool(YesStake, NoStake) /\ Undecided
FirstSettled ==
    /\ pool.state = "SettledYes" /\ FirstPool(YesStake, NoStake) /\ Decided
    /\ pool.remainingWinning = YesStake

\* The deployer has been paid everything.
FirstPaid ==
    /\ pool.state = "Closed" /\ Decided
    /\ pool.sideAmount["Yes"] = YesStake /\ pool.sideAmount["No"] = NoStake
    /\ pool.remainingPool = 0 /\ vault = 0
    /\ position[Deployer].side = "Yes" /\ position[Deployer].claimed
    /\ wallet[Deployer] = Minted[Deployer] + NoStake

\* In the second pool the deployer is alone.
SecondPool(states, no) ==
    /\ pool.state \in states
    /\ pool.cutoff = Cutoff
    /\ pool.sideAmount["Yes"] = 0 /\ pool.sideAmount["No"] = no
    /\ pool.remainingPool = no /\ vault = no
    /\ Staked(Deployer, "No", no)
    /\ wallet[Deployer] = Minted[Deployer] + NoStake - no

SecondRefunded ==
    /\ pool.state = "Closed"
    /\ pool.remainingPool = 0 /\ vault = 0
    /\ position[Deployer].side = "No" /\ position[Deployer].refunded
    /\ wallet[Deployer] = Minted[Deployer] + NoStake

LifecycleOnCourse ==
    /\ pc \in 1 .. 3 => Fresh
    /\ pc \in 2 .. 3 => wallet = Minted
    /\ pc = 4 => FirstOpen(0, 0)
    /\ pc = 5 => FirstOpen(YesStake, 0)
    /\ pc \in 6 .. 8 => FirstOpen(YesStake, NoStake)
    /\ pc = 9 => FirstLocked
    /\ pc \in 10 .. 12 => FirstSettled
    /\ pc \in 13 .. 14 => FirstPaid
    /\ pc \in 15 .. 16 => Fresh /\ wallet[Deployer] = Minted[Deployer] + NoStake
    /\ pc = 17 => SecondPool({"Open"}, 0)
    /\ pc = 18 => SecondPool(Unresolved, SecondStake)
    /\ pc = 19 => SecondPool({"Cancelled"}, SecondStake)
    /\ pc \in 20 .. 22 => SecondRefunded

ProofOnCourse ==
    /\ pc \in 1 .. 4 => Fresh
    /\ pc \in 3 .. 4 => wallet = Minted
    /\ pc = 5 => FirstOpen(0, 0)
    /\ pc = 6 => FirstOpen(YesStake, 0)
    /\ pc \in 7 .. 8 => FirstOpen(YesStake, NoStake)
    /\ pc \in 9 .. 19 => FirstLocked
    /\ pc \in 20 .. 22 => FirstSettled
    /\ pc \in 23 .. 24 => FirstPaid

OnCourse == IF script = "proof" THEN ProofOnCourse ELSE LifecycleOnCourse

\* Somebody else has locked, settled or cancelled the pool before the step that
\* needs it as it was: the script passes its reads and then throws.
NeedsOpen == pc \in (IF script = "proof" THEN 5 .. 8 ELSE (4 .. 8) \cup {17})
NeedsLocked == pc \in (IF script = "proof" THEN 9 .. 19 ELSE {9, 18})
Spoilt ==
    \/ NeedsOpen /\ pool.state # "Open"
    \/ NeedsLocked /\ pool.state \notin Unresolved

\* A deposit, or the pool itself, is still to come and its cutoff has passed.
Deposits == pc \in (IF script = "proof" THEN 4 .. 6 ELSE {3, 4, 5, 16, 17})
Late == Deposits /\ clock >= Cutoff

\* The waiting is over.
Waited == pc \in (IF script = "proof" THEN {8} ELSE {7, 8}) => clock >= Cutoff

LastPc == IF script = "proof" THEN 24 ELSE 22

VerifierTypeOK ==
    /\ TypeOK
    /\ script \in {"lifecycle", "proof"}
    /\ ended \in {"no", "done", "failed"}
    /\ now \in Nat
    /\ disturbed \in BOOLEAN /\ lost \in BOOLEAN
    /\ pc \in 1 .. LastPc
    /\ DOMAIN answers = 1 .. LastPc - 1
    /\ ended = "no" => pc < LastPc
    /\ ended = "done" => pc = LastPc \/ (script = "proof" /\ pc = 2)

\* Whoever has not failed is on course, or will fail because of the others; the
\* proof verifier is never on course once they have interfered.
StaysOnCourse ==
    /\ ended = "failed" => disturbed \/ lost
    /\ ended # "failed" => OnCourse \/ (disturbed /\ Spoilt)
    /\ ended = "no" /\ ~disturbed => ~Late
    /\ ended # "failed" /\ script = "proof" /\ disturbed => Spoilt \/ Late
    /\ Waited

\* What has been written down is still what the chain says.
KeepsNotes ==
    /\ settledPool = {} \/ pc > 14
    /\ \A p \in settledPool : p.state = "Closed" /\ p.remainingPool = 0
    /\ \/ evidence = {}
       \/ evidence = {WrittenEvidence} /\ script = "proof" /\ pc = 24 /\ ended = "done"

\* Undisturbed, it has heard what the program said, or lost the call.
HeardReasons ==
    script = "proof" /\ ~disturbed =>
       /\ \A n \in {15, 16} : pc > n => Reason(answers[n], "TxlineRejected")
       /\ pc > 20 => Reason(answers[20], "AccountAlreadyInitialized")

VerifierInv == VerifierTypeOK /\ StaysOnCourse /\ HeardReasons /\ KeepsNotes

\* A verifier never hangs, whatever the others do to its pool.
VerifierEnds == <>(ended # "no")
=============================================================================
