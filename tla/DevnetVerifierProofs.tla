------------------------ MODULE DevnetVerifierProofs ------------------------
(***************************************************************************)
(* Theorems about DevnetVerifier for all stakes, delays and bounds: neither *)
(* verifier fails without a cause outside it, and what one writes down is   *)
(* true.  The invariant follows the scripts step by step.                   *)
(***************************************************************************)
EXTENDS DevnetVerifier, PoolEscrowProofs

-----------------------------------------------------------------------------
(* The scripts, step by step                                                *)

\* The lifecycle verifier's steps by number.
LEMMA LifecycleStepsAre ==
    /\ Len(LifecycleSteps) = 21
    /\ LifecycleSteps[1] = Send("fund", Deployer)
    /\ LifecycleSteps[2] = Send("readClock", Deployer)
    /\ LifecycleSteps[3] = Send("create", Deployer)
    /\ LifecycleSteps[4] = Deposit(Deployer, "Yes", YesStake)
    /\ LifecycleSteps[5] = Deposit(Participant, "No", NoStake)
    /\ LifecycleSteps[6] = Send("wait", Deployer)
    /\ LifecycleSteps[7] = Refused(Deposit(Deployer, "Yes", 1), {"CutoffPassed"})
    /\ LifecycleSteps[8] = Send("lock", Deployer)
    /\ LifecycleSteps[9] = Send("demoOutcome", Deployer)
    /\ LifecycleSteps[10] = Refused(Send("claim", Participant), {"NotWinningPosition"})
    /\ LifecycleSteps[11] = Refused(Send("claimElsewhere", Deployer), {"ConstraintSeeds"})
    /\ LifecycleSteps[12] = Send("claim", Deployer)
    /\ LifecycleSteps[13] =
          Refused(Send("claim", Deployer), {"InvalidPayoutState", "AlreadyClaimed"})
    /\ LifecycleSteps[14] = Send("nextPool", Deployer)
    /\ LifecycleSteps[15] = Send("readClock", Deployer)
    /\ LifecycleSteps[16] = Send("create", Deployer)
    /\ LifecycleSteps[17] = Deposit(Deployer, "No", SecondStake)
    /\ LifecycleSteps[18] = Send("cancel", Deployer)
    /\ LifecycleSteps[19] = Send("refund", Deployer)
    /\ LifecycleSteps[20] =
          Refused(Send("refund", Deployer), {"RefundNotAvailable", "AlreadyRefunded"})
    /\ LifecycleSteps[21] = Send("report", Deployer)
  BY DEF LifecycleSteps, SettledPoolSteps, RefundedPoolSteps

\* The proof verifier's steps by number.
LEMMA ProofStepsAre ==
    /\ Len(ProofSteps) = 23
    /\ ProofSteps[1] = Send("fetchProof", Deployer)
    /\ ProofSteps[2] = Send("fund", Deployer)
    /\ ProofSteps[3] = Send("readClock", Deployer)
    /\ ProofSteps[4] = Send("create", Deployer)
    /\ ProofSteps[5] = Deposit(Deployer, "Yes", YesStake)
    /\ ProofSteps[6] = Deposit(Participant, "No", NoStake)
    /\ ProofSteps[7] = Send("wait", Deployer)
    /\ ProofSteps[8] = Send("lock", Deployer)
    /\ ProofSteps[9] = Refused(Send("demoOutcome", Deployer), {"UnverifiedSettlementDisabled"})
    /\ ProofSteps[10] = Refused(SendProof("fixture"), {"SettlementFixtureMismatch"})
    /\ ProofSteps[11] = Refused(SendProof("period"), {"NonFinalSettlementProof"})
    /\ ProofSteps[12] = Refused(SendProof("timestamp"), {"InvalidProofTimestamp"})
    /\ ProofSteps[13] = Refused(SendProof("strategy"), {"SettlementStrategyMismatch"})
    /\ ProofSteps[14] = Refused(SendProof("root"), {"InvalidDailyScoresRoot"})
    /\ ProofSteps[15] = Refused(SendProof("statValue"), AnyReason)
    /\ ProofSteps[16] = Refused(SendProof("merkleProof"), AnyReason)
    /\ ProofSteps[17] = Send("readPool", Deployer)
    /\ ProofSteps[18] = Send("simulate", Deployer)
    /\ ProofSteps[19] = SendProof("nothing")
    /\ ProofSteps[20] = Refused(SendProof("nothing"), AnyReason)
    /\ ProofSteps[21] = Send("readRecord", Deployer)
    /\ ProofSteps[22] = Send("claim", Deployer)
    /\ ProofSteps[23] = Send("writeEvidence", Deployer)
  BY DEF ProofSteps, LockedPoolSteps, RejectedProofs, SettlementSteps

\* What each step of the lifecycle verifier does.
LEMMA LifecycleStepsDo ==
    /\ LifecycleSteps[1].do = "fund" /\ LifecycleSteps[2].do = "readClock"
    /\ LifecycleSteps[3].do = "create" /\ LifecycleSteps[4].do = "join"
    /\ LifecycleSteps[5].do = "join" /\ LifecycleSteps[6].do = "wait"
    /\ LifecycleSteps[7].do = "join" /\ LifecycleSteps[8].do = "lock"
    /\ LifecycleSteps[9].do = "demoOutcome" /\ LifecycleSteps[10].do = "claim"
    /\ LifecycleSteps[11].do = "claimElsewhere" /\ LifecycleSteps[12].do = "claim"
    /\ LifecycleSteps[13].do = "claim" /\ LifecycleSteps[14].do = "nextPool"
    /\ LifecycleSteps[15].do = "readClock" /\ LifecycleSteps[16].do = "create"
    /\ LifecycleSteps[17].do = "join" /\ LifecycleSteps[18].do = "cancel"
    /\ LifecycleSteps[19].do = "refund" /\ LifecycleSteps[20].do = "refund"
    /\ LifecycleSteps[21].do = "report"
  BY LifecycleStepsAre DEF Send, Deposit, Refused, SendProof

\* What each step of the proof verifier does.
LEMMA ProofStepsDo ==
    /\ ProofSteps[1].do = "fetchProof" /\ ProofSteps[2].do = "fund"
    /\ ProofSteps[3].do = "readClock" /\ ProofSteps[4].do = "create"
    /\ ProofSteps[5].do = "join" /\ ProofSteps[6].do = "join"
    /\ ProofSteps[7].do = "wait" /\ ProofSteps[8].do = "lock"
    /\ ProofSteps[9].do = "demoOutcome" /\ ProofSteps[10].do = "settle"
    /\ ProofSteps[11].do = "settle" /\ ProofSteps[12].do = "settle"
    /\ ProofSteps[13].do = "settle" /\ ProofSteps[14].do = "settle"
    /\ ProofSteps[15].do = "settle" /\ ProofSteps[16].do = "settle"
    /\ ProofSteps[17].do = "readPool" /\ ProofSteps[18].do = "simulate"
    /\ ProofSteps[19].do = "settle" /\ ProofSteps[20].do = "settle"
    /\ ProofSteps[21].do = "readRecord" /\ ProofSteps[22].do = "claim"
    /\ ProofSteps[23].do = "writeEvidence"
  BY ProofStepsAre DEF Send, Deposit, Refused, SendProof

\* The steps of the lifecycle verifier that must be refused, and the others.
LEMMA LifecycleStepsExpect ==
    /\ \A k \in {7, 10, 11, 13, 20} : LifecycleSteps[k].codes \cap {"ok", NetworkError} = {}
    /\ \A k \in (1 .. 6) \cup {8, 9, 12} \cup (14 .. 19) \cup {21} :
          LifecycleSteps[k].codes = {"ok"}
  <1>1. /\ LifecycleSteps[7].codes \cap {"ok", NetworkError} = {}
        /\ LifecycleSteps[10].codes \cap {"ok", NetworkError} = {}
        /\ LifecycleSteps[11].codes \cap {"ok", NetworkError} = {}
        /\ LifecycleSteps[13].codes \cap {"ok", NetworkError} = {}
        /\ LifecycleSteps[20].codes \cap {"ok", NetworkError} = {}
    BY LifecycleStepsAre DEF Refused, Send, Deposit, NetworkError
  <1>2. /\ LifecycleSteps[1].codes = {"ok"} /\ LifecycleSteps[2].codes = {"ok"}
        /\ LifecycleSteps[3].codes = {"ok"} /\ LifecycleSteps[4].codes = {"ok"}
        /\ LifecycleSteps[5].codes = {"ok"} /\ LifecycleSteps[6].codes = {"ok"}
        /\ LifecycleSteps[8].codes = {"ok"} /\ LifecycleSteps[9].codes = {"ok"}
        /\ LifecycleSteps[12].codes = {"ok"} /\ LifecycleSteps[14].codes = {"ok"}
        /\ LifecycleSteps[15].codes = {"ok"} /\ LifecycleSteps[16].codes = {"ok"}
        /\ LifecycleSteps[17].codes = {"ok"} /\ LifecycleSteps[18].codes = {"ok"}
        /\ LifecycleSteps[19].codes = {"ok"} /\ LifecycleSteps[21].codes = {"ok"}
    BY LifecycleStepsAre DEF Send, Deposit
  <1> QED
    BY <1>1, <1>2

\* The steps of the proof verifier that must be refused, with a code and without,
\* and the others.
LEMMA ProofStepsExpect ==
    /\ \A k \in 9 .. 14 : ProofSteps[k].codes \cap {"ok", NetworkError} = {}
    /\ \A k \in {15, 16, 20} : ProofSteps[k].codes = AnyReason
    /\ \A k \in (1 .. 8) \cup (17 .. 19) \cup (21 .. 23) : ProofSteps[k].codes = {"ok"}
  <1>1. /\ ProofSteps[9].codes \cap {"ok", NetworkError} = {}
        /\ ProofSteps[10].codes \cap {"ok", NetworkError} = {}
        /\ ProofSteps[11].codes \cap {"ok", NetworkError} = {}
        /\ ProofSteps[12].codes \cap {"ok", NetworkError} = {}
        /\ ProofSteps[13].codes \cap {"ok", NetworkError} = {}
        /\ ProofSteps[14].codes \cap {"ok", NetworkError} = {}
    BY ProofStepsAre DEF Refused, Send, SendProof, NetworkError
  <1>3. /\ ProofSteps[15].codes = AnyReason /\ ProofSteps[16].codes = AnyReason
        /\ ProofSteps[20].codes = AnyReason
    BY ProofStepsAre DEF Refused, Send, SendProof
  <1>2. /\ ProofSteps[1].codes = {"ok"} /\ ProofSteps[2].codes = {"ok"}
        /\ ProofSteps[3].codes = {"ok"} /\ ProofSteps[4].codes = {"ok"}
        /\ ProofSteps[5].codes = {"ok"} /\ ProofSteps[6].codes = {"ok"}
        /\ ProofSteps[7].codes = {"ok"} /\ ProofSteps[8].codes = {"ok"}
        /\ ProofSteps[17].codes = {"ok"} /\ ProofSteps[18].codes = {"ok"}
        /\ ProofSteps[19].codes = {"ok"} /\ ProofSteps[21].codes = {"ok"}
        /\ ProofSteps[22].codes = {"ok"} /\ ProofSteps[23].codes = {"ok"}
    BY ProofStepsAre DEF Send, Deposit, SendProof
  <1> QED
    BY <1>1, <1>2, <1>3

\* A step of an owner; only a deposit has a side and an amount.
WellFormed(step) ==
    /\ step.who \in Owners
    /\ step.do = "join" => step.side \in Sides /\ step.amount \in Nat

\* What the scripts consist of is well formed.
LEMMA StepForms ==
    /\ \A do, who : do # "join" /\ who \in Owners => WellFormed(Send(do, who))
    /\ \A who, side, amount : who \in Owners /\ side \in Sides /\ amount \in Nat =>
          WellFormed(Deposit(who, side, amount))
    /\ \A altered : WellFormed(SendProof(altered))
    /\ \A who, codes : who \in Owners => WellFormed(Refused(Send("claim", who), codes))
    /\ \A do, codes : do # "join" => WellFormed(Refused(Send(do, Deployer), codes))
    /\ \A altered, codes : WellFormed(Refused(SendProof(altered), codes))
    /\ \A codes : WellFormed(Refused(Deposit(Deployer, "Yes", 1), codes))
  BY VerifierAssumption DEF WellFormed, Send, Deposit, SendProof, Refused, Sides

\* Whatever step comes next is one of its script's, and well formed.
LEMMA StepIs ==
    ASSUME VerifierTypeOK, ended = "no"
    PROVE  /\ script = "lifecycle" => pc \in 1 .. 21 /\ Step = LifecycleSteps[pc]
           /\ script = "proof" => pc \in 1 .. 23 /\ Step = ProofSteps[pc]
           /\ WellFormed(Step)
  <1>0. /\ Deployer \in Owners /\ Participant \in Owners /\ "Yes" \in Sides /\ "No" \in Sides
        /\ YesStake \in Nat /\ NoStake \in Nat /\ SecondStake \in Nat
    BY VerifierAssumption, StakesAssumption DEF Sides
  <1>1. \A k \in 1 .. 21 : WellFormed(LifecycleSteps[k])
    <2>1. /\ WellFormed(LifecycleSteps[1]) /\ WellFormed(LifecycleSteps[2])
          /\ WellFormed(LifecycleSteps[3]) /\ WellFormed(LifecycleSteps[6])
          /\ WellFormed(LifecycleSteps[8]) /\ WellFormed(LifecycleSteps[9])
          /\ WellFormed(LifecycleSteps[12])
      BY LifecycleStepsAre, StepForms, <1>0
    <2>2. /\ WellFormed(LifecycleSteps[14]) /\ WellFormed(LifecycleSteps[15])
          /\ WellFormed(LifecycleSteps[16]) /\ WellFormed(LifecycleSteps[18])
          /\ WellFormed(LifecycleSteps[19]) /\ WellFormed(LifecycleSteps[21])
      BY LifecycleStepsAre, StepForms, <1>0
    <2>3. /\ WellFormed(LifecycleSteps[4]) /\ WellFormed(LifecycleSteps[5])
          /\ WellFormed(LifecycleSteps[7]) /\ WellFormed(LifecycleSteps[17])
      BY LifecycleStepsAre, StepForms, <1>0
    <2>4. /\ WellFormed(LifecycleSteps[10]) /\ WellFormed(LifecycleSteps[11])
          /\ WellFormed(LifecycleSteps[13]) /\ WellFormed(LifecycleSteps[20])
      BY LifecycleStepsAre, StepForms, <1>0
    <2> QED
      BY <2>1, <2>2, <2>3, <2>4
  <1>2. \A k \in 1 .. 23 : WellFormed(ProofSteps[k])
    <2>1. /\ WellFormed(ProofSteps[1]) /\ WellFormed(ProofSteps[2])
          /\ WellFormed(ProofSteps[3]) /\ WellFormed(ProofSteps[4])
          /\ WellFormed(ProofSteps[7]) /\ WellFormed(ProofSteps[8])
      BY ProofStepsAre, StepForms, <1>0
    <2>2. /\ WellFormed(ProofSteps[17]) /\ WellFormed(ProofSteps[18])
          /\ WellFormed(ProofSteps[21]) /\ WellFormed(ProofSteps[22])
          /\ WellFormed(ProofSteps[23])
      BY ProofStepsAre, StepForms, <1>0
    <2>3. /\ WellFormed(ProofSteps[5]) /\ WellFormed(ProofSteps[6])
      BY ProofStepsAre, StepForms, <1>0
    <2>4. /\ WellFormed(ProofSteps[9]) /\ WellFormed(ProofSteps[10])
          /\ WellFormed(ProofSteps[11]) /\ WellFormed(ProofSteps[12])
          /\ WellFormed(ProofSteps[13])
      BY ProofStepsAre, StepForms, <1>0
    <2>5. /\ WellFormed(ProofSteps[14]) /\ WellFormed(ProofSteps[15])
          /\ WellFormed(ProofSteps[16]) /\ WellFormed(ProofSteps[19])
          /\ WellFormed(ProofSteps[20])
      BY ProofStepsAre, StepForms, <1>0
    <2> QED
      BY <2>1, <2>2, <2>3, <2>4, <2>5
  <1>3. /\ script = "lifecycle" => pc \in 1 .. 21 /\ Step = LifecycleSteps[pc]
        /\ script = "proof" => pc \in 1 .. 23 /\ Step = ProofSteps[pc]
    BY DEF VerifierTypeOK, LastPc, Step, Steps
  <1> QED
    BY <1>1, <1>2, <1>3 DEF VerifierTypeOK

-----------------------------------------------------------------------------
(* Type correctness                                                         *)

\* What the accounts are minted are natural numbers.
LEMMA MintedIsNat == Minted \in [Owners -> Nat]
  BY VerifierAssumption, StakesAssumption DEF Minted

\* Whatever instruction of a step lands, the accounts keep their types.
LEMMA LandTypeOK ==
    ASSUME VerifierTypeOK, ended = "no", Land
    PROVE  TypeOK'
  <1>1. TypeOK /\ WellFormed(Step)
    BY StepIs DEF VerifierTypeOK
  <1> USE DEF vars, chain
  <1>2. CASE UNCHANGED <<chain, clock>>
    BY <1>1, <1>2, TypeInduction
  <1>3. ASSUME CreatePool(Cutoff, Cutoff + Grace, script = "lifecycle")
        PROVE  TypeOK'
    <2>1. Cutoff \in Timestamps /\ Cutoff + Grace \in Timestamps
      <3>1. Cutoff + Grace <= MaxTime
        BY <1>3 DEF CreatePool
      <3>2. Cutoff \in Nat /\ Grace \in Nat /\ MaxTime \in Nat
        BY VerifierAssumption, NumbersAssumption DEF VerifierTypeOK, Cutoff
      <3> QED
        BY <3>1, <3>2 DEF Timestamps
    <2> QED
      BY <1>1, <1>3, <2>1, TypeInduction DEF Next
  <1>4. ASSUME Step.do = "join", JoinPool(Step.who, Step.side, Step.amount)
        PROVE  TypeOK'
    <2>1. position[Step.who].amount \in Nat /\ Step.amount \in Nat /\ Step.side \in Sides
      BY <1>1, <1>4, NumbersAssumption
      DEF WellFormed, TypeOK, PositionAccounts, Amounts
    <2>2. Step.amount \in Amounts
      BY <1>4, <2>1, NumbersAssumption DEF JoinPool, JoinAccepted, Amounts
    <2> QED
      BY <1>1, <1>4, <2>1, <2>2, TypeInduction DEF Next, WellFormed
  <1>5. ASSUME LockPool PROVE TypeOK'
    BY <1>1, <1>5, TypeInduction DEF Next
  <1>6. ASSUME RecordDemoOutcome("Yes", FinalSequence) PROVE TypeOK'
    BY <1>1, <1>6, TypeInduction, VerifierAssumption DEF Next, Sides
  <1>7. ASSUME SettlePool("Yes", FinalSequence) PROVE TypeOK'
    BY <1>1, <1>7, TypeInduction, VerifierAssumption DEF Next, Sides
  <1>8. ASSUME Claim(Step.who) PROVE TypeOK'
    BY <1>1, <1>8, TypeInduction DEF Next, WellFormed
  <1>9. ASSUME CancelPool(Step.who) PROVE TypeOK'
    BY <1>1, <1>9, TypeInduction DEF Next, WellFormed, Callers
  <1>10. ASSUME Refund(Step.who) PROVE TypeOK'
    BY <1>1, <1>10, TypeInduction DEF Next, WellFormed
  <1>11. ASSUME Fund PROVE TypeOK'
    BY <1>1, <1>11, MintedIsNat DEF Fund, TypeOK
  <1>12. ASSUME MoveOn PROVE TypeOK'
    <2>1. FreshPool \in PoolAccounts
      BY NumbersAssumption DEF FreshPool, PoolAccounts, PoolStates, Timestamps, Amounts, Sides
    <2>2. [o \in Owners |-> NoPosition] \in [Owners -> PositionAccounts]
      BY NumbersAssumption DEF NoPosition, PositionAccounts, Amounts
    <2>3. NoRecord \in [winningSide : Sides \cup {None}, sequence : Nat]
      BY DEF NoRecord
    <2> QED
      BY <1>1, <1>12, <2>1, <2>2, <2>3 DEF MoveOn, TypeOK
  <1> QED
    BY <1>2, <1>3, <1>4, <1>5, <1>6, <1>7, <1>8, <1>9, <1>10, <1>11, <1>12
    DEF Land, Effect

\* How long the scripts are.
LEMMA ScriptLength ==
    ASSUME VerifierTypeOK
    PROVE  Len(Steps) = LastPc - 1 /\ LastPc \in Nat
  <1>1. Len(LifecycleSteps) = 21 /\ Len(ProofSteps) = 23
    BY LifecycleStepsAre, ProofStepsAre
  <1>2. CASE script = "proof"
    <2>1. Steps = ProofSteps /\ LastPc = 24
      BY <1>2 DEF Steps, LastPc
    <2> QED
      BY <1>1, <2>1
  <1>3. CASE script # "proof"
    <2>1. Steps = LifecycleSteps /\ LastPc = 22
      BY <1>3 DEF Steps, LastPc
    <2> QED
      BY <1>1, <2>1
  <1> QED
    BY <1>2, <1>3

\* The program's own types survive whatever the others do.
LEMMA OthersTypeOK ==
    ASSUME VerifierTypeOK, ChainTick \/ KeeperSettles \/ StrangerLocks \/ StrangerCancels
    PROVE  TypeOK'
  <1> USE DEF vars
  <1>1. TypeOK
    BY DEF VerifierTypeOK
  <1>2. CASE ChainTick
    BY <1>1, <1>2, TypeInduction DEF ChainTick, Next
  <1>3. CASE KeeperSettles
    BY <1>1, <1>3, TypeInduction, VerifierAssumption DEF KeeperSettles, Next, Sides
  <1>4. CASE StrangerLocks
    BY <1>1, <1>4, TypeInduction DEF StrangerLocks, Next
  <1>5. CASE StrangerCancels
    <2> DEFINE state == IF pool.remainingPool = 0 THEN "Closed" ELSE "Cancelled"
    <2>1. pool' = [pool EXCEPT !.winningSide = None, !.remainingWinning = 0, !.state = state]
          /\ UNCHANGED <<position, record, wallet, vault, clock>>
      BY <1>5 DEF StrangerCancels, CancelPool
    <2>2. state \in PoolStates /\ 0 \in Amounts /\ None \in Sides \cup {None}
      BY NumbersAssumption DEF PoolStates, Amounts
    <2> HIDE DEF state
    <2>3. pool' \in PoolAccounts
      BY <1>1, <2>1, <2>2 DEF TypeOK, PoolAccounts
    <2> QED
      BY <1>1, <2>1, <2>3 DEF TypeOK
  <1> QED
    BY <1>2, <1>3, <1>4, <1>5

\* Only three refusals of the proof verifier are expected without a code.
LEMMA MistakesAre ==
    ASSUME VerifierTypeOK, MistakeForRefusal
    PROVE  script = "proof" /\ pc \in {15, 16, 20} /\ Step = ProofSteps[pc]
  <1>1. ended = "no" /\ NetworkError \in Step.codes
    BY DEF MistakeForRefusal
  <1>2. \A k \in 1 .. 21 : NetworkError \notin LifecycleSteps[k].codes
    BY LifecycleStepsExpect DEF NetworkError
  <1>3. \A k \in (1 .. 23) \ {15, 16, 20} : NetworkError \notin ProofSteps[k].codes
    BY ProofStepsExpect DEF NetworkError
  <1> QED
    BY <1>1, <1>2, <1>3, StepIs DEF VerifierTypeOK

\* The proof verifier deals out tokens in its second step only.
LEMMA FundIsSecond == \A k \in 1 .. 23 : ProofSteps[k].do = "fund" => k = 2
  BY ProofStepsDo

\* The type invariant is inductive.
LEMMA VerifierTypeInduction ==
    ASSUME VerifierTypeOK, VerifierNext
    PROVE  VerifierTypeOK'
  <1> USE DEF VerifierTypeOK
  <1>1. CASE Advance
    <2>1. TypeOK'
      BY <1>1, LandTypeOK DEF Advance
    <2>2. now' \in Nat
      BY <1>1, NumbersAssumption DEF Advance, TypeOK, Timestamps
    <2>3. pc' \in 1 .. LastPc /\ (ended' = "no" => pc' < LastPc)
          /\ (ended' = "done" => pc' = LastPc) /\ ended' \in {"no", "done"}
      BY <1>1, ScriptLength DEF Advance, GoOn
    <2>4. LastPc' = LastPc /\ DOMAIN answers' = DOMAIN answers
      BY <1>1 DEF Advance, GoOn, LastPc
    <2>5. UNCHANGED <<script, disturbed, lost>>
      BY <1>1 DEF Advance, history
    <2> QED
      BY <1>1, <2>1, <2>2, <2>3, <2>4, <2>5
  <1>2. CASE Throw
    <2>1. TypeOK' /\ LastPc' = LastPc
      BY <1>2, LandTypeOK DEF Throw, LastPc
    <2> QED
      BY <1>2, <2>1 DEF Throw, history
  <1>3. CASE LoseConnection \/ MistakeForRefusal
    <2>1. TypeOK'
      <3>1. CASE Land
        BY <1>3, <3>1, LandTypeOK DEF LoseConnection, MistakeForRefusal
      <3>2. CASE UNCHANGED <<chain, clock>>
        BY <3>2, TypeInduction DEF vars, chain
      <3> QED
        BY <1>3, <3>1, <3>2 DEF LoseConnection, MistakeForRefusal
    <2>2. LastPc' = LastPc
      BY <1>3 DEF LoseConnection, MistakeForRefusal, LastPc
    <2>3. CASE LoseConnection
      BY <2>1, <2>2, <2>3 DEF LoseConnection
    <2>4. CASE MistakeForRefusal
      <3>1. /\ pc' = pc + 1 /\ DOMAIN answers' = DOMAIN answers
            /\ ended = "no" /\ UNCHANGED <<script, ended, now, disturbed>> /\ lost'
        BY <2>4 DEF MistakeForRefusal, GoOn
      <3>2. pc' < LastPc
        BY <2>4, <3>1, MistakesAre DEF LastPc
      <3> QED
        BY <2>1, <2>2, <3>1, <3>2, ScriptLength
    <2> QED
      BY <1>3, <2>3, <2>4
  <1>4. CASE WaitTimesOut \/ PreflightOnly
    <2>1. TypeOK'
      BY <1>4, TypeInduction DEF WaitTimesOut, PreflightOnly, vars, chain
    <2>2. LastPc' = LastPc
      BY <1>4 DEF WaitTimesOut, PreflightOnly, LastPc
    <2>3. CASE WaitTimesOut
      BY <2>1, <2>2, <2>3 DEF WaitTimesOut
    <2>4. CASE PreflightOnly
      <3>1. Step = ProofSteps[pc] /\ pc \in 1 .. 23 /\ Step.do = "fund"
        BY <2>4, StepIs DEF PreflightOnly
      <3>2. pc = 2
        BY <3>1, FundIsSecond
      <3> QED
        BY <2>1, <2>2, <2>4, <3>2 DEF PreflightOnly, history
    <2> QED
      BY <1>4, <2>3, <2>4
  <1>5. CASE ChainTick \/ KeeperSettles \/ StrangerLocks \/ StrangerCancels
    <2>1. TypeOK' /\ UNCHANGED verifier /\ lost' = lost
      BY <1>5, OthersTypeOK DEF ChainTick, KeeperSettles, StrangerLocks, StrangerCancels
    <2>2. disturbed' \in BOOLEAN
      BY <1>5 DEF ChainTick, KeeperSettles, StrangerLocks, StrangerCancels, ComesTooLate
    <2>3. LastPc' = LastPc
      BY <2>1 DEF verifier, LastPc
    <2> QED
      BY <2>1, <2>2, <2>3 DEF verifier
  <1> QED
    BY <1>1, <1>2, <1>3, <1>4, <1>5 DEF VerifierNext

-----------------------------------------------------------------------------
(* Answers                                                                  *)

\* No handler makes more checks than this.
MaxChecks == 10
IsChecks(checks, n) == n \in 1 .. MaxChecks /\ DOMAIN checks = 1 .. n

\* Among the checks that do not hold there is a first.
LEMMA FirstFailing ==
    ASSUME NEW checks, NEW n, IsChecks(checks, n), NEW k \in 1 .. n, ~checks[k].holds
    PROVE  \E i \in 1 .. k : ~checks[i].holds /\ \A j \in 1 .. i - 1 : checks[j].holds
  <1> DEFINE Failing(i) == ~checks[i].holds
  <1> HIDE DEF Failing
  <1>1. /\ n \in 1 .. 10 /\ k \in 1 .. 10
        /\ \A i \in 1 .. k : checks[i].holds <=> ~Failing(i)
    BY DEF IsChecks, MaxChecks, Failing
  <1> SUFFICES ASSUME \A i \in 1 .. k : Failing(i) => \E j \in 1 .. i - 1 : Failing(j)
               PROVE  ~Failing(k)
    BY <1>1 DEF Failing
  <1>2. k > 0 => ~Failing(1)
    BY <1>1
  <1>3. \A i \in 1 .. k : i <= 2 => ~Failing(i)
    BY <1>1, <1>2
  <1>4. \A i \in 1 .. k : i <= 3 => ~Failing(i)
    BY <1>1, <1>3
  <1>5. \A i \in 1 .. k : i <= 4 => ~Failing(i)
    BY <1>1, <1>4
  <1>6. \A i \in 1 .. k : i <= 5 => ~Failing(i)
    BY <1>1, <1>5
  <1>7. \A i \in 1 .. k : i <= 6 => ~Failing(i)
    BY <1>1, <1>6
  <1>8. \A i \in 1 .. k : i <= 7 => ~Failing(i)
    BY <1>1, <1>7
  <1>9. \A i \in 1 .. k : i <= 8 => ~Failing(i)
    BY <1>1, <1>8
  <1>10. \A i \in 1 .. k : i <= 9 => ~Failing(i)
    BY <1>1, <1>9
  <1> QED
    BY <1>1, <1>10

\* A handler whose checks hold answers "ok".
LEMMA AnswerOk ==
    ASSUME NEW checks, NEW n, IsChecks(checks, n), \A i \in 1 .. n : checks[i].holds
    PROVE  Answer(checks) = "ok"
  BY DEF Answer, IsChecks

\* Otherwise it answers with the first that does not.
LEMMA AnswerIsFirst ==
    ASSUME NEW checks, NEW n, IsChecks(checks, n), NEW k \in 1 .. n,
           ~checks[k].holds, \A j \in 1 .. k - 1 : checks[j].holds
    PROVE  Answer(checks) = checks[k].code
  <1> DEFINE First(i) == /\ ~checks[i].holds
                         /\ \A j \in 1 .. i - 1 : checks[j].holds
             c == CHOOSE i \in DOMAIN checks : First(i)
  <1>1. DOMAIN checks = 1 .. n /\ n \in Nat /\ k \in DOMAIN checks /\ First(k)
    BY DEF IsChecks, MaxChecks
  <1>2. c \in DOMAIN checks /\ First(c)
    BY <1>1
  <1>3. Answer(checks) = checks[c].code
    BY <1>1 DEF Answer
  <1>4. c = k
    <2> HIDE DEF c
    <2>1. c \in 1 .. n /\ ~checks[c].holds /\ \A j \in 1 .. c - 1 : checks[j].holds
      BY <1>1, <1>2
    <2>2. ~(c < k) /\ ~(k < c)
      BY <1>1, <2>1
    <2> QED
      BY <1>1, <2>1, <2>2
  <1> QED
    BY <1>3, <1>4

\* So if one does not hold, the answer is its code or the code of one before it.
LEMMA AnswerIsAmong ==
    ASSUME NEW checks, NEW n, IsChecks(checks, n), NEW k \in 1 .. n, ~checks[k].holds
    PROVE  \E i \in 1 .. k : Answer(checks) = checks[i].code
  <1>1. PICK i \in 1 .. k : ~checks[i].holds /\ \A j \in 1 .. i - 1 : checks[j].holds
    BY FirstFailing
  <1>2. i \in 1 .. n
    BY DEF IsChecks, MaxChecks
  <1> QED
    BY <1>1, <1>2, AnswerIsFirst

\* The number of checks each handler makes.
LEMMA ChecksAre ==
    /\ \A cutoff, refundAfter : IsChecks(CreateChecks(cutoff, refundAfter), 3)
    /\ \A o, side, amount : IsChecks(JoinChecks(o, side, amount), 7)
    /\ IsChecks(LockChecks, 2)
    /\ \A sequence : IsChecks(DemoOutcomeChecks(sequence), 4)
    /\ \A altered, sequence : IsChecks(SettleChecks(altered, sequence), 10)
    /\ \A authority : IsChecks(CancelChecks(authority), 3)
    /\ \A o : IsChecks(ClaimChecks(o), 7)
    /\ \A o : IsChecks(RefundChecks(o), 6)
  BY DEF IsChecks, MaxChecks, CreateChecks, JoinChecks, LockChecks, DemoOutcomeChecks,
         SettleChecks, CancelChecks, ClaimChecks, RefundChecks

(* What can no longer succeed.                                              *)

\* A pool cannot be created, or created once more, after its cutoff.
LEMMA CreateRefused ==
    ASSUME ~(Cutoff > clock)
    PROVE  Answer(CreateChecks(Cutoff, Cutoff + Grace)) # "ok"
  <1> DEFINE checks == CreateChecks(Cutoff, Cutoff + Grace)
  <1>1. IsChecks(checks, 3) /\ 2 \in 1 .. 3
    BY ChecksAre
  <1>2. ~checks[2].holds
    BY DEF CreateChecks, Check
  <1>3. \A i \in 1 .. 2 : checks[i].code # "ok"
    BY DEF CreateChecks, Check
  <1> QED
    BY <1>1, <1>2, <1>3, AnswerIsAmong

\* A deposit into a pool that is not open is refused before its cutoff matters.
LEMMA JoinRefused ==
    ASSUME NEW o, NEW side, NEW amount, pool.state # "Open"
    PROVE  Answer(JoinChecks(o, side, amount)) \notin {"ok", "CutoffPassed"}
  <1> DEFINE checks == JoinChecks(o, side, amount)
  <1>1. IsChecks(checks, 7) /\ 3 \in 1 .. 7
    BY ChecksAre
  <1>2. ~checks[3].holds
    BY DEF JoinChecks, Check
  <1>3. \A i \in 1 .. 3 : checks[i].code \notin {"ok", "CutoffPassed"}
    BY DEF JoinChecks, Check
  <1> QED
    BY <1>1, <1>2, <1>3, AnswerIsAmong

\* Nothing is deposited once the cutoff has passed.
LEMMA JoinTooLate ==
    ASSUME NEW o, NEW side, NEW amount, ~(clock < pool.cutoff)
    PROVE  Answer(JoinChecks(o, side, amount)) # "ok"
  <1> DEFINE checks == JoinChecks(o, side, amount)
  <1>1. IsChecks(checks, 7) /\ 4 \in 1 .. 7
    BY ChecksAre
  <1>2. ~checks[4].holds
    BY DEF JoinChecks, Check
  <1>3. \A i \in 1 .. 4 : checks[i].code # "ok"
    BY DEF JoinChecks, Check
  <1> QED
    BY <1>1, <1>2, <1>3, AnswerIsAmong

\* A pool that is not open is not locked.
LEMMA LockRefused ==
    ASSUME pool.state # "Open"
    PROVE  Answer(LockChecks) # "ok"
  <1>1. IsChecks(LockChecks, 2) /\ 1 \in 1 .. 2
    BY ChecksAre
  <1>2. ~LockChecks[1].holds
    BY DEF LockChecks, Check
  <1>3. \A i \in 1 .. 1 : LockChecks[i].code # "ok"
    BY DEF LockChecks, Check
  <1> QED
    BY <1>1, <1>2, <1>3, AnswerIsAmong

\* No outcome is declared for a pool that is not locked.
LEMMA DemoOutcomeRefused ==
    ASSUME NEW sequence, pool.state # "Locked"
    PROVE  Answer(DemoOutcomeChecks(sequence)) # "ok"
  <1> DEFINE checks == DemoOutcomeChecks(sequence)
  <1>1. IsChecks(checks, 4) /\ 3 \in 1 .. 4
    BY ChecksAre
  <1>2. ~checks[3].holds
    BY DEF DemoOutcomeChecks, Check
  <1>3. \A i \in 1 .. 3 : checks[i].code # "ok"
    BY DEF DemoOutcomeChecks, Check
  <1> QED
    BY <1>1, <1>2, <1>3, AnswerIsAmong

\* No proof settles a pool that is not locked.
LEMMA SettleRefused ==
    ASSUME NEW altered, NEW sequence, pool.state # "Locked"
    PROVE  Answer(SettleChecks(altered, sequence)) # "ok"
  <1> DEFINE checks == SettleChecks(altered, sequence)
  <1>1. IsChecks(checks, 10) /\ 10 \in 1 .. 10
    BY ChecksAre
  <1>2. ~checks[10].holds
    BY DEF SettleChecks, Check
  <1>3. \A i \in 1 .. 10 : checks[i].code # "ok"
    BY DEF SettleChecks, Check
  <1> QED
    BY <1>1, <1>2, <1>3, AnswerIsAmong

\* A resolved pool is not cancelled.
LEMMA CancelRefused ==
    ASSUME NEW authority, pool.state \notin Unresolved
    PROVE  Answer(CancelChecks(authority)) # "ok"
  <1> DEFINE checks == CancelChecks(authority)
  <1>1. IsChecks(checks, 3) /\ 2 \in 1 .. 3
    BY ChecksAre
  <1>2. ~checks[2].holds
    BY DEF CancelChecks, Check
  <1>3. \A i \in 1 .. 2 : checks[i].code # "ok"
    BY DEF CancelChecks, Check
  <1> QED
    BY <1>1, <1>2, <1>3, AnswerIsAmong

(* What succeeds, and what is refused with the code the script names.       *)

\* A pool is created while its cutoff is to come.
LEMMA CreateAnswersOk ==
    ASSUME Cutoff \in Int, pool.state = "Absent", Cutoff > clock
    PROVE  Answer(CreateChecks(Cutoff, Cutoff + Grace)) = "ok"
  <1> DEFINE checks == CreateChecks(Cutoff, Cutoff + Grace)
  <1>1. IsChecks(checks, 3)
    BY ChecksAre
  <1>0. Cutoff + Grace >= Cutoff + Grace
    BY NumbersAssumption
  <1>2. /\ checks[1].holds /\ checks[2].holds /\ checks[3].holds
    BY <1>0 DEF CreateChecks, Check
  <1>3. \A i \in 1 .. 3 : checks[i].holds
    BY <1>2
  <1> QED
    BY <1>1, <1>3, AnswerOk

\* A deposit is taken before the cutoff.
LEMMA JoinAnswersOk ==
    ASSUME NEW o, NEW side, NEW amount, amount > 0, wallet[o] >= amount,
           pool.state = "Open", clock < pool.cutoff, Staked(o, side, 0)
    PROVE  Answer(JoinChecks(o, side, amount)) = "ok"
  <1> DEFINE checks == JoinChecks(o, side, amount)
  <1>1. IsChecks(checks, 7)
    BY ChecksAre
  <1>0. position[o].side = None /\ ~position[o].claimed /\ ~position[o].refunded
    BY DEF Staked
  <1>2. /\ checks[1].holds /\ checks[2].holds /\ checks[3].holds
        /\ checks[4].holds /\ checks[5].holds /\ checks[6].holds
        /\ checks[7].holds
    BY <1>0 DEF JoinChecks, Check
  <1>3. \A i \in 1 .. 7 : checks[i].holds
    BY <1>2
  <1> QED
    BY <1>1, <1>3, AnswerOk

\* After it the deposit is refused as too late.
LEMMA JoinPassed ==
    ASSUME NEW o, NEW side, NEW amount, amount > 0, wallet[o] >= amount,
           pool.state = "Open", ~(clock < pool.cutoff)
    PROVE  Answer(JoinChecks(o, side, amount)) = "CutoffPassed"
  <1> DEFINE checks == JoinChecks(o, side, amount)
  <1>1. IsChecks(checks, 7) /\ 4 \in 1 .. 7
    BY ChecksAre
  <1>2. ~checks[4].holds
    BY DEF JoinChecks, Check
  <1>3. /\ checks[1].holds /\ checks[2].holds /\ checks[3].holds
    BY DEF JoinChecks, Check
  <1>5. \A i \in 1 .. 4 - 1 : checks[i].holds
    BY <1>3
  <1>4. checks[4].code = "CutoffPassed"
    BY DEF JoinChecks, Check
  <1> QED
    BY <1>1, <1>2, <1>4, <1>5, AnswerIsFirst

\* An open pool is locked from its cutoff on.
LEMMA LockAnswersOk ==
    ASSUME pool.state = "Open", clock >= pool.cutoff
    PROVE  Answer(LockChecks) = "ok"
  <1> DEFINE checks == LockChecks
  <1>1. IsChecks(checks, 2)
    BY ChecksAre
  <1>2. /\ checks[1].holds /\ checks[2].holds
    BY DEF LockChecks, Check
  <1>3. \A i \in 1 .. 2 : checks[i].holds
    BY <1>2
  <1> QED
    BY <1>1, <1>3, AnswerOk

\* An outcome is declared for a locked demo pool.
LEMMA DemoOutcomeAnswersOk ==
    ASSUME pool.state = "Locked", pool.demoMode, VaultCovers(pool),
           FinalSequence > 0
    PROVE  Answer(DemoOutcomeChecks(FinalSequence)) = "ok"
  <1> DEFINE checks == DemoOutcomeChecks(FinalSequence)
  <1>1. IsChecks(checks, 4)
    BY ChecksAre
  <1>2. /\ checks[1].holds /\ checks[2].holds /\ checks[3].holds
        /\ checks[4].holds
    BY DEF DemoOutcomeChecks, Check
  <1>3. \A i \in 1 .. 4 : checks[i].holds
    BY <1>2
  <1> QED
    BY <1>1, <1>3, AnswerOk

\* It is not for any other pool.
LEMMA DemoOutcomeDisabled ==
    ASSUME ~pool.demoMode, VaultCovers(pool)
    PROVE  Answer(DemoOutcomeChecks(FinalSequence)) = "UnverifiedSettlementDisabled"
  <1> DEFINE checks == DemoOutcomeChecks(FinalSequence)
  <1>1. IsChecks(checks, 4) /\ 2 \in 1 .. 4
    BY ChecksAre
  <1>2. ~checks[2].holds
    BY DEF DemoOutcomeChecks, Check
  <1>3. checks[1].holds
    BY DEF DemoOutcomeChecks, Check
  <1>5. \A i \in 1 .. 2 - 1 : checks[i].holds
    BY <1>3
  <1>4. checks[2].code = "UnverifiedSettlementDisabled"
    BY DEF DemoOutcomeChecks, Check
  <1> QED
    BY <1>1, <1>2, <1>4, <1>5, AnswerIsFirst

\* The true proof settles a locked pool.
LEMMA SettleAnswersOk ==
    ASSUME pool.state = "Locked", record = NoRecord, FinalSequence > 0,
           VaultCovers(pool)
    PROVE  Answer(SettleChecks("nothing", FinalSequence)) = "ok"
  <1> DEFINE checks == SettleChecks("nothing", FinalSequence)
  <1>1. IsChecks(checks, 10)
    BY ChecksAre
  <1>2. /\ checks[1].holds /\ checks[2].holds /\ checks[3].holds
        /\ checks[4].holds /\ checks[5].holds /\ checks[6].holds
        /\ checks[7].holds /\ checks[8].holds /\ checks[9].holds
        /\ checks[10].holds
    BY DEF SettleChecks, Check
  <1>3. \A i \in 1 .. 10 : checks[i].holds
    BY <1>2
  <1> QED
    BY <1>1, <1>3, AnswerOk

\* A proof for another strategy is refused as such.
LEMMA SettleRefusesStrategy ==
    ASSUME record = NoRecord, FinalSequence > 0, VaultCovers(pool)
    PROVE  Answer(SettleChecks("strategy", FinalSequence)) = "SettlementStrategyMismatch"
  <1> DEFINE checks == SettleChecks("strategy", FinalSequence)
  <1>1. IsChecks(checks, 10) /\ 4 \in 1 .. 10
    BY ChecksAre
  <1>2. ~checks[4].holds
    BY DEF SettleChecks, Check
  <1>3. /\ checks[1].holds /\ checks[2].holds /\ checks[3].holds
    BY DEF SettleChecks, Check
  <1>5. \A i \in 1 .. 4 - 1 : checks[i].holds
    BY <1>3
  <1>4. checks[4].code = "SettlementStrategyMismatch"
    BY DEF SettleChecks, Check
  <1> QED
    BY <1>1, <1>2, <1>4, <1>5, AnswerIsFirst

\* A proof for another fixture is refused as such.
LEMMA SettleRefusesFixture ==
    ASSUME record = NoRecord, FinalSequence > 0, VaultCovers(pool)
    PROVE  Answer(SettleChecks("fixture", FinalSequence)) = "SettlementFixtureMismatch"
  <1> DEFINE checks == SettleChecks("fixture", FinalSequence)
  <1>1. IsChecks(checks, 10) /\ 5 \in 1 .. 10
    BY ChecksAre
  <1>2. ~checks[5].holds
    BY DEF SettleChecks, Check
  <1>3. /\ checks[1].holds /\ checks[2].holds /\ checks[3].holds
        /\ checks[4].holds
    BY DEF SettleChecks, Check
  <1>5. \A i \in 1 .. 5 - 1 : checks[i].holds
    BY <1>3
  <1>4. checks[5].code = "SettlementFixtureMismatch"
    BY DEF SettleChecks, Check
  <1> QED
    BY <1>1, <1>2, <1>4, <1>5, AnswerIsFirst

\* A proof of another time is refused as such.
LEMMA SettleRefusesTimestamp ==
    ASSUME record = NoRecord, FinalSequence > 0, VaultCovers(pool)
    PROVE  Answer(SettleChecks("timestamp", FinalSequence)) = "InvalidProofTimestamp"
  <1> DEFINE checks == SettleChecks("timestamp", FinalSequence)
  <1>1. IsChecks(checks, 10) /\ 6 \in 1 .. 10
    BY ChecksAre
  <1>2. ~checks[6].holds
    BY DEF SettleChecks, Check
  <1>3. /\ checks[1].holds /\ checks[2].holds /\ checks[3].holds
        /\ checks[4].holds /\ checks[5].holds
    BY DEF SettleChecks, Check
  <1>5. \A i \in 1 .. 6 - 1 : checks[i].holds
    BY <1>3
  <1>4. checks[6].code = "InvalidProofTimestamp"
    BY DEF SettleChecks, Check
  <1> QED
    BY <1>1, <1>2, <1>4, <1>5, AnswerIsFirst

\* A proof of an unfinished game is refused as such.
LEMMA SettleRefusesPeriod ==
    ASSUME record = NoRecord, FinalSequence > 0, VaultCovers(pool)
    PROVE  Answer(SettleChecks("period", FinalSequence)) = "NonFinalSettlementProof"
  <1> DEFINE checks == SettleChecks("period", FinalSequence)
  <1>1. IsChecks(checks, 10) /\ 7 \in 1 .. 10
    BY ChecksAre
  <1>2. ~checks[7].holds
    BY DEF SettleChecks, Check
  <1>3. /\ checks[1].holds /\ checks[2].holds /\ checks[3].holds
        /\ checks[4].holds /\ checks[5].holds /\ checks[6].holds
    BY DEF SettleChecks, Check
  <1>5. \A i \in 1 .. 7 - 1 : checks[i].holds
    BY <1>3
  <1>4. checks[7].code = "NonFinalSettlementProof"
    BY DEF SettleChecks, Check
  <1> QED
    BY <1>1, <1>2, <1>4, <1>5, AnswerIsFirst

\* A proof against another root is refused as such.
LEMMA SettleRefusesRoot ==
    ASSUME record = NoRecord, FinalSequence > 0, VaultCovers(pool)
    PROVE  Answer(SettleChecks("root", FinalSequence)) = "InvalidDailyScoresRoot"
  <1> DEFINE checks == SettleChecks("root", FinalSequence)
  <1>1. IsChecks(checks, 10) /\ 8 \in 1 .. 10
    BY ChecksAre
  <1>2. ~checks[8].holds
    BY DEF SettleChecks, Check
  <1>3. /\ checks[1].holds /\ checks[2].holds /\ checks[3].holds
        /\ checks[4].holds /\ checks[5].holds /\ checks[6].holds
        /\ checks[7].holds
    BY DEF SettleChecks, Check
  <1>5. \A i \in 1 .. 8 - 1 : checks[i].holds
    BY <1>3
  <1>4. checks[8].code = "InvalidDailyScoresRoot"
    BY DEF SettleChecks, Check
  <1> QED
    BY <1>1, <1>2, <1>4, <1>5, AnswerIsFirst

\* A proof of another value is refused by TxLINE.
LEMMA SettleRefusesStatValue ==
    ASSUME record = NoRecord, FinalSequence > 0, VaultCovers(pool)
    PROVE  Answer(SettleChecks("statValue", FinalSequence)) = "TxlineRejected"
  <1> DEFINE checks == SettleChecks("statValue", FinalSequence)
  <1>1. IsChecks(checks, 10) /\ 9 \in 1 .. 10
    BY ChecksAre
  <1>2. ~checks[9].holds
    BY DEF SettleChecks, Check
  <1>3. /\ checks[1].holds /\ checks[2].holds /\ checks[3].holds
        /\ checks[4].holds /\ checks[5].holds /\ checks[6].holds
        /\ checks[7].holds /\ checks[8].holds
    BY DEF SettleChecks, Check
  <1>5. \A i \in 1 .. 9 - 1 : checks[i].holds
    BY <1>3
  <1>4. checks[9].code = "TxlineRejected"
    BY DEF SettleChecks, Check
  <1> QED
    BY <1>1, <1>2, <1>4, <1>5, AnswerIsFirst

\* A proof with another path is refused by TxLINE.
LEMMA SettleRefusesMerkleProof ==
    ASSUME record = NoRecord, FinalSequence > 0, VaultCovers(pool)
    PROVE  Answer(SettleChecks("merkleProof", FinalSequence)) = "TxlineRejected"
  <1> DEFINE checks == SettleChecks("merkleProof", FinalSequence)
  <1>1. IsChecks(checks, 10) /\ 9 \in 1 .. 10
    BY ChecksAre
  <1>2. ~checks[9].holds
    BY DEF SettleChecks, Check
  <1>3. /\ checks[1].holds /\ checks[2].holds /\ checks[3].holds
        /\ checks[4].holds /\ checks[5].holds /\ checks[6].holds
        /\ checks[7].holds /\ checks[8].holds
    BY DEF SettleChecks, Check
  <1>5. \A i \in 1 .. 9 - 1 : checks[i].holds
    BY <1>3
  <1>4. checks[9].code = "TxlineRejected"
    BY DEF SettleChecks, Check
  <1> QED
    BY <1>1, <1>2, <1>4, <1>5, AnswerIsFirst

\* Whatever has become of the pool, these two do not settle it.
LEMMA AlteredNeverSettles ==
    ASSUME pc \in {15, 16}, Step = ProofSteps[pc]
    PROVE  StepAnswer(Step) # "ok"
  <1>1. Step.do = "settle" /\ Step.altered \in {"statValue", "merkleProof"}
    <2>1. /\ ProofSteps[15].do = "settle" /\ ProofSteps[15].altered = "statValue"
          /\ ProofSteps[16].do = "settle" /\ ProofSteps[16].altered = "merkleProof"
      BY ProofStepsAre DEF Refused, SendProof, Send
    <2> QED
      BY <2>1
  <1> DEFINE checks == SettleChecks(Step.altered, FinalSequence)
  <1>2. StepAnswer(Step) = Answer(checks)
    BY <1>1 DEF StepAnswer
  <1>3. IsChecks(checks, 10) /\ 9 \in 1 .. 10
    BY ChecksAre
  <1>4. ~checks[9].holds
    BY <1>1 DEF SettleChecks, Check
  <1>5. \A i \in 1 .. 9 : checks[i].code # "ok"
    BY DEF SettleChecks, Check
  <1> QED
    BY <1>2, <1>3, <1>4, <1>5, AnswerIsAmong

\* The true proof is refused once there is a record.
LEMMA SettleAgain ==
    ASSUME record # NoRecord
    PROVE  Answer(SettleChecks("nothing", FinalSequence)) = "AccountAlreadyInitialized"
  <1> DEFINE checks == SettleChecks("nothing", FinalSequence)
  <1>1. IsChecks(checks, 10) /\ 1 \in 1 .. 10
    BY ChecksAre
  <1>2. ~checks[1].holds
    BY DEF SettleChecks, Check
  <1>5. \A i \in 1 .. 1 - 1 : checks[i].holds
    OBVIOUS
  <1>4. checks[1].code = "AccountAlreadyInitialized"
    BY DEF SettleChecks, Check
  <1> QED
    BY <1>1, <1>2, <1>4, <1>5, AnswerIsFirst

\* The creator may always cancel an unresolved pool.
LEMMA CancelAnswersOk ==
    ASSUME VaultCovers(pool), pool.state \in Unresolved
    PROVE  Answer(CancelChecks(Creator)) = "ok"
  <1> DEFINE checks == CancelChecks(Creator)
  <1>1. IsChecks(checks, 3)
    BY ChecksAre
  <1>2. /\ checks[1].holds /\ checks[2].holds /\ checks[3].holds
    BY DEF CancelChecks, Check, MayCancel
  <1>3. \A i \in 1 .. 3 : checks[i].holds
    BY <1>2
  <1> QED
    BY <1>1, <1>3, AnswerOk

\* A winner who has not been paid is paid.
LEMMA ClaimAnswersOk ==
    ASSUME NEW o, position[o].side # None, pool.state \in Settled,
           pool.state = SettledFor(position[o].side), ~position[o].claimed,
           ~position[o].refunded, Payable(o), VaultCovers(pool)
    PROVE  Answer(ClaimChecks(o)) = "ok"
  <1> DEFINE checks == ClaimChecks(o)
  <1>1. IsChecks(checks, 7)
    BY ChecksAre
  <1>2. /\ checks[1].holds /\ checks[2].holds /\ checks[3].holds
        /\ checks[4].holds /\ checks[5].holds /\ checks[6].holds
        /\ checks[7].holds
    BY DEF ClaimChecks, Check
  <1>3. \A i \in 1 .. 7 : checks[i].holds
    BY <1>2
  <1> QED
    BY <1>1, <1>3, AnswerOk

\* A loser is refused as such.
LEMMA ClaimNotWinning ==
    ASSUME NEW o, position[o].side # None, pool.state \in Settled,
           pool.state # SettledFor(position[o].side)
    PROVE  Answer(ClaimChecks(o)) = "NotWinningPosition"
  <1> DEFINE checks == ClaimChecks(o)
  <1>1. IsChecks(checks, 7) /\ 3 \in 1 .. 7
    BY ChecksAre
  <1>2. ~checks[3].holds
    BY DEF ClaimChecks, Check
  <1>3. /\ checks[1].holds /\ checks[2].holds
    BY DEF ClaimChecks, Check
  <1>5. \A i \in 1 .. 3 - 1 : checks[i].holds
    BY <1>3
  <1>4. checks[3].code = "NotWinningPosition"
    BY DEF ClaimChecks, Check
  <1> QED
    BY <1>1, <1>2, <1>4, <1>5, AnswerIsFirst

\* A closed pool pays nobody.
LEMMA ClaimNotSettled ==
    ASSUME NEW o, position[o].side # None, pool.state \notin Settled
    PROVE  Answer(ClaimChecks(o)) = "InvalidPayoutState"
  <1> DEFINE checks == ClaimChecks(o)
  <1>1. IsChecks(checks, 7) /\ 2 \in 1 .. 7
    BY ChecksAre
  <1>2. ~checks[2].holds
    BY DEF ClaimChecks, Check
  <1>3. checks[1].holds
    BY DEF ClaimChecks, Check
  <1>5. \A i \in 1 .. 2 - 1 : checks[i].holds
    BY <1>3
  <1>4. checks[2].code = "InvalidPayoutState"
    BY DEF ClaimChecks, Check
  <1> QED
    BY <1>1, <1>2, <1>4, <1>5, AnswerIsFirst

\* The stake in a cancelled pool is refunded.
LEMMA RefundAnswersOk ==
    ASSUME NEW o, position[o].side # None, pool.state = "Cancelled",
           ~position[o].claimed, ~position[o].refunded, position[o].amount > 0,
           pool.remainingPool >= position[o].amount, VaultCovers(pool)
    PROVE  Answer(RefundChecks(o)) = "ok"
  <1> DEFINE checks == RefundChecks(o)
  <1>1. IsChecks(checks, 6)
    BY ChecksAre
  <1>2. /\ checks[1].holds /\ checks[2].holds /\ checks[3].holds
        /\ checks[4].holds /\ checks[5].holds /\ checks[6].holds
    BY DEF RefundChecks, Check
  <1>3. \A i \in 1 .. 6 : checks[i].holds
    BY <1>2
  <1> QED
    BY <1>1, <1>3, AnswerOk

\* A closed pool refunds nobody.
LEMMA RefundNotCancelled ==
    ASSUME NEW o, position[o].side # None, pool.state # "Cancelled"
    PROVE  Answer(RefundChecks(o)) = "RefundNotAvailable"
  <1> DEFINE checks == RefundChecks(o)
  <1>1. IsChecks(checks, 6) /\ 2 \in 1 .. 6
    BY ChecksAre
  <1>2. ~checks[2].holds
    BY DEF RefundChecks, Check
  <1>3. checks[1].holds
    BY DEF RefundChecks, Check
  <1>5. \A i \in 1 .. 2 - 1 : checks[i].holds
    BY <1>3
  <1>4. checks[2].code = "RefundNotAvailable"
    BY DEF RefundChecks, Check
  <1> QED
    BY <1>1, <1>2, <1>4, <1>5, AnswerIsFirst

-----------------------------------------------------------------------------
(* What each instruction makes of the pool the script left                  *)

\* The facts about types that the following lemmas need.
LEMMA Typed ==
    ASSUME VerifierTypeOK
    PROVE  /\ pool \in PoolAccounts
           /\ position \in [Owners -> PositionAccounts]
           /\ wallet \in [Owners -> Nat]
           /\ vault \in Nat /\ clock \in Nat /\ now \in Nat
           /\ Cutoff \in Nat
           /\ Deployer \in Owners /\ Participant \in Owners /\ Deployer # Participant
           /\ Minted[Deployer] \in Nat /\ Minted[Participant] \in Nat
           /\ YesStake \in Nat \ {0} /\ NoStake \in Nat \ {0} /\ SecondStake \in Nat \ {0}
           /\ FinalSequence \in Nat \ {0}
  <1>1. /\ Deployer \in Owners /\ Participant \in Owners /\ Deployer # Participant
        /\ FinalSequence \in Nat \ {0} /\ CutoffDelay \in Nat
    BY VerifierAssumption, NumbersAssumption
  <1>2. Minted[Deployer] \in Nat /\ Minted[Participant] \in Nat
    BY <1>1, MintedIsNat
  <1>3. clock \in Nat
    BY NumbersAssumption DEF VerifierTypeOK, TypeOK, Timestamps
  <1> QED
    BY <1>1, <1>2, <1>3, StakesAssumption DEF VerifierTypeOK, TypeOK, Cutoff

\* The script and what it read are as before.
SameScript == UNCHANGED <<script, now>>

\* So are the cutoff it will ask for and what it minted.
LEMMA SameCourse ==
    ASSUME SameScript
    PROVE  Cutoff' = Cutoff /\ Minted' = Minted
  BY DEF SameScript, Cutoff, Minted

\* While nothing happens to the accounts the script's view of them stays true.
LEMMA CourseKept ==
    ASSUME UNCHANGED chain, SameScript
    PROVE  /\ Fresh' = Fresh
           /\ \A yes, no : FirstOpen(yes, no)' = FirstOpen(yes, no)
           /\ FirstLocked' = FirstLocked
           /\ FirstSettled' = FirstSettled
           /\ FirstPaid' = FirstPaid
           /\ \A states, no : SecondPool(states, no)' = SecondPool(states, no)
           /\ SecondRefunded' = SecondRefunded
           /\ UNCHANGED wallet
  BY SameCourse
  DEF chain, SameScript, Fresh, FirstOpen, FirstPool, FirstLocked, FirstSettled, FirstPaid,
      Staked, SecondPool, SecondRefunded, Undecided, Decided, RecordOfTheProof

\* A deposit adds the stake to the position of its owner.
LEMMA StakeAdded ==
    ASSUME VerifierTypeOK, NEW o \in Owners, NEW side \in Sides, NEW amount \in Nat \ {0},
           Staked(o, side, 0), JoinPool(o, side, amount)
    PROVE  /\ Staked(o, side, amount)'
           /\ \A other \in Owners \ {o} : position'[other] = position[other]
  <1>1. position' = [position EXCEPT ![o].side = side, ![o].amount = @ + amount]
    BY DEF JoinPool, JoinAccepted
  <1>2. position[o] \in PositionAccounts
    BY Typed
  <1>3. /\ position'[o] = [position[o] EXCEPT !.side = side, !.amount = @ + amount]
        /\ \A other \in Owners \ {o} : position'[other] = position[other]
    BY <1>1, Typed
  <1>4. /\ position'[o].side = side /\ position'[o].amount = position[o].amount + amount
        /\ position'[o].claimed = position[o].claimed
        /\ position'[o].refunded = position[o].refunded
    BY <1>2, <1>3 DEF PositionAccounts
  <1> QED
    BY <1>3, <1>4 DEF Staked

\* Funding leaves no pool behind and both with what was minted.
LEMMA FundStep ==
    ASSUME Fresh, Fund, SameScript
    PROVE  Fresh' /\ wallet' = Minted'
  BY SameCourse DEF Fresh, Fund

\* Nobody has staked in a pool nobody has touched.
LEMMA FreshIsUnstaked ==
    ASSUME VerifierTypeOK, Fresh, UNCHANGED position
    PROVE  \A o \in Owners : \A side : Staked(o, side, 0)'
  BY DEF Fresh, Staked, NoPosition

\* The first pool is created empty.
LEMMA CreateFirst ==
    ASSUME VerifierTypeOK, Fresh, wallet = Minted, SameScript,
           CreatePool(Cutoff, Cutoff + Grace, script = "lifecycle")
    PROVE  FirstOpen(0, 0)'
  <1>1. /\ pool' = [pool EXCEPT !.state = "Open", !.cutoff = Cutoff,
                                !.refundAfter = Cutoff + Grace,
                                !.demoMode = (script = "lifecycle")]
        /\ UNCHANGED <<position, record, wallet, vault>>
    BY DEF CreatePool
  <1>2. /\ pool'.state = "Open" /\ pool'.cutoff = Cutoff
        /\ pool'.demoMode = (script = "lifecycle")
        /\ pool'.sideAmount["Yes"] = 0 /\ pool'.sideAmount["No"] = 0
        /\ pool'.remainingPool = 0 /\ pool'.settledSequence = 0
    BY <1>1 DEF Fresh, FreshPool, Sides
  <1>3. Staked(Deployer, "Yes", 0)' /\ Staked(Participant, "No", 0)'
    BY <1>1, FreshIsUnstaked, Typed
  <1>4. record' = NoRecord /\ vault' = 0 /\ wallet' = Minted
    BY <1>1 DEF Fresh
  <1> QED
    BY <1>2, <1>3, <1>4, SameCourse, Typed DEF FirstOpen, FirstPool, Undecided, SameScript

\* So is the second.
LEMMA CreateSecond ==
    ASSUME VerifierTypeOK, Fresh, wallet[Deployer] = Minted[Deployer] + NoStake, SameScript,
           CreatePool(Cutoff, Cutoff + Grace, script = "lifecycle")
    PROVE  SecondPool({"Open"}, 0)'
  <1>1. /\ pool' = [pool EXCEPT !.state = "Open", !.cutoff = Cutoff,
                                !.refundAfter = Cutoff + Grace,
                                !.demoMode = (script = "lifecycle")]
        /\ UNCHANGED <<position, record, wallet, vault>>
    BY DEF CreatePool
  <1>2. /\ pool'.state = "Open" /\ pool'.cutoff = Cutoff
        /\ pool'.sideAmount["Yes"] = 0 /\ pool'.sideAmount["No"] = 0
        /\ pool'.remainingPool = 0
    BY <1>1 DEF Fresh, FreshPool, Sides
  <1>3. Staked(Deployer, "No", 0)'
    BY <1>1, FreshIsUnstaked, Typed
  <1>4. vault' = 0
    BY <1>1 DEF Fresh
  <1> QED
    BY <1>1, <1>2, <1>3, <1>4, SameCourse, Typed DEF SecondPool

\* The deployer's deposit is the first in the first pool.
LEMMA JoinFirstYes ==
    ASSUME VerifierTypeOK, FirstOpen(0, 0), SameScript, JoinPool(Deployer, "Yes", YesStake)
    PROVE  FirstOpen(YesStake, 0)'
  <1> USE DEF FirstOpen, FirstPool, Undecided
  <1>1. /\ pool' = [pool EXCEPT !.sideAmount["Yes"] = @ + YesStake,
                                !.remainingPool = @ + YesStake]
        /\ wallet' = [wallet EXCEPT ![Deployer] = @ - YesStake]
        /\ vault' = vault + YesStake
        /\ record' = record
    BY DEF JoinPool, JoinAccepted
  <1>2. /\ pool'.state = "Open" /\ pool'.cutoff = Cutoff
        /\ pool'.demoMode = (script = "lifecycle")
        /\ pool'.sideAmount["Yes"] = YesStake /\ pool'.sideAmount["No"] = 0
        /\ pool'.remainingPool = YesStake /\ pool'.settledSequence = 0
    BY <1>1, Typed DEF PoolAccounts, Sides
  <1>3. /\ Staked(Deployer, "Yes", YesStake)'
        /\ position'[Participant] = position[Participant]
    BY Typed, StakeAdded DEF Sides
  <1>4. Staked(Participant, "No", 0)'
    BY <1>3 DEF Staked
  <1>5. /\ wallet'[Deployer] = Minted[Deployer] - YesStake
        /\ wallet'[Participant] = Minted[Participant] - 0
        /\ vault' = YesStake + 0
    BY <1>1, Typed
  <1> QED
    BY <1>1, <1>2, <1>3, <1>4, <1>5, SameCourse, Typed DEF SameScript

\* The participant's is the second.
LEMMA JoinFirstNo ==
    ASSUME VerifierTypeOK, FirstOpen(YesStake, 0), SameScript,
           JoinPool(Participant, "No", NoStake)
    PROVE  FirstOpen(YesStake, NoStake)'
  <1> USE DEF FirstOpen, FirstPool, Undecided
  <1>1. /\ pool' = [pool EXCEPT !.sideAmount["No"] = @ + NoStake,
                                !.remainingPool = @ + NoStake]
        /\ wallet' = [wallet EXCEPT ![Participant] = @ - NoStake]
        /\ vault' = vault + NoStake
        /\ record' = record
    BY DEF JoinPool, JoinAccepted
  <1>2. /\ pool'.state = "Open" /\ pool'.cutoff = Cutoff
        /\ pool'.demoMode = (script = "lifecycle")
        /\ pool'.sideAmount["Yes"] = YesStake /\ pool'.sideAmount["No"] = NoStake
        /\ pool'.remainingPool = YesStake + NoStake /\ pool'.settledSequence = 0
    BY <1>1, Typed DEF PoolAccounts, Sides
  <1>3. /\ Staked(Participant, "No", NoStake)'
        /\ position'[Deployer] = position[Deployer]
    BY Typed, StakeAdded DEF Sides
  <1>4. Staked(Deployer, "Yes", YesStake)'
    BY <1>3 DEF Staked
  <1>5. /\ wallet'[Deployer] = Minted[Deployer] - YesStake
        /\ wallet'[Participant] = Minted[Participant] - NoStake
        /\ vault' = YesStake + NoStake
    BY <1>1, Typed
  <1> QED
    BY <1>1, <1>2, <1>3, <1>4, <1>5, SameCourse, Typed DEF SameScript

\* The deployer's is the only one in the second pool.
LEMMA JoinSecond ==
    ASSUME VerifierTypeOK, SecondPool({"Open"}, 0), SameScript,
           JoinPool(Deployer, "No", SecondStake)
    PROVE  SecondPool(Unresolved, SecondStake)'
  <1> USE DEF SecondPool
  <1>1. /\ pool' = [pool EXCEPT !.sideAmount["No"] = @ + SecondStake,
                                !.remainingPool = @ + SecondStake]
        /\ wallet' = [wallet EXCEPT ![Deployer] = @ - SecondStake]
        /\ vault' = vault + SecondStake
    BY DEF JoinPool, JoinAccepted
  <1>2. /\ pool'.state = "Open" /\ pool'.cutoff = Cutoff
        /\ pool'.sideAmount["Yes"] = 0 /\ pool'.sideAmount["No"] = SecondStake
        /\ pool'.remainingPool = SecondStake
    BY <1>1, Typed DEF PoolAccounts, Sides
  <1>3. Staked(Deployer, "No", SecondStake)'
    BY Typed, StakeAdded DEF Sides
  <1>5. /\ wallet'[Deployer] = Minted[Deployer] + NoStake - SecondStake
        /\ vault' = SecondStake
    BY <1>1, Typed
  <1> QED
    BY <1>1, <1>2, <1>3, <1>5, SameCourse, Typed DEF SameScript, Unresolved

\* Locking keeps the books.
LEMMA LockStep ==
    ASSUME VerifierTypeOK, FirstOpen(YesStake, NoStake), SameScript, LockPool
    PROVE  FirstLocked'
  <1>1. /\ pool' = [pool EXCEPT !.state = "Locked"]
        /\ UNCHANGED <<position, record, wallet, vault>>
    BY DEF LockPool
  <1>2. /\ pool'.state = "Locked" /\ pool'.cutoff = pool.cutoff
        /\ pool'.demoMode = pool.demoMode /\ pool'.sideAmount = pool.sideAmount
        /\ pool'.remainingPool = pool.remainingPool
        /\ pool'.settledSequence = pool.settledSequence
    BY <1>1, Typed DEF PoolAccounts
  <1> QED
    BY <1>1, <1>2, SameCourse
    DEF SameScript, FirstOpen, FirstLocked, FirstPool, Undecided, Staked

\* An outcome of "Yes" settles the pool for the deployer.
LEMMA OutcomeStep ==
    ASSUME VerifierTypeOK, FirstLocked,
           pool' = OutcomeRecorded(pool, "Yes", FinalSequence)
    PROVE  /\ pool'.state = "SettledYes" /\ pool'.cutoff = pool.cutoff
           /\ pool'.demoMode = pool.demoMode /\ pool'.sideAmount = pool.sideAmount
           /\ pool'.remainingPool = pool.remainingPool
           /\ pool'.settledSequence = FinalSequence
           /\ pool'.remainingWinning = YesStake
  <1>1. OutcomeState(pool, "Yes") = "SettledYes"
    BY Typed DEF OutcomeState, SettledFor, FirstLocked, FirstPool
  <1> QED
    BY <1>1, Typed DEF OutcomeRecorded, PoolAccounts, FirstLocked, FirstPool

\* The demo outcome leaves no record.
LEMMA DemoStep ==
    ASSUME VerifierTypeOK, FirstLocked, script = "lifecycle", SameScript,
           RecordDemoOutcome("Yes", FinalSequence)
    PROVE  FirstSettled'
  <1>1. /\ pool' = OutcomeRecorded(pool, "Yes", FinalSequence)
        /\ UNCHANGED <<position, record, wallet, vault>>
    BY DEF RecordDemoOutcome
  <1> QED
    BY <1>1, OutcomeStep, SameCourse
    DEF SameScript, FirstLocked, FirstSettled, FirstPool, Undecided, Decided, Staked

\* The proof leaves the record of what it proved.
LEMMA SettleStep ==
    ASSUME VerifierTypeOK, FirstLocked, script = "proof", SameScript,
           SettlePool("Yes", FinalSequence)
    PROVE  FirstSettled'
  <1>1. /\ pool' = OutcomeRecorded(pool, "Yes", FinalSequence)
        /\ record' = [winningSide |-> "Yes", sequence |-> FinalSequence]
        /\ UNCHANGED <<position, wallet, vault>>
    BY DEF SettlePool
  <1>2. Decided'
    BY <1>1, OutcomeStep DEF SameScript, Decided, RecordOfTheProof
  <1> QED
    BY <1>1, <1>2, OutcomeStep, SameCourse
    DEF SameScript, FirstLocked, FirstSettled, FirstPool, Staked

\* The only winner is paid the whole pot, and the pool is closed.
LEMMA ClaimStep ==
    ASSUME VerifierTypeOK, FirstSettled, SameScript, Claim(Deployer)
    PROVE  FirstPaid'
  <1>1. /\ pool.remainingWinning = YesStake /\ position[Deployer].amount = YesStake
        /\ pool.remainingPool = YesStake + NoStake
        /\ Payout(pool, position[Deployer].amount) = YesStake + NoStake
    BY Typed DEF FirstSettled, FirstPool, Staked, Payout
  <1>2. /\ pool' = ClaimRecorded(pool, YesStake, YesStake + NoStake)
        /\ position' = [position EXCEPT ![Deployer].claimed = TRUE]
        /\ wallet' = [wallet EXCEPT ![Deployer] = @ + (YesStake + NoStake)]
        /\ vault' = vault - (YesStake + NoStake)
        /\ record' = record
    BY <1>1 DEF Claim, ClaimAccepted
  <1>3. /\ pool'.state = "Closed" /\ pool'.sideAmount = pool.sideAmount
        /\ pool'.remainingPool = 0 /\ pool'.settledSequence = pool.settledSequence
    BY <1>1, <1>2, Typed DEF ClaimRecorded, PoolAccounts
  <1>4. position'[Deployer] = [position[Deployer] EXCEPT !.claimed = TRUE]
    BY <1>2, Typed
  <1>5. position'[Deployer].side = "Yes" /\ position'[Deployer].claimed
    BY <1>4, Typed DEF FirstSettled, FirstPool, Staked, PositionAccounts
  <1>6. wallet'[Deployer] = Minted[Deployer] + NoStake /\ vault' = 0
    BY <1>2, Typed DEF FirstSettled, FirstPool
  <1>7. Decided'
    BY <1>2, <1>3 DEF FirstSettled, Decided, RecordOfTheProof, SameScript
  <1> QED
    BY <1>3, <1>5, <1>6, <1>7, SameCourse DEF FirstPaid, FirstSettled, FirstPool

\* The lifecycle verifier turns to a second pool with what the first one left.
LEMMA MoveOnStep ==
    ASSUME FirstPaid, SameScript, MoveOn
    PROVE  Fresh' /\ wallet'[Deployer] = Minted'[Deployer] + NoStake
  BY SameCourse DEF FirstPaid, Fresh, MoveOn, FreshPool

\* The creator cancels the second pool.
LEMMA CancelStep ==
    ASSUME VerifierTypeOK, SecondPool(Unresolved, SecondStake), SameScript,
           NEW authority, CancelPool(authority)
    PROVE  SecondPool({"Cancelled"}, SecondStake)'
  <1>1. /\ pool' = [pool EXCEPT !.winningSide = None, !.remainingWinning = 0,
                                !.state = "Cancelled"]
        /\ UNCHANGED <<position, record, wallet, vault>>
    BY Typed DEF CancelPool, SecondPool
  <1>2. /\ pool'.state = "Cancelled" /\ pool'.cutoff = pool.cutoff
        /\ pool'.sideAmount = pool.sideAmount
        /\ pool'.remainingPool = pool.remainingPool
    BY <1>1, Typed DEF PoolAccounts
  <1> QED
    BY <1>1, <1>2, SameCourse DEF SecondPool, Staked

\* The only stake is refunded, and the pool is closed.
LEMMA RefundStep ==
    ASSUME VerifierTypeOK, SecondPool({"Cancelled"}, SecondStake), SameScript,
           Refund(Deployer)
    PROVE  SecondRefunded'
  <1>1. position[Deployer].amount = SecondStake /\ pool.remainingPool = SecondStake
    BY Typed DEF SecondPool, Staked
  <1>2. /\ pool' = RefundRecorded(pool, SecondStake)
        /\ position' = [position EXCEPT ![Deployer].refunded = TRUE]
        /\ wallet' = [wallet EXCEPT ![Deployer] = @ + SecondStake]
        /\ vault' = vault - SecondStake
    BY <1>1 DEF Refund, RefundAccepted
  <1>3. pool'.state = "Closed" /\ pool'.remainingPool = 0
    BY <1>1, <1>2, Typed DEF RefundRecorded, PoolAccounts
  <1>4. position'[Deployer] = [position[Deployer] EXCEPT !.refunded = TRUE]
    BY <1>2, Typed
  <1>5. position'[Deployer].side = "No" /\ position'[Deployer].refunded
    BY <1>4, Typed DEF SecondPool, Staked, PositionAccounts
  <1>6. wallet'[Deployer] = Minted[Deployer] + NoStake /\ vault' = 0
    BY <1>2, Typed DEF SecondPool
  <1> QED
    BY <1>3, <1>5, <1>6, SameCourse DEF SecondRefunded

-----------------------------------------------------------------------------
(* What the scripts do when a step answers as they expect                   *)

\* A step that must succeed takes effect; one that must be refused does nothing.
LEMMA AdvanceLands ==
    ASSUME Advance
    PROVE  /\ Step.codes = {"ok"} => StepAnswer(Step) = "ok" /\ Effect(Step)
           /\ "ok" \notin Step.codes => StepAnswer(Step) # "ok" /\ UNCHANGED <<chain, clock>>
           /\ StepAnswer(Step) \in Step.codes
  BY DEF Advance, Land

\* What each kind of step does when it takes effect.
LEMMA EffectIs ==
    ASSUME NEW step, Effect(step)
    PROVE  /\ step.do = "fund" => Fund
           /\ step.do \in Reads => UNCHANGED <<chain, clock>>
           /\ step.do = "create" => CreatePool(Cutoff, Cutoff + Grace, script = "lifecycle")
           /\ step.do = "join" => JoinPool(step.who, step.side, step.amount)
           /\ step.do = "lock" => LockPool
           /\ step.do = "demoOutcome" => RecordDemoOutcome("Yes", FinalSequence)
           /\ step.do = "settle" => SettlePool("Yes", FinalSequence)
           /\ step.do = "claim" => Claim(step.who)
           /\ step.do = "cancel" => CancelPool(step.who)
           /\ step.do = "refund" => Refund(step.who)
           /\ step.do = "nextPool" => MoveOn
  BY DEF Effect, Reads

\* No instruction moves the clock.
LEMMA LandKeepsClock ==
    ASSUME Land
    PROVE  clock' = clock
  BY DEF Land, Effect, chain, CreatePool, JoinPool, LockPool, RecordDemoOutcome, SettlePool,
         Claim, CancelPool, Refund, Fund, MoveOn

\* The effect of each step of the lifecycle verifier.
LEMMA LifecycleMoves ==
    ASSUME VerifierTypeOK, Advance, script = "lifecycle"
    PROVE  /\ pc = 1 => Fund
           /\ pc \in {2, 6, 7, 10, 11, 13, 15, 20, 21} => UNCHANGED chain
           /\ pc \in {3, 16} => CreatePool(Cutoff, Cutoff + Grace, script = "lifecycle")
           /\ pc = 4 => JoinPool(Deployer, "Yes", YesStake)
           /\ pc = 5 => JoinPool(Participant, "No", NoStake)
           /\ pc = 8 => LockPool
           /\ pc = 9 => RecordDemoOutcome("Yes", FinalSequence)
           /\ pc = 12 => Claim(Deployer)
           /\ pc = 14 => MoveOn
           /\ pc = 17 => JoinPool(Deployer, "No", SecondStake)
           /\ pc = 18 => CancelPool(Deployer)
           /\ pc = 19 => Refund(Deployer)
           /\ pc \in {2, 15} => now' = clock
           /\ pc \notin {2, 15} => now' = now
           /\ pc = 6 => clock >= Cutoff
           /\ pc = 14 => settledPool' = {pool}
           /\ pc # 14 => settledPool' = settledPool
           /\ pc \in 1 .. 21 /\ pc' = pc + 1 /\ UNCHANGED <<script, clock, evidence, disturbed, lost>>
  <1>1. pc \in 1 .. 21 /\ Step = LifecycleSteps[pc] /\ ended = "no"
    BY StepIs DEF Advance
  <1>2. pc' = pc + 1 /\ clock' = clock /\ UNCHANGED <<script, disturbed, lost>>
    BY LandKeepsClock DEF Advance, GoOn, history
  <1>3. CASE pc \in {7, 10, 11, 13, 20}
    <2>1. UNCHANGED <<chain, clock>>
      <3>1. "ok" \notin Step.codes
        BY <1>1, <1>3, LifecycleStepsExpect
      <3> QED
        BY <3>1, AdvanceLands
    <2>2. Step.do \notin {"readClock", "wait", "nextPool", "writeEvidence"}
      BY <1>1, <1>3, LifecycleStepsDo
    <2> QED
      BY <1>1, <1>2, <1>3, <2>1, <2>2 DEF Advance
  <1>4. CASE pc \notin {7, 10, 11, 13, 20}
    <2>1. Effect(Step)
      <3>1. Step.codes = {"ok"}
        BY <1>1, <1>4, LifecycleStepsExpect
      <3> QED
        BY <3>1, AdvanceLands
    <2>2. /\ pc = 1 => Step.do = "fund"
          /\ pc \in {2, 15} => Step.do = "readClock"
          /\ pc = 6 => Step.do = "wait"
          /\ pc = 21 => Step.do = "report"
          /\ pc \in {3, 16} => Step.do = "create"
          /\ pc \in {4, 5, 17} => Step.do = "join"
          /\ pc = 8 => Step.do = "lock"
          /\ pc = 9 => Step.do = "demoOutcome"
          /\ pc = 12 => Step.do = "claim"
          /\ pc = 14 => Step.do = "nextPool"
          /\ pc = 18 => Step.do = "cancel"
          /\ pc = 19 => Step.do = "refund"
      BY <1>1, LifecycleStepsDo
    <2>3. /\ pc = 4 => Step.who = Deployer /\ Step.side = "Yes" /\ Step.amount = YesStake
          /\ pc = 5 => Step.who = Participant /\ Step.side = "No" /\ Step.amount = NoStake
          /\ pc = 17 => Step.who = Deployer /\ Step.side = "No" /\ Step.amount = SecondStake
          /\ pc \in {12, 18, 19} => Step.who = Deployer
      <3>1. /\ LifecycleSteps[4].who = Deployer /\ LifecycleSteps[4].side = "Yes"
            /\ LifecycleSteps[4].amount = YesStake
            /\ LifecycleSteps[5].who = Participant /\ LifecycleSteps[5].side = "No"
            /\ LifecycleSteps[5].amount = NoStake
            /\ LifecycleSteps[17].who = Deployer /\ LifecycleSteps[17].side = "No"
            /\ LifecycleSteps[17].amount = SecondStake
            /\ LifecycleSteps[12].who = Deployer /\ LifecycleSteps[18].who = Deployer
            /\ LifecycleSteps[19].who = Deployer
        BY LifecycleStepsAre DEF Send, Deposit
      <3> QED
        BY <1>1, <3>1
    <2>4. /\ pc = 1 => Fund
          /\ pc \in {2, 6, 15, 21} => UNCHANGED <<chain, clock>>
          /\ pc \in {3, 16} => CreatePool(Cutoff, Cutoff + Grace, script = "lifecycle")
          /\ pc = 4 => JoinPool(Deployer, "Yes", YesStake)
          /\ pc = 5 => JoinPool(Participant, "No", NoStake)
          /\ pc = 8 => LockPool
          /\ pc = 9 => RecordDemoOutcome("Yes", FinalSequence)
      BY <2>1, <2>2, <2>3, EffectIs DEF Reads
    <2>5. /\ pc = 12 => Claim(Deployer)
          /\ pc = 14 => MoveOn
          /\ pc = 17 => JoinPool(Deployer, "No", SecondStake)
          /\ pc = 18 => CancelPool(Deployer)
          /\ pc = 19 => Refund(Deployer)
      BY <2>1, <2>2, <2>3, EffectIs
    <2>6. /\ pc \in {2, 15} => now' = clock
          /\ pc \notin {2, 15} => now' = now
          /\ pc = 6 => clock >= Cutoff
          /\ pc = 14 => settledPool' = {pool}
          /\ pc # 14 => settledPool' = settledPool
          /\ evidence' = evidence
      <3>1. /\ Step.do = "readClock" <=> pc \in {2, 15}
            /\ Step.do = "nextPool" <=> pc = 14
            /\ Step.do # "writeEvidence"
        BY <1>1, <1>4, LifecycleStepsDo
      <3> QED
        BY <2>2, <3>1 DEF Advance
    <2> QED
      BY <1>1, <1>2, <1>4, <2>4, <2>5, <2>6
  <1> QED
    BY <1>3, <1>4

\* The effect of each step of the proof verifier.
LEMMA ProofMoves ==
    ASSUME VerifierTypeOK, Advance, script = "proof"
    PROVE  /\ pc = 2 => Fund
           /\ pc \in {1, 3, 7} \cup (9 .. 18) \cup {20, 21, 23} => UNCHANGED chain
           /\ pc = 4 => CreatePool(Cutoff, Cutoff + Grace, script = "lifecycle")
           /\ pc = 5 => JoinPool(Deployer, "Yes", YesStake)
           /\ pc = 6 => JoinPool(Participant, "No", NoStake)
           /\ pc = 8 => LockPool
           /\ pc = 19 => SettlePool("Yes", FinalSequence)
           /\ pc = 22 => Claim(Deployer)
           /\ pc = 3 => now' = clock
           /\ pc # 3 => now' = now
           /\ pc = 7 => clock >= Cutoff
           /\ pc = 23 => evidence' = {WrittenEvidence}
           /\ pc # 23 => evidence' = evidence
           /\ pc = 23 => ended' = "done"
           /\ pc \in 1 .. 23 /\ pc' = pc + 1
           /\ UNCHANGED <<script, clock, settledPool, disturbed, lost>>
  <1>1. pc \in 1 .. 23 /\ Step = ProofSteps[pc] /\ ended = "no"
    BY StepIs DEF Advance
  <1>2. pc' = pc + 1 /\ clock' = clock /\ UNCHANGED <<script, disturbed, lost>>
    BY LandKeepsClock DEF Advance, GoOn, history
  <1>3. Len(Steps) = 23
    BY ProofStepsAre DEF Steps
  <1>4. pc = 23 => ended' = "done"
    BY <1>3 DEF Advance
  <1>5. CASE pc \in (9 .. 16) \cup {20}
    <2>1. UNCHANGED <<chain, clock>>
      <3>1. "ok" \notin Step.codes
        BY <1>1, <1>5, ProofStepsExpect DEF AnyReason, NetworkError
      <3> QED
        BY <3>1, AdvanceLands
    <2>2. Step.do \notin {"readClock", "wait", "nextPool", "writeEvidence"}
      BY <1>1, <1>5, ProofStepsDo
    <2> QED
      BY <1>1, <1>2, <1>4, <1>5, <2>1, <2>2 DEF Advance
  <1>6. CASE pc \notin (9 .. 16) \cup {20}
    <2>1. Effect(Step)
      <3>1. Step.codes = {"ok"}
        BY <1>1, <1>6, ProofStepsExpect
      <3> QED
        BY <3>1, AdvanceLands
    <2>2. /\ pc = 1 => Step.do = "fetchProof"
          /\ pc = 2 => Step.do = "fund"
          /\ pc = 3 => Step.do = "readClock"
          /\ pc = 4 => Step.do = "create"
          /\ pc \in {5, 6} => Step.do = "join"
          /\ pc = 7 => Step.do = "wait"
          /\ pc = 8 => Step.do = "lock"
          /\ pc = 17 => Step.do = "readPool"
          /\ pc = 18 => Step.do = "simulate"
          /\ pc = 19 => Step.do = "settle"
          /\ pc = 21 => Step.do = "readRecord"
          /\ pc = 22 => Step.do = "claim"
          /\ pc = 23 => Step.do = "writeEvidence"
      BY <1>1, ProofStepsDo
    <2>3. /\ pc = 5 => Step.who = Deployer /\ Step.side = "Yes" /\ Step.amount = YesStake
          /\ pc = 6 => Step.who = Participant /\ Step.side = "No" /\ Step.amount = NoStake
          /\ pc = 22 => Step.who = Deployer
      <3>1. /\ ProofSteps[5].who = Deployer /\ ProofSteps[5].side = "Yes"
            /\ ProofSteps[5].amount = YesStake
            /\ ProofSteps[6].who = Participant /\ ProofSteps[6].side = "No"
            /\ ProofSteps[6].amount = NoStake
            /\ ProofSteps[22].who = Deployer
        BY ProofStepsAre DEF Send, Deposit
      <3> QED
        BY <1>1, <3>1
    <2>4. /\ pc = 2 => Fund
          /\ pc \in {1, 3, 7, 17, 18, 21, 23} => UNCHANGED <<chain, clock>>
          /\ pc = 4 => CreatePool(Cutoff, Cutoff + Grace, script = "lifecycle")
          /\ pc = 5 => JoinPool(Deployer, "Yes", YesStake)
          /\ pc = 6 => JoinPool(Participant, "No", NoStake)
      BY <2>1, <2>2, <2>3, EffectIs DEF Reads
    <2>5. /\ pc = 8 => LockPool
          /\ pc = 19 => SettlePool("Yes", FinalSequence)
          /\ pc = 22 => Claim(Deployer)
      BY <2>1, <2>2, <2>3, EffectIs
    <2>6. /\ pc = 3 => now' = clock
          /\ pc # 3 => now' = now
          /\ pc = 7 => clock >= Cutoff
          /\ pc = 23 => evidence' = {WrittenEvidence}
          /\ pc # 23 => evidence' = evidence
          /\ settledPool' = settledPool
      <3>1. /\ Step.do = "readClock" <=> pc = 3
            /\ Step.do = "writeEvidence" <=> pc = 23
            /\ Step.do # "nextPool"
        BY <1>1, <1>6, ProofStepsDo
      <3> QED
        BY <2>2, <3>1 DEF Advance
    <2> QED
      BY <1>1, <1>2, <1>4, <1>6, <2>4, <2>5, <2>6
  <1> QED
    BY <1>5, <1>6

\* The lifecycle verifier brings about what each step is for.
LEMMA LifecycleAdvances ==
    ASSUME VerifierTypeOK, Advance, script = "lifecycle", LifecycleOnCourse
    PROVE  LifecycleOnCourse'
  <1> USE DEF LifecycleOnCourse
  <1>1. pc \in 1 .. 21 /\ pc' = pc + 1 /\ UNCHANGED <<script, clock>>
    BY LifecycleMoves
  <1>2. pc \notin {2, 15} => SameScript
    BY LifecycleMoves DEF SameScript
  <1>3. CASE pc = 1
    BY <1>1, <1>2, <1>3, LifecycleMoves, FundStep
  <1>4. CASE pc \in {2, 15}
    <2>1. UNCHANGED <<pool, position, record, wallet, vault>> /\ Minted' = Minted
      BY <1>1, <1>4, LifecycleMoves DEF chain, Minted
    <2>2. Fresh'
      BY <1>4, <2>1 DEF Fresh
    <2> QED
      BY <1>1, <1>4, <2>1, <2>2
  <1>5. CASE pc = 3
    BY <1>1, <1>2, <1>5, LifecycleMoves, CreateFirst
  <1>6. CASE pc = 4
    BY <1>1, <1>2, <1>6, LifecycleMoves, JoinFirstYes
  <1>7. CASE pc = 5
    BY <1>1, <1>2, <1>7, LifecycleMoves, JoinFirstNo
  <1>8. CASE pc \in {6, 7, 10, 11, 13, 20, 21}
    <2>1. UNCHANGED chain /\ SameScript
      BY <1>2, <1>8, LifecycleMoves
    <2> QED
      BY <1>1, <1>8, <2>1, CourseKept
  <1>9. CASE pc = 8
    BY <1>1, <1>2, <1>9, LifecycleMoves, LockStep
  <1>10. CASE pc = 9
    BY <1>1, <1>2, <1>10, LifecycleMoves, DemoStep
  <1>11. CASE pc = 12
    BY <1>1, <1>2, <1>11, LifecycleMoves, ClaimStep
  <1>12. CASE pc = 14
    BY <1>1, <1>2, <1>12, LifecycleMoves, MoveOnStep
  <1>13. CASE pc = 16
    BY <1>1, <1>2, <1>13, LifecycleMoves, CreateSecond
  <1>14. CASE pc = 17
    BY <1>1, <1>2, <1>14, LifecycleMoves, JoinSecond
  <1>15. CASE pc = 18
    BY <1>1, <1>2, <1>15, LifecycleMoves, CancelStep
  <1>16. CASE pc = 19
    BY <1>1, <1>2, <1>16, LifecycleMoves, RefundStep
  <1> QED
    BY <1>1, <1>3, <1>4, <1>5, <1>6, <1>7, <1>8, <1>9, <1>10, <1>11, <1>12, <1>13, <1>14,
       <1>15, <1>16

\* So does the proof verifier.
LEMMA ProofAdvances ==
    ASSUME VerifierTypeOK, Advance, script = "proof", ProofOnCourse
    PROVE  ProofOnCourse'
  <1> USE DEF ProofOnCourse
  <1>1. pc \in 1 .. 23 /\ pc' = pc + 1 /\ UNCHANGED <<script, clock>>
    BY ProofMoves
  <1>2. pc # 3 => SameScript
    BY ProofMoves DEF SameScript
  <1>3. CASE pc = 2
    BY <1>1, <1>2, <1>3, ProofMoves, FundStep
  <1>4. CASE pc = 3
    <2>1. UNCHANGED <<pool, position, record, wallet, vault>> /\ Minted' = Minted
      BY <1>1, <1>4, ProofMoves DEF chain, Minted
    <2>2. Fresh'
      BY <1>4, <2>1 DEF Fresh
    <2> QED
      BY <1>1, <1>4, <2>1, <2>2
  <1>5. CASE pc = 4
    BY <1>1, <1>2, <1>5, ProofMoves, CreateFirst
  <1>6. CASE pc = 5
    BY <1>1, <1>2, <1>6, ProofMoves, JoinFirstYes
  <1>7. CASE pc = 6
    BY <1>1, <1>2, <1>7, ProofMoves, JoinFirstNo
  <1>8. CASE pc \in {1, 7} \cup (9 .. 18) \cup {20, 21, 23}
    <2>1. UNCHANGED chain /\ SameScript
      BY <1>2, <1>8, ProofMoves
    <2> QED
      BY <1>1, <1>8, <2>1, CourseKept
  <1>9. CASE pc = 8
    BY <1>1, <1>2, <1>9, ProofMoves, LockStep
  <1>10. CASE pc = 19
    BY <1>1, <1>2, <1>10, ProofMoves, SettleStep
  <1>11. CASE pc = 22
    BY <1>1, <1>2, <1>11, ProofMoves, ClaimStep
  <1> QED
    BY <1>1, <1>3, <1>4, <1>5, <1>6, <1>7, <1>8, <1>9, <1>10, <1>11

-----------------------------------------------------------------------------
(* Undisturbed, every step answers as its script expects                    *)

\* What each kind of step answers.
LEMMA AnswerOfStep ==
    ASSUME NEW step
    PROVE  /\ step.do \in {"fund", "readClock", "wait", "fetchProof", "nextPool", "report",
                           "writeEvidence"} => StepAnswer(step) = "ok"
           /\ step.do = "create" =>
                 StepAnswer(step) = Answer(CreateChecks(Cutoff, Cutoff + Grace))
           /\ step.do = "join" =>
                 StepAnswer(step) = Answer(JoinChecks(step.who, step.side, step.amount))
           /\ step.do = "lock" => StepAnswer(step) = Answer(LockChecks)
           /\ step.do = "demoOutcome" =>
                 StepAnswer(step) = Answer(DemoOutcomeChecks(FinalSequence))
           /\ step.do \in {"settle", "simulate"} =>
                 StepAnswer(step) = Answer(SettleChecks(step.altered, FinalSequence))
           /\ step.do = "claim" => StepAnswer(step) = Answer(ClaimChecks(step.who))
           /\ step.do = "claimElsewhere" => StepAnswer(step) = "ConstraintSeeds"
           /\ step.do = "cancel" => StepAnswer(step) = Answer(CancelChecks(step.who))
           /\ step.do = "refund" => StepAnswer(step) = Answer(RefundChecks(step.who))
  BY DEF StepAnswer

\* The two looks at what the settlement has left.
LEMMA AnswerOfReads ==
    ASSUME NEW step
    PROVE  /\ step.do = "readPool" =>
                 (StepAnswer(step) = "ok" <=> Untouched)
           /\ step.do = "readRecord" =>
                 (StepAnswer(step) = "ok" <=> RecordOfTheProof)
  <1>1. ASSUME NEW code, code # "ok", NEW holds \in BOOLEAN
        PROVE  Answer(<<Check(code, holds)>>) = "ok" <=> holds
    <2> DEFINE checks == <<Check(code, holds)>>
    <2>1. IsChecks(checks, 1) /\ checks[1].holds = holds /\ checks[1].code = code
      BY DEF IsChecks, MaxChecks, Check
    <2> HIDE DEF checks
    <2>2. CASE holds
      <3>1. checks[1].holds
        BY <2>1, <2>2
      <3>2. \A i \in 1 .. 1 : checks[i].holds
        BY <3>1
      <3> QED
        BY <2>1, <2>2, <3>2, AnswerOk DEF checks
    <2>3. CASE ~holds
      <3>1. Answer(checks) = checks[1].code
        BY <2>1, <2>3, AnswerIsFirst
      <3> QED
        BY <1>1, <2>1, <2>3, <3>1 DEF checks
    <2> QED
      BY <2>2, <2>3
  <1>2. Untouched \in BOOLEAN /\ RecordOfTheProof \in BOOLEAN
    BY DEF Untouched, RecordOfTheProof
  <1>3. step.do = "readPool" =>
           StepAnswer(step) = Answer(<<Check("RejectedSettlementChangedState", Untouched)>>)
    BY DEF StepAnswer
  <1>4. step.do = "readRecord" =>
           StepAnswer(step) = Answer(<<Check("ReceiptDoesNotMatch", RecordOfTheProof)>>)
    BY DEF StepAnswer
  <1>5. /\ Answer(<<Check("RejectedSettlementChangedState", Untouched)>>) = "ok" <=> Untouched
        /\ Answer(<<Check("ReceiptDoesNotMatch", RecordOfTheProof)>>) = "ok"
              <=> RecordOfTheProof
    BY <1>1, <1>2
  <1> QED
    BY <1>3, <1>4, <1>5

\* The vault holds what a pool on course owes.
LEMMA OnCourseCovers ==
    ASSUME VerifierTypeOK,
           FirstLocked \/ FirstSettled \/ (\E states, no : SecondPool(states, no))
    PROVE  VaultCovers(pool)
  BY Typed DEF FirstLocked, FirstSettled, FirstPool, SecondPool, VaultCovers

\* The deposits into the first pool are taken, and the one that comes too late
\* is refused for that reason.
LEMMA FirstDeposits ==
    ASSUME VerifierTypeOK
    PROVE  /\ FirstOpen(0, 0) /\ clock < Cutoff =>
                 Answer(JoinChecks(Deployer, "Yes", YesStake)) = "ok"
           /\ FirstOpen(YesStake, 0) /\ clock < Cutoff =>
                 Answer(JoinChecks(Participant, "No", NoStake)) = "ok"
           /\ FirstOpen(YesStake, NoStake) /\ clock >= Cutoff /\ script = "lifecycle" =>
                 Answer(JoinChecks(Deployer, "Yes", 1)) = "CutoffPassed"
  <1>1. /\ script = "lifecycle" => Minted[Deployer] = 2 * (YesStake + NoStake)
        /\ Minted[Deployer] >= YesStake
        /\ Minted[Participant] >= NoStake
    <2>1. Minted[Deployer] = IF script = "lifecycle" THEN 2 * (YesStake + NoStake)
                             ELSE IF script = "proof" THEN YesStake ELSE NoStake
      BY Typed DEF Minted
    <2>2. Minted[Participant] = IF script = "lifecycle" THEN YesStake + NoStake ELSE NoStake
      BY Typed DEF Minted
    <2> QED
      BY <2>1, <2>2, Typed DEF VerifierTypeOK
  <1>2. ASSUME FirstOpen(0, 0), clock < Cutoff
        PROVE  Answer(JoinChecks(Deployer, "Yes", YesStake)) = "ok"
    BY <1>1, <1>2, Typed, JoinAnswersOk DEF FirstOpen, FirstPool, Staked
  <1>3. ASSUME FirstOpen(YesStake, 0), clock < Cutoff
        PROVE  Answer(JoinChecks(Participant, "No", NoStake)) = "ok"
    BY <1>1, <1>3, Typed, JoinAnswersOk DEF FirstOpen, FirstPool, Staked
  <1>4. ASSUME FirstOpen(YesStake, NoStake), clock >= Cutoff, script = "lifecycle"
        PROVE  Answer(JoinChecks(Deployer, "Yes", 1)) = "CutoffPassed"
    BY <1>1, <1>4, Typed, JoinPassed DEF FirstOpen, FirstPool
  <1> QED
    BY <1>2, <1>3, <1>4

\* So is the deposit into the second pool.
LEMMA SecondDeposit ==
    ASSUME VerifierTypeOK, script = "lifecycle", SecondPool({"Open"}, 0), clock < Cutoff
    PROVE  Answer(JoinChecks(Deployer, "No", SecondStake)) = "ok"
  <1>1. Minted[Deployer] = 2 * (YesStake + NoStake)
    BY Typed DEF Minted
  <1>2. wallet[Deployer] >= SecondStake
    BY <1>1, Typed, StakesAssumption DEF SecondPool
  <1> QED
    BY <1>2, Typed, JoinAnswersOk DEF SecondPool, Staked

\* Of a settled pool the winner is paid, the loser refused, and once it is paid
\* the winner is refused too.
LEMMA FirstClaims ==
    ASSUME VerifierTypeOK
    PROVE  /\ FirstSettled => Answer(ClaimChecks(Deployer)) = "ok"
           /\ FirstSettled => Answer(ClaimChecks(Participant)) = "NotWinningPosition"
           /\ FirstPaid => Answer(ClaimChecks(Deployer)) = "InvalidPayoutState"
  <1>1. ASSUME FirstSettled PROVE Answer(ClaimChecks(Deployer)) = "ok"
    <2>1. /\ position[Deployer].side = "Yes" /\ position[Deployer].amount = YesStake
          /\ ~position[Deployer].claimed /\ ~position[Deployer].refunded
      BY <1>1, Typed DEF FirstSettled, FirstPool, Staked
    <2>2. /\ pool.remainingWinning = YesStake /\ pool.remainingPool = YesStake + NoStake
          /\ pool.state = "SettledYes"
      BY <1>1 DEF FirstSettled, FirstPool
    <2>3. Payable(Deployer)
      BY <2>1, <2>2, Typed DEF Payable, Payout
    <2>4. /\ position[Deployer].side # None /\ pool.state \in Settled
          /\ pool.state = SettledFor(position[Deployer].side)
      BY <2>1, <2>2 DEF SettledFor, Settled, None
    <2> QED
      BY <1>1, <2>1, <2>3, <2>4, OnCourseCovers, ClaimAnswersOk
  <1>2. ASSUME FirstSettled PROVE Answer(ClaimChecks(Participant)) = "NotWinningPosition"
    <2>1. position[Participant].side = "No" /\ pool.state = "SettledYes"
      BY <1>2, Typed DEF FirstSettled, FirstPool, Staked
    <2> QED
      BY <2>1, ClaimNotWinning DEF SettledFor, Settled, None
  <1>3. ASSUME FirstPaid PROVE Answer(ClaimChecks(Deployer)) = "InvalidPayoutState"
    BY <1>3, ClaimNotSettled DEF FirstPaid, Settled, None
  <1> QED
    BY <1>1, <1>2, <1>3

\* Of a cancelled pool the stake is refunded once.
LEMMA SecondRefunds ==
    ASSUME VerifierTypeOK
    PROVE  /\ SecondPool({"Cancelled"}, SecondStake) =>
                 Answer(RefundChecks(Deployer)) = "ok"
           /\ SecondRefunded => Answer(RefundChecks(Deployer)) = "RefundNotAvailable"
  <1>1. ASSUME SecondPool({"Cancelled"}, SecondStake)
        PROVE  Answer(RefundChecks(Deployer)) = "ok"
    <2>1. /\ position[Deployer].side = "No" /\ position[Deployer].amount = SecondStake
          /\ ~position[Deployer].claimed /\ ~position[Deployer].refunded
      BY <1>1, Typed DEF SecondPool, Staked
    <2>2. pool.state = "Cancelled" /\ pool.remainingPool = SecondStake
      BY <1>1 DEF SecondPool
    <2> QED
      BY <1>1, <2>1, <2>2, Typed, OnCourseCovers, RefundAnswersOk DEF None
  <1>2. ASSUME SecondRefunded PROVE Answer(RefundChecks(Deployer)) = "RefundNotAvailable"
    BY <1>2, RefundNotCancelled DEF SecondRefunded, None
  <1> QED
    BY <1>1, <1>2

\* A pool nobody has touched is created.
LEMMA FreshCreated ==
    ASSUME VerifierTypeOK, Fresh, clock < Cutoff
    PROVE  Answer(CreateChecks(Cutoff, Cutoff + Grace)) = "ok"
  BY Typed, CreateAnswersOk DEF Fresh, FreshPool

\* The open pool is locked once the waiting is over.
LEMMA FirstLocks ==
    ASSUME VerifierTypeOK, FirstOpen(YesStake, NoStake), clock >= Cutoff
    PROVE  Answer(LockChecks) = "ok"
  BY LockAnswersOk DEF FirstOpen, FirstPool

\* No step of the lifecycle verifier surprises it.
LEMMA LifecycleExpects ==
    ASSUME VerifierTypeOK, ended = "no", script = "lifecycle", LifecycleOnCourse,
           ~Late, Waited
    PROVE  StepAnswer(Step) \in Step.codes
  <1> USE DEF LifecycleOnCourse
  <1>1. pc \in 1 .. 21 /\ Step = LifecycleSteps[pc]
    BY StepIs
  <1>2. /\ pc \in {3, 4, 5, 16, 17} => clock < Cutoff
        /\ pc \in {7, 8} => clock >= Cutoff
    <2>1. pc \in {3, 4, 5, 16, 17} => ~(clock >= Cutoff)
      BY DEF Late, Deposits
    <2>2. pc \in {7, 8} => clock >= Cutoff
      BY DEF Waited
    <2> QED
      BY <2>1, <2>2, Typed
  <1>3. CASE pc \in {1, 2, 6, 14, 15, 21}
    <2>1. Step.do \in {"fund", "readClock", "wait", "nextPool", "report"}
      BY <1>1, <1>3, LifecycleStepsDo
    <2> QED
      BY <1>1, <1>3, <2>1, AnswerOfStep, LifecycleStepsExpect
  <1>4. CASE pc \in {3, 16}
    <2>1. Step.do = "create"
      BY <1>1, <1>4, LifecycleStepsDo
    <2> QED
      BY <1>1, <1>2, <1>4, <2>1, AnswerOfStep, LifecycleStepsExpect, FreshCreated
  <1>5. CASE pc \in {4, 5, 17}
    <2>1. /\ pc = 4 => Step = Deposit(Deployer, "Yes", YesStake)
          /\ pc = 5 => Step = Deposit(Participant, "No", NoStake)
          /\ pc = 17 => Step = Deposit(Deployer, "No", SecondStake)
      BY <1>1, LifecycleStepsAre
    <2>2. ASSUME NEW who, NEW side, NEW amount, Step = Deposit(who, side, amount)
          PROVE  StepAnswer(Step) = Answer(JoinChecks(who, side, amount))
      <3>1. /\ Step.do = "join" /\ Step.who = who
            /\ Step.side = side /\ Step.amount = amount
        BY <2>2 DEF Deposit, Send
      <3> QED
        BY <3>1, AnswerOfStep
    <2>3. Step.codes = {"ok"}
      BY <1>1, <1>5, LifecycleStepsExpect
    <2> QED
      BY <1>2, <1>5, <2>1, <2>2, <2>3, FirstDeposits, SecondDeposit
  <1>6. CASE pc = 7
    <2>1. Step = Refused(Deposit(Deployer, "Yes", 1), {"CutoffPassed"})
      BY <1>1, <1>6, LifecycleStepsAre
    <2>2. /\ Step.do = "join" /\ Step.who = Deployer /\ Step.side = "Yes" /\ Step.amount = 1
          /\ Step.codes = {"CutoffPassed"}
      BY <2>1 DEF Refused, Deposit, Send
    <2> QED
      BY <1>2, <1>6, <2>2, AnswerOfStep, FirstDeposits
  <1>7. CASE pc = 8
    <2>1. Step.do = "lock"
      BY <1>1, <1>7, LifecycleStepsDo
    <2> QED
      BY <1>1, <1>2, <1>7, <2>1, AnswerOfStep, LifecycleStepsExpect, FirstLocks
  <1>8. CASE pc = 9
    <2>1. Step.do = "demoOutcome"
      BY <1>1, <1>8, LifecycleStepsDo
    <2>2. Answer(DemoOutcomeChecks(FinalSequence)) = "ok"
      <3>1. FirstLocked /\ VaultCovers(pool) /\ FinalSequence > 0
        BY <1>8, Typed, OnCourseCovers
      <3>2. pool.state = "Locked" /\ pool.demoMode = TRUE
        BY <3>1 DEF FirstLocked, FirstPool
      <3> QED
        BY <3>1, <3>2, DemoOutcomeAnswersOk
    <2> QED
      BY <1>1, <1>8, <2>1, <2>2, AnswerOfStep, LifecycleStepsExpect
  <1>9. CASE pc = 10
    <2>1. Step = Refused(Send("claim", Participant), {"NotWinningPosition"})
      BY <1>1, <1>9, LifecycleStepsAre
    <2>2. Step.do = "claim" /\ Step.who = Participant /\ Step.codes = {"NotWinningPosition"}
      BY <2>1 DEF Refused, Send
    <2> QED
      BY <1>9, <2>2, AnswerOfStep, FirstClaims
  <1>10. CASE pc = 11
    <2>1. Step = Refused(Send("claimElsewhere", Deployer), {"ConstraintSeeds"})
      BY <1>1, <1>10, LifecycleStepsAre
    <2>2. Step.do = "claimElsewhere" /\ Step.codes = {"ConstraintSeeds"}
      BY <2>1 DEF Refused, Send
    <2> QED
      BY <2>2, AnswerOfStep
  <1>11. CASE pc = 12
    <2>1. Step = Send("claim", Deployer)
      BY <1>1, <1>11, LifecycleStepsAre
    <2>2. Step.do = "claim" /\ Step.who = Deployer /\ Step.codes = {"ok"}
      BY <2>1 DEF Send
    <2> QED
      BY <1>11, <2>2, AnswerOfStep, FirstClaims
  <1>12. CASE pc = 13
    <2>1. Step = Refused(Send("claim", Deployer), {"InvalidPayoutState", "AlreadyClaimed"})
      BY <1>1, <1>12, LifecycleStepsAre
    <2>2. /\ Step.do = "claim" /\ Step.who = Deployer
          /\ Step.codes = {"InvalidPayoutState", "AlreadyClaimed"}
      BY <2>1 DEF Refused, Send
    <2> QED
      BY <1>12, <2>2, AnswerOfStep, FirstClaims
  <1>13. CASE pc = 18
    <2>1. Step = Send("cancel", Deployer)
      BY <1>1, <1>13, LifecycleStepsAre
    <2>2. Step.do = "cancel" /\ Step.who = Creator /\ Step.codes = {"ok"}
      BY <2>1, VerifierAssumption DEF Send
    <2>3. Answer(CancelChecks(Creator)) = "ok"
      BY <1>13, OnCourseCovers, CancelAnswersOk DEF SecondPool
    <2> QED
      BY <2>2, <2>3, AnswerOfStep
  <1>14. CASE pc = 19
    <2>1. Step = Send("refund", Deployer)
      BY <1>1, <1>14, LifecycleStepsAre
    <2>2. Step.do = "refund" /\ Step.who = Deployer /\ Step.codes = {"ok"}
      BY <2>1 DEF Send
    <2> QED
      BY <1>14, <2>2, AnswerOfStep, SecondRefunds
  <1>15. CASE pc = 20
    <2>1. Step = Refused(Send("refund", Deployer), {"RefundNotAvailable", "AlreadyRefunded"})
      BY <1>1, <1>15, LifecycleStepsAre
    <2>2. /\ Step.do = "refund" /\ Step.who = Deployer
          /\ Step.codes = {"RefundNotAvailable", "AlreadyRefunded"}
      BY <2>1 DEF Refused, Send
    <2> QED
      BY <1>15, <2>2, AnswerOfStep, SecondRefunds
  <1> QED
    BY <1>1, <1>3, <1>4, <1>5, <1>6, <1>7, <1>8, <1>9, <1>10, <1>11, <1>12, <1>13, <1>14,
       <1>15

\* Every altered proof is refused as what it is, and the true one settles.
LEMMA FirstProofs ==
    ASSUME VerifierTypeOK, FirstLocked
    PROVE  /\ Answer(SettleChecks("fixture", FinalSequence)) = "SettlementFixtureMismatch"
           /\ Answer(SettleChecks("period", FinalSequence)) = "NonFinalSettlementProof"
           /\ Answer(SettleChecks("timestamp", FinalSequence)) = "InvalidProofTimestamp"
           /\ Answer(SettleChecks("strategy", FinalSequence)) = "SettlementStrategyMismatch"
           /\ Answer(SettleChecks("root", FinalSequence)) = "InvalidDailyScoresRoot"
           /\ Answer(SettleChecks("statValue", FinalSequence)) = "TxlineRejected"
           /\ Answer(SettleChecks("merkleProof", FinalSequence)) = "TxlineRejected"
           /\ Answer(SettleChecks("nothing", FinalSequence)) = "ok"
  <1>1. VaultCovers(pool) /\ record = NoRecord /\ FinalSequence > 0 /\ pool.state = "Locked"
    BY Typed, OnCourseCovers DEF FirstLocked, Undecided
  <1> QED
    BY <1>1, SettleRefusesFixture, SettleRefusesPeriod, SettleRefusesTimestamp,
       SettleRefusesStrategy, SettleRefusesRoot, SettleRefusesStatValue,
       SettleRefusesMerkleProof, SettleAnswersOk

\* The refusals it expects without a code are TxLINE's, and the record's.
LEMMA ProofReasons ==
    ASSUME VerifierTypeOK, ended = "no", script = "proof", ProofOnCourse
    PROVE  /\ pc \in {15, 16} => StepAnswer(Step) = "TxlineRejected"
           /\ pc = 20 => StepAnswer(Step) = "AccountAlreadyInitialized"
  <1>1. pc \in 1 .. 23 /\ Step = ProofSteps[pc]
    BY StepIs
  <1>2. ASSUME NEW altered, Step = Refused(SendProof(altered), AnyReason)
        PROVE  StepAnswer(Step) = Answer(SettleChecks(altered, FinalSequence))
    <2>1. Step.do = "settle" /\ Step.altered = altered
      BY <1>2 DEF Refused, SendProof, Send
    <2> QED
      BY <2>1, AnswerOfStep
  <1>3. CASE pc \in {15, 16}
    <2>1. FirstLocked
      BY <1>3 DEF ProofOnCourse
    <2>2. /\ pc = 15 => Step = Refused(SendProof("statValue"), AnyReason)
          /\ pc = 16 => Step = Refused(SendProof("merkleProof"), AnyReason)
      BY <1>1, ProofStepsAre
    <2> QED
      BY <1>2, <1>3, <2>1, <2>2, FirstProofs
  <1>4. CASE pc = 20
    <2>1. Step = Refused(SendProof("nothing"), AnyReason)
      BY <1>1, <1>4, ProofStepsAre
    <2>2. record # NoRecord
      BY <1>4 DEF ProofOnCourse, FirstSettled, Decided, RecordOfTheProof, NoRecord, None
    <2> QED
      BY <1>2, <1>4, <2>1, <2>2, SettleAgain
  <1> QED
    BY <1>3, <1>4

\* No step of the proof verifier surprises it.
LEMMA ProofExpects ==
    ASSUME VerifierTypeOK, ended = "no", script = "proof", ProofOnCourse, ~Late, Waited
    PROVE  StepAnswer(Step) \in Step.codes
  <1> USE DEF ProofOnCourse
  <1>1. pc \in 1 .. 23 /\ Step = ProofSteps[pc]
    BY StepIs
  <1>2. /\ pc \in {4, 5, 6} => clock < Cutoff
        /\ pc = 8 => clock >= Cutoff
    <2>1. pc \in {4, 5, 6} => ~(clock >= Cutoff)
      BY DEF Late, Deposits
    <2>2. pc = 8 => clock >= Cutoff
      BY DEF Waited
    <2> QED
      BY <2>1, <2>2, Typed
  <1>3. CASE pc \in {1, 2, 3, 7, 23}
    <2>1. Step.do \in {"fetchProof", "fund", "readClock", "wait", "writeEvidence"}
      BY <1>1, <1>3, ProofStepsDo
    <2> QED
      BY <1>1, <1>3, <2>1, AnswerOfStep, ProofStepsExpect
  <1>4. CASE pc = 4
    <2>1. Step.do = "create"
      BY <1>1, <1>4, ProofStepsDo
    <2> QED
      BY <1>1, <1>2, <1>4, <2>1, AnswerOfStep, ProofStepsExpect, FreshCreated
  <1>5. CASE pc \in {5, 6}
    <2>1. /\ pc = 5 => Step = Deposit(Deployer, "Yes", YesStake)
          /\ pc = 6 => Step = Deposit(Participant, "No", NoStake)
      BY <1>1, ProofStepsAre
    <2>2. ASSUME NEW who, NEW side, NEW amount, Step = Deposit(who, side, amount)
          PROVE  StepAnswer(Step) = Answer(JoinChecks(who, side, amount))
      <3>1. /\ Step.do = "join" /\ Step.who = who
            /\ Step.side = side /\ Step.amount = amount
        BY <2>2 DEF Deposit, Send
      <3> QED
        BY <3>1, AnswerOfStep
    <2>3. Step.codes = {"ok"}
      BY <1>1, <1>5, ProofStepsExpect
    <2> QED
      BY <1>2, <1>5, <2>1, <2>2, <2>3, FirstDeposits
  <1>6. CASE pc = 8
    <2>1. Step.do = "lock"
      BY <1>1, <1>6, ProofStepsDo
    <2> QED
      BY <1>1, <1>2, <1>6, <2>1, AnswerOfStep, ProofStepsExpect, FirstLocks
  <1>7. CASE pc = 9
    <2>1. Step = Refused(Send("demoOutcome", Deployer), {"UnverifiedSettlementDisabled"})
      BY <1>1, <1>7, ProofStepsAre
    <2>2. Step.do = "demoOutcome" /\ Step.codes = {"UnverifiedSettlementDisabled"}
      BY <2>1 DEF Refused, Send
    <2>3. Answer(DemoOutcomeChecks(FinalSequence)) = "UnverifiedSettlementDisabled"
      <3>1. FirstLocked /\ VaultCovers(pool)
        BY <1>7, OnCourseCovers
      <3>2. pool.demoMode = FALSE
        BY <3>1 DEF FirstLocked, FirstPool
      <3> QED
        BY <3>1, <3>2, DemoOutcomeDisabled
    <2> QED
      BY <2>2, <2>3, AnswerOfStep
  <1>8. ASSUME NEW altered, NEW codes, Step = Refused(SendProof(altered), codes)
        PROVE  /\ StepAnswer(Step) = Answer(SettleChecks(altered, FinalSequence))
               /\ Step.codes = codes
    <2>1. Step.do = "settle" /\ Step.altered = altered /\ Step.codes = codes
      BY <1>8 DEF Refused, SendProof, Send
    <2> QED
      BY <2>1, AnswerOfStep
  <1>9. CASE pc \in 10 .. 14
    <2>1. FirstLocked
      BY <1>9
    <2>2. /\ pc = 10 => Step = Refused(SendProof("fixture"), {"SettlementFixtureMismatch"})
          /\ pc = 11 => Step = Refused(SendProof("period"), {"NonFinalSettlementProof"})
          /\ pc = 12 => Step = Refused(SendProof("timestamp"), {"InvalidProofTimestamp"})
          /\ pc = 13 => Step = Refused(SendProof("strategy"), {"SettlementStrategyMismatch"})
          /\ pc = 14 => Step = Refused(SendProof("root"), {"InvalidDailyScoresRoot"})
      BY <1>1, ProofStepsAre
    <2> QED
      BY <1>8, <1>9, <2>1, <2>2, FirstProofs
  <1>10. CASE pc \in {15, 16, 20}
    <2>1. Step.codes = AnyReason
      BY <1>1, <1>10, ProofStepsExpect
    <2>2. StepAnswer(Step) \in {"TxlineRejected", "AccountAlreadyInitialized"}
      BY <1>10, ProofReasons DEF ProofOnCourse
    <2> QED
      BY <2>1, <2>2 DEF AnyReason
  <1>11. CASE pc = 17
    <2>1. Step.do = "readPool" /\ Step.codes = {"ok"}
      BY <1>1, <1>11, ProofStepsDo, ProofStepsExpect
    <2>2. Untouched
      BY <1>11 DEF FirstLocked, Undecided, Untouched
    <2> QED
      BY <2>1, <2>2, AnswerOfReads
  <1>12. CASE pc \in {18, 19}
    <2>1. Step.do \in {"settle", "simulate"} /\ Step.codes = {"ok"}
      BY <1>1, <1>12, ProofStepsDo, ProofStepsExpect
    <2>2. Step.altered = "nothing"
      <3>1. ProofSteps[18].altered = "nothing" /\ ProofSteps[19].altered = "nothing"
        BY ProofStepsAre DEF Send, SendProof
      <3> QED
        BY <1>1, <1>12, <3>1
    <2>3. FirstLocked
      BY <1>12
    <2> QED
      BY <2>1, <2>2, <2>3, AnswerOfStep, FirstProofs
  <1>13. CASE pc = 21
    <2>1. Step.do = "readRecord" /\ Step.codes = {"ok"}
      BY <1>1, <1>13, ProofStepsDo, ProofStepsExpect
    <2>2. RecordOfTheProof
      BY <1>13 DEF FirstSettled, Decided
    <2> QED
      BY <2>1, <2>2, AnswerOfReads
  <1>14. CASE pc = 22
    <2>1. Step = Send("claim", Deployer)
      BY <1>1, <1>14, ProofStepsAre
    <2>2. Step.do = "claim" /\ Step.who = Deployer /\ Step.codes = {"ok"}
      BY <2>1 DEF Send
    <2> QED
      BY <1>14, <2>2, AnswerOfStep, FirstClaims
  <1> QED
    BY <1>1, <1>3, <1>4, <1>5, <1>6, <1>7, <1>9, <1>10, <1>11, <1>12, <1>13, <1>14

-----------------------------------------------------------------------------
(* Once others have interfered the script throws at the step that needs the *)
(* pool as it was                                                           *)

\* The lifecycle verifier only waits on.
LEMMA SpoiltLifecycle ==
    ASSUME VerifierTypeOK, ended = "no", script = "lifecycle", Spoilt, pc # 6
    PROVE  StepAnswer(Step) \notin Step.codes
  <1>1. pc \in 1 .. 21 /\ Step = LifecycleSteps[pc]
    BY StepIs
  <1>2. \/ pc \in {4, 5, 7, 8, 17} /\ pool.state # "Open"
        \/ pc \in {9, 18} /\ pool.state \notin Unresolved
    BY <1>1 DEF Spoilt, NeedsOpen, NeedsLocked
  <1>3. CASE pc \in {4, 5, 17}
    <2>1. Step.do = "join" /\ Step.codes = {"ok"}
      BY <1>1, <1>3, LifecycleStepsDo, LifecycleStepsExpect
    <2> QED
      BY <1>2, <1>3, <2>1, AnswerOfStep, JoinRefused
  <1>4. CASE pc = 7
    <2>1. LifecycleSteps[7].do = "join" /\ LifecycleSteps[7].codes = {"CutoffPassed"}
      BY LifecycleStepsAre DEF Refused, Deposit, Send
    <2> QED
      BY <1>1, <1>2, <1>4, <2>1, AnswerOfStep, JoinRefused
  <1>5. CASE pc = 8
    <2>1. Step.do = "lock" /\ Step.codes = {"ok"}
      BY <1>1, <1>5, LifecycleStepsDo, LifecycleStepsExpect
    <2> QED
      BY <1>2, <1>5, <2>1, AnswerOfStep, LockRefused
  <1>6. CASE pc = 9
    <2>1. Step.do = "demoOutcome" /\ Step.codes = {"ok"}
      BY <1>1, <1>6, LifecycleStepsDo, LifecycleStepsExpect
    <2>2. pool.state # "Locked"
      BY <1>2, <1>6 DEF Unresolved
    <2> QED
      BY <2>1, <2>2, AnswerOfStep, DemoOutcomeRefused
  <1>7. CASE pc = 18
    <2>1. Step.do = "cancel" /\ Step.codes = {"ok"}
      BY <1>1, <1>7, LifecycleStepsDo, LifecycleStepsExpect
    <2> QED
      BY <1>2, <1>7, <2>1, AnswerOfStep, CancelRefused
  <1> QED
    BY <1>2, <1>3, <1>4, <1>5, <1>6, <1>7

\* The proof verifier waits on, and has its altered proofs refused.
LEMMA SpoiltProof ==
    ASSUME VerifierTypeOK, ended = "no", script = "proof", Spoilt,
           pc # 7, pc \notin 9 .. 16
    PROVE  StepAnswer(Step) \notin Step.codes
  <1>1. pc \in 1 .. 23 /\ Step = ProofSteps[pc]
    BY StepIs
  <1>2. \/ pc \in {5, 6, 8} /\ pool.state # "Open"
        \/ pc \in 17 .. 19 /\ pool.state \notin Unresolved
    BY <1>1 DEF Spoilt, NeedsOpen, NeedsLocked
  <1>3. CASE pc \in {5, 6}
    <2>1. Step.do = "join" /\ Step.codes = {"ok"}
      BY <1>1, <1>3, ProofStepsDo, ProofStepsExpect
    <2> QED
      BY <1>2, <1>3, <2>1, AnswerOfStep, JoinRefused
  <1>4. CASE pc = 8
    <2>1. Step.do = "lock" /\ Step.codes = {"ok"}
      BY <1>1, <1>4, ProofStepsDo, ProofStepsExpect
    <2> QED
      BY <1>2, <1>4, <2>1, AnswerOfStep, LockRefused
  <1>5. CASE pc = 17
    <2>1. Step.do = "readPool" /\ Step.codes = {"ok"}
      BY <1>1, <1>5, ProofStepsDo, ProofStepsExpect
    <2>2. ~Untouched
      BY <1>2, <1>5 DEF Untouched, Unresolved
    <2> QED
      BY <2>1, <2>2, AnswerOfReads
  <1>6. CASE pc \in {18, 19}
    <2>1. Step.do \in {"settle", "simulate"} /\ Step.codes = {"ok"}
      BY <1>1, <1>6, ProofStepsDo, ProofStepsExpect
    <2>2. pool.state # "Locked"
      BY <1>2, <1>6 DEF Unresolved
    <2> QED
      BY <2>1, <2>2, AnswerOfStep, SettleRefused
  <1> QED
    BY <1>2, <1>3, <1>4, <1>5, <1>6

\* What spoils a run spoils it until the step that throws.
LEMMA SpoiltAdvances ==
    ASSUME VerifierTypeOK, Advance, Spoilt
    PROVE  Spoilt'
  <1>1. ended = "no" /\ StepAnswer(Step) \in Step.codes
    BY DEF Advance
  <1>2. CASE script = "lifecycle"
    <2>1. pc = 6
      BY <1>1, <1>2, SpoiltLifecycle
    <2>2. UNCHANGED <<pool, script>> /\ pc' = 7
      BY <1>2, <2>1, LifecycleMoves DEF chain
    <2> QED
      BY <1>2, <2>1, <2>2 DEF Spoilt, NeedsOpen, NeedsLocked
  <1>3. CASE script = "proof"
    <2>1. pc = 7 \/ pc \in 9 .. 16
      BY <1>1, <1>3, SpoiltProof
    <2>2. UNCHANGED <<pool, script>> /\ pc' = pc + 1
      BY <1>3, <2>1, ProofMoves DEF chain
    <2> QED
      BY <1>3, <2>1, <2>2 DEF Spoilt, NeedsOpen, NeedsLocked
  <1> QED
    BY <1>2, <1>3 DEF VerifierTypeOK

\* A proof verifier that is late has its pool or its deposits refused.
LEMMA LateThrows ==
    ASSUME VerifierTypeOK, ended = "no", script = "proof", Late, OnCourse \/ Spoilt
    PROVE  StepAnswer(Step) \notin Step.codes
  <1>1. pc \in 4 .. 6 /\ Step = ProofSteps[pc] /\ clock >= Cutoff
    BY StepIs DEF Late, Deposits
  <1>2. CASE pc = 4
    <2>1. Step.do = "create" /\ Step.codes = {"ok"}
      BY <1>1, <1>2, ProofStepsDo, ProofStepsExpect
    <2>2. ~(Cutoff > clock)
      BY <1>1, Typed
    <2> QED
      BY <2>1, <2>2, AnswerOfStep, CreateRefused
  <1>3. CASE pc \in {5, 6} /\ Spoilt
    BY <1>3, SpoiltProof
  <1>4. CASE pc \in {5, 6} /\ OnCourse
    <2>1. Step.do = "join" /\ Step.codes = {"ok"}
      BY <1>1, <1>4, ProofStepsDo, ProofStepsExpect
    <2>2. pool.cutoff = Cutoff
      BY <1>4 DEF OnCourse, ProofOnCourse, FirstOpen, FirstPool
    <2>3. ~(clock < pool.cutoff)
      BY <1>1, <2>2, Typed
    <2> QED
      BY <2>1, <2>3, AnswerOfStep, JoinTooLate
  <1> QED
    BY <1>1, <1>2, <1>3, <1>4

-----------------------------------------------------------------------------
(* The invariant is inductive                                               *)

\* A cutoff that has just been chosen is still to come.
LEMMA ReadClockIsEarly ==
    ASSUME VerifierTypeOK, now' = clock, clock' = clock
    PROVE  ~(clock' >= Cutoff')
  BY Typed, VerifierAssumption DEF Cutoff

\* A script on course stays on course while its steps answer as it expects.
LEMMA AdvanceKeepsCourse ==
    ASSUME VerifierTypeOK, StaysOnCourse, Advance
    PROVE  StaysOnCourse'
  <1>1. /\ ended = "no" /\ StepAnswer(Step) \in Step.codes /\ clock' = clock
        /\ ended' # "failed" /\ UNCHANGED <<script, disturbed>> /\ pc' = pc + 1
    BY LandKeepsClock DEF Advance, GoOn, history
  <1>2. OnCourse \/ (disturbed /\ Spoilt)
    BY <1>1 DEF StaysOnCourse
  <1>3. OnCourse' \/ (disturbed' /\ Spoilt')
    <2>1. CASE OnCourse
      <3>1. OnCourse'
        BY <1>1, <2>1, LifecycleAdvances, ProofAdvances DEF OnCourse, VerifierTypeOK
      <3> QED
        BY <3>1
    <2>2. CASE disturbed /\ Spoilt
      BY <1>1, <2>2, SpoiltAdvances
    <2> QED
      BY <1>2, <2>1, <2>2
  <1>4. ~Late => ~Late'
    <2>1. ASSUME ~Late, script = "lifecycle" PROVE ~Late'
      <3>1. pc' \in {3, 16} => ~(clock' >= Cutoff')
        BY <1>1, <2>1, LifecycleMoves, ReadClockIsEarly
      <3>2. pc' \in {4, 5, 17} => Deposits /\ Cutoff' = Cutoff
        BY <1>1, <2>1, LifecycleMoves DEF Deposits, Cutoff
      <3> QED
        BY <1>1, <2>1, <3>1, <3>2 DEF Late, Deposits
    <2>2. ASSUME ~Late, script = "proof" PROVE ~Late'
      <3>1. pc' = 4 => ~(clock' >= Cutoff')
        BY <1>1, <2>2, ProofMoves, ReadClockIsEarly
      <3>2. pc' \in {5, 6} => Deposits /\ Cutoff' = Cutoff
        BY <1>1, <2>2, ProofMoves DEF Deposits, Cutoff
      <3> QED
        BY <1>1, <2>2, <3>1, <3>2 DEF Late, Deposits
    <2> QED
      BY <2>1, <2>2 DEF VerifierTypeOK
  <1>5. script = "proof" /\ disturbed => Spoilt'
    BY <1>1, <1>2, LateThrows, SpoiltAdvances DEF StaysOnCourse
  <1>6. Waited'
    <2>1. CASE script = "lifecycle"
      <3>1. pc \in 1 .. 21
        BY <2>1, LifecycleMoves
      <3>2. pc' \in {7, 8} => clock' >= Cutoff'
        BY <1>1, <2>1, <3>1, LifecycleMoves DEF StaysOnCourse, Waited, Cutoff
      <3> QED
        BY <1>1, <2>1, <3>2 DEF Waited
    <2>2. CASE script = "proof"
      <3>1. pc' = 8 => clock' >= Cutoff'
        BY <1>1, <2>2, ProofMoves DEF Cutoff
      <3> QED
        BY <1>1, <2>2, <3>1 DEF Waited
    <2> QED
      BY <2>1, <2>2 DEF VerifierTypeOK
  <1> QED
    BY <1>1, <1>3, <1>4, <1>5, <1>6 DEF StaysOnCourse

\* What it notes on its way is what the chain says.
LEMMA AdvanceKeepsNotes ==
    ASSUME VerifierInv, Advance
    PROVE  KeepsNotes'
  <1> USE DEF VerifierInv
  <1>1. ended = "no" /\ evidence = {} /\ pc' = pc + 1
    BY DEF Advance, GoOn, KeepsNotes
  <1>2. CASE script = "lifecycle"
    <2>1. pc \in 1 .. 21 /\ evidence' = {}
      BY <1>1, <1>2, LifecycleMoves
    <2>2. CASE pc = 14
      <3>1. pool.state = "Closed" /\ pool.remainingPool = 0
        <4>1. OnCourse
          BY <1>1, <1>2, <2>2 DEF StaysOnCourse, Spoilt, NeedsOpen, NeedsLocked
        <4> QED
          BY <1>2, <2>2, <4>1 DEF OnCourse, LifecycleOnCourse, FirstPaid
      <3> QED
        BY <1>1, <1>2, <2>1, <2>2, <3>1, LifecycleMoves DEF KeepsNotes
    <2>3. CASE pc # 14
      <3>1. settledPool' = settledPool
        BY <1>2, <2>3, LifecycleMoves
      <3> QED
        BY <1>1, <2>1, <3>1 DEF KeepsNotes
    <2> QED
      BY <2>2, <2>3
  <1>3. CASE script = "proof"
    <2>1. pc \in 1 .. 23 /\ settledPool' = settledPool /\ script' = script
      BY <1>3, ProofMoves
    <2>2. CASE pc = 23
      <3>1. /\ evidence' = {WrittenEvidence} /\ ended' = "done"
            /\ UNCHANGED <<pool, position, record, wallet>>
        BY <1>3, <2>2, ProofMoves DEF chain
      <3>2. ForReceipt' = ForReceipt
        BY <3>1 DEF ForReceipt, Evidence, Received
      <3>3. \A n \in 1 .. 22 : answers'[n] = answers[n]
        <4>1. answers' = [answers EXCEPT ![pc] = StepAnswer(Step)]
          BY DEF Advance, GoOn
        <4>2. DOMAIN answers = 1 .. 23
          BY <1>3 DEF VerifierTypeOK, LastPc
        <4> QED
          BY <2>2, <4>1, <4>2
      <3>4. WrittenEvidence' = WrittenEvidence
        BY <3>2, <3>3 DEF WrittenEvidence
      <3> QED
        BY <1>1, <1>3, <2>1, <2>2, <3>1, <3>4 DEF KeepsNotes
    <2>3. CASE pc # 23
      <3>1. evidence' = {}
        BY <1>1, <1>3, <2>3, ProofMoves
      <3> QED
        BY <1>1, <2>1, <3>1 DEF KeepsNotes
    <2> QED
      BY <2>2, <2>3
  <1> QED
    BY <1>2, <1>3 DEF VerifierInv, VerifierTypeOK

\* Where the pool of a run that has not failed is unresolved, its script needs it.
LEMMA UnresolvedIsNeeded ==
    ASSUME VerifierTypeOK, StaysOnCourse, ended # "failed", pool.state \in Unresolved
    PROVE  /\ NeedsOpen \/ NeedsLocked
           /\ pool.state = "Open" =>
                 NeedsOpen \/ (script = "lifecycle" /\ pc = 18 /\ OnCourse)
           /\ pc < LastPc
  <1>1. CASE Spoilt
    BY <1>1 DEF Spoilt, NeedsOpen, NeedsLocked, Unresolved, VerifierTypeOK, LastPc
  <1>2. CASE OnCourse /\ script = "proof"
    <2>1. pc \in 1 .. 24 /\ LastPc = 24
      BY <1>2 DEF VerifierTypeOK, LastPc
    <2>2. pc \in 5 .. 19 /\ (pool.state = "Open" => pc \in 5 .. 8)
      BY <1>2, <2>1
      DEF OnCourse, ProofOnCourse, Fresh, FreshPool, FirstOpen, FirstLocked, FirstSettled,
          FirstPaid, Unresolved
    <2> QED
      BY <1>2, <2>1, <2>2 DEF NeedsOpen, NeedsLocked
  <1>3. CASE OnCourse /\ script = "lifecycle"
    <2>1. pc \in 1 .. 22 /\ LastPc = 22
      BY <1>3 DEF VerifierTypeOK, LastPc
    <2>2. pc \in 4 .. 9 \cup {17, 18} /\ (pool.state = "Open" => pc \in 4 .. 8 \cup {17, 18})
      BY <1>3, <2>1
      DEF OnCourse, LifecycleOnCourse, Fresh, FreshPool, FirstOpen, FirstLocked, FirstSettled,
          FirstPaid, SecondPool, SecondRefunded, Unresolved
    <2> QED
      BY <1>3, <2>1, <2>2 DEF NeedsOpen, NeedsLocked
  <1> QED
    BY <1>1, <1>2, <1>3 DEF StaysOnCourse, VerifierTypeOK

\* While the accounts stay as they are, so does what the script has to say.
LEMMA SameView ==
    ASSUME UNCHANGED <<chain, verifier>>
    PROVE  /\ OnCourse' = OnCourse /\ Spoilt' = Spoilt /\ Deposits' = Deposits
           /\ Cutoff' = Cutoff /\ KeepsNotes' = KeepsNotes
  <1>1. SameScript /\ UNCHANGED chain /\ UNCHANGED <<pool, position, record, wallet, vault>>
    BY DEF verifier, SameScript, chain
  <1>2. UNCHANGED <<script, pc, ended, now, settledPool, answers, evidence>>
    BY DEF verifier
  <1>3. OnCourse' = OnCourse
    BY <1>1, <1>2, CourseKept, SameCourse DEF OnCourse, LifecycleOnCourse, ProofOnCourse
  <1>4. Spoilt' = Spoilt /\ Deposits' = Deposits
    BY <1>1, <1>2 DEF Spoilt, NeedsOpen, NeedsLocked, Deposits
  <1>5. WrittenEvidence' = WrittenEvidence
    <2>1. ForReceipt' = ForReceipt
      BY <1>1 DEF ForReceipt, Evidence, Received
    <2> QED
      BY <1>2, <2>1 DEF WrittenEvidence
  <1>6. KeepsNotes' = KeepsNotes
    BY <1>2, <1>5 DEF KeepsNotes
  <1> QED
    BY <1>1, <1>3, <1>4, <1>6, SameCourse

\* Undisturbed, no script throws; and whoever throws has noted nothing since.
LEMMA ThrowKeepsInv ==
    ASSUME VerifierInv, Throw \/ LoseConnection \/ WaitTimesOut
    PROVE  StaysOnCourse' /\ KeepsNotes'
  <1> USE DEF VerifierInv
  <1>1. /\ ended = "no" /\ ended' = "failed" /\ clock' = clock
        /\ UNCHANGED <<script, pc, now, settledPool, evidence>>
    BY LandKeepsClock DEF Throw, LoseConnection, WaitTimesOut
  <1>2. disturbed' \/ lost'
    <2>1. CASE LoseConnection \/ WaitTimesOut
      BY <2>1 DEF LoseConnection, WaitTimesOut
    <2>2. CASE Throw
      <3>1. disturbed' = disturbed /\ StepAnswer(Step) \notin Step.codes
        BY <2>2 DEF Throw, history
      <3>2. SUFFICES ASSUME ~disturbed PROVE FALSE
        BY <3>1
      <3>3. OnCourse /\ ~Late /\ Waited
        BY <1>1, <3>2 DEF StaysOnCourse
      <3> QED
        BY <1>1, <3>1, <3>3, LifecycleExpects, ProofExpects DEF OnCourse, VerifierTypeOK
    <2> QED
      BY <2>1, <2>2
  <1>3. Waited'
    BY <1>1 DEF StaysOnCourse, Waited, Cutoff
  <1>4. evidence = {}
    BY <1>1 DEF KeepsNotes
  <1>5. KeepsNotes'
    BY <1>1, <1>4 DEF KeepsNotes
  <1> QED
    BY <1>1, <1>2, <1>3, <1>5 DEF StaysOnCourse

\* A verifier that stops before it creates anything has nothing to answer for.
LEMMA PreflightKeepsInv ==
    ASSUME VerifierInv, PreflightOnly
    PROVE  StaysOnCourse' /\ KeepsNotes'
  <1> USE DEF VerifierInv
  <1>1. /\ ended = "no" /\ script = "proof" /\ ended' = "done"
        /\ UNCHANGED <<pool, position, record, wallet, vault, clock, script, pc, now,
                       settledPool, evidence, disturbed>>
    BY DEF PreflightOnly, chain, history
  <1>2. OnCourse' = OnCourse /\ Spoilt' = Spoilt /\ Late' = Late /\ Waited' = Waited
    <2>1. SameScript /\ UNCHANGED chain
      BY <1>1 DEF SameScript, chain
    <2> QED
      BY <1>1, <2>1, CourseKept, SameCourse
      DEF OnCourse, LifecycleOnCourse, ProofOnCourse, Spoilt, NeedsOpen, NeedsLocked, Late,
          Deposits, Waited
  <1>3. evidence = {}
    BY <1>1 DEF KeepsNotes
  <1>4. KeepsNotes'
    BY <1>1, <1>3 DEF KeepsNotes
  <1> QED
    BY <1>1, <1>2, <1>4 DEF StaysOnCourse

\* Time that passes makes a script late at worst, and that disturbs it.
LEMMA TickKeepsInv ==
    ASSUME VerifierInv, ChainTick
    PROVE  StaysOnCourse' /\ KeepsNotes'
  <1> USE DEF VerifierInv
  <1>1. /\ UNCHANGED <<chain, verifier>> /\ clock' = clock + 1
        /\ disturbed' = (disturbed \/ ComesTooLate) /\ lost' = lost
    BY DEF ChainTick, Tick, chain
  <1>2. /\ OnCourse' = OnCourse /\ Spoilt' = Spoilt /\ Deposits' = Deposits
        /\ Cutoff' = Cutoff /\ KeepsNotes' = KeepsNotes
        /\ UNCHANGED <<script, pc, ended, now>>
    BY <1>1, SameView DEF verifier
  <1>3. Late => Late'
    BY <1>1, <1>2, Typed DEF Late
  <1>4. Waited'
    BY <1>1, <1>2, Typed DEF StaysOnCourse, Waited
  <1>5. ASSUME ended = "no"
        PROVE  /\ Deposits => Step.do \in {"create", "join"}
               /\ script = "proof" /\ Step.do \in {"create", "join"} => Deposits
    <2>1. CASE script = "lifecycle"
      <3>1. pc \in 1 .. 21 /\ Step = LifecycleSteps[pc]
        BY <1>5, <2>1, StepIs
      <3> QED
        BY <2>1, <3>1, LifecycleStepsDo DEF Deposits
    <2>2. CASE script = "proof"
      <3>1. pc \in 1 .. 23 /\ Step = ProofSteps[pc]
        BY <1>5, <2>2, StepIs
      <3> QED
        BY <2>2, <3>1, ProofStepsDo DEF Deposits
    <2> QED
      BY <2>1, <2>2 DEF VerifierTypeOK
  <1>6. ended = "no" /\ Late' => disturbed'
    BY <1>1, <1>2, <1>5 DEF Late, ComesTooLate
  <1>7. ended # "failed" /\ script = "proof" /\ disturbed' => Spoilt \/ Late'
    <2>1. CASE disturbed
      BY <1>3, <2>1 DEF StaysOnCourse
    <2>2. CASE ended = "no" /\ ComesTooLate
      BY <1>2, <1>5, <2>2 DEF Late, ComesTooLate
    <2> QED
      BY <1>1, <2>1, <2>2 DEF ComesTooLate
  <1>8. disturbed => disturbed'
    BY <1>1
  <1>9. /\ ended' = "failed" => disturbed' \/ lost'
        /\ ended' # "failed" => OnCourse' \/ (disturbed' /\ Spoilt')
    BY <1>1, <1>2, <1>8 DEF StaysOnCourse
  <1> QED
    BY <1>2, <1>4, <1>6, <1>7, <1>9 DEF StaysOnCourse

\* Others can lock, settle or cancel the pool only while the script needs it,
\* and that spoils the run.
LEMMA OthersKeepInv ==
    ASSUME VerifierInv, KeeperSettles \/ StrangerLocks \/ StrangerCancels
    PROVE  StaysOnCourse' /\ KeepsNotes'
  <1> USE DEF VerifierInv
  <1>1. /\ pool.state \in Unresolved /\ clock' = clock /\ disturbed'
        /\ UNCHANGED <<script, pc, ended, now, settledPool, evidence>>
    BY DEF KeeperSettles, SettlePool, AcceptsOutcome, StrangerLocks, LockPool,
           StrangerCancels, CancelPool, AcceptsCancel, verifier, Unresolved
  <1>2. Waited'
    BY <1>1 DEF StaysOnCourse, Waited, Cutoff
  <1>3. ASSUME ended # "failed"
        PROVE  Spoilt' \/ (OnCourse' /\ script # "proof")
    <2>1. CASE KeeperSettles \/ StrangerCancels
      <3>1. pool'.state \notin Unresolved
        <4>1. CASE KeeperSettles
          <5>1. pool' = OutcomeRecorded(pool, "Yes", FinalSequence)
            BY <4>1 DEF KeeperSettles, SettlePool
          <5>2. pool'.state = OutcomeState(pool, "Yes")
            BY <5>1, Typed DEF OutcomeRecorded, PoolAccounts
          <5> QED
            BY <5>2 DEF OutcomeState, SettledFor, Unresolved
        <4>2. CASE StrangerCancels
          <5>1. pool'.state = IF pool.remainingPool = 0 THEN "Closed" ELSE "Cancelled"
            BY <4>2, Typed DEF StrangerCancels, CancelPool, PoolAccounts
          <5> QED
            BY <5>1 DEF Unresolved
        <4> QED
          BY <2>1, <4>1, <4>2
      <3>2. NeedsOpen \/ NeedsLocked
        BY <1>1, <1>3, UnresolvedIsNeeded
      <3>3. NeedsOpen' \/ NeedsLocked'
        BY <1>1, <3>2 DEF NeedsOpen, NeedsLocked
      <3> QED
        BY <3>1, <3>3 DEF Spoilt, Unresolved
    <2>2. CASE StrangerLocks
      <3>1. /\ pool.state = "Open" /\ pool' = [pool EXCEPT !.state = "Locked"]
            /\ UNCHANGED <<position, record, wallet, vault>>
        BY <2>2 DEF StrangerLocks, LockPool
      <3>2. /\ pool'.state = "Locked" /\ pool'.cutoff = pool.cutoff
            /\ pool'.sideAmount = pool.sideAmount
            /\ pool'.remainingPool = pool.remainingPool
        BY <3>1, Typed DEF PoolAccounts
      <3>3. CASE NeedsOpen
        BY <1>1, <3>2, <3>3 DEF Spoilt, NeedsOpen
      <3>4. CASE script = "lifecycle" /\ pc = 18 /\ OnCourse
        <4>1. SecondPool(Unresolved, SecondStake)
          BY <3>4 DEF OnCourse, LifecycleOnCourse
        <4>2. SameScript
          BY <1>1 DEF SameScript
        <4>3. SecondPool(Unresolved, SecondStake)'
          BY <3>1, <3>2, <4>1, <4>2, SameCourse DEF SecondPool, Staked, Unresolved
        <4>4. OnCourse'
          BY <1>1, <3>4, <4>3 DEF OnCourse, LifecycleOnCourse
        <4> QED
          BY <3>4, <4>4
      <3> QED
        BY <1>1, <1>3, <3>1, <3>3, <3>4, UnresolvedIsNeeded
    <2> QED
      BY <2>1, <2>2
  <1>4. evidence = {}
    <2>1. ASSUME evidence # {} PROVE FALSE
      <3>1. ended = "done" /\ script = "proof" /\ pc = 24
        BY <2>1 DEF KeepsNotes
      <3>2. pc < LastPc
        BY <1>1, <3>1, UnresolvedIsNeeded
      <3> QED
        BY <3>1, <3>2 DEF LastPc
    <2> QED
      BY <2>1
  <1>5. KeepsNotes'
    BY <1>1, <1>4 DEF KeepsNotes
  <1> QED
    BY <1>1, <1>2, <1>3, <1>5 DEF StaysOnCourse

\* A lost call that is taken for a refusal leaves the chain and the course as
\* they are: what was sent could only have been refused.
LEMMA MistakeKeepsInv ==
    ASSUME VerifierInv, MistakeForRefusal
    PROVE  StaysOnCourse' /\ HeardReasons' /\ KeepsNotes'
  <1> USE DEF VerifierInv
  <1>1. /\ script = "proof" /\ pc \in {15, 16, 20} /\ Step = ProofSteps[pc]
        /\ ended = "no" /\ pc' = pc + 1 /\ lost'
        /\ answers' = [answers EXCEPT ![pc] = NetworkError]
        /\ UNCHANGED <<script, ended, now, settledPool, evidence, disturbed>>
    BY MistakesAre DEF MistakeForRefusal, GoOn
  <1>2. UNCHANGED <<chain, clock>>
    <2>1. StepAnswer(Step) # "ok"
      <3>1. CASE pc \in {15, 16}
        BY <1>1, <3>1, AlteredNeverSettles
      <3>2. CASE pc = 20
        <4>1. OnCourse
          BY <1>1, <3>2 DEF StaysOnCourse, Spoilt, NeedsOpen, NeedsLocked
        <4> QED
          BY <1>1, <3>2, <4>1, ProofReasons DEF OnCourse
      <3> QED
        BY <1>1, <3>1, <3>2
    <2> QED
      BY <2>1 DEF MistakeForRefusal, Land
  <1>3. OnCourse => OnCourse'
    <2>1. SameScript /\ UNCHANGED chain
      BY <1>1, <1>2 DEF SameScript
    <2> QED
      BY <1>1, <2>1, CourseKept DEF OnCourse, ProofOnCourse
  <1>4. Spoilt => Spoilt'
    BY <1>1, <1>2 DEF Spoilt, NeedsOpen, NeedsLocked, chain
  <1>5. ~Late /\ ~Late' /\ Waited'
    BY <1>1 DEF Late, Deposits, Waited
  <1>6. StaysOnCourse'
    BY <1>1, <1>3, <1>4, <1>5 DEF StaysOnCourse
  <1>7. HeardReasons'
    <2>1. DOMAIN answers = 1 .. 23
      BY <1>1 DEF VerifierTypeOK, LastPc
    <2>2. \A n \in {15, 16, 20} :
             answers'[n] = IF n = pc THEN NetworkError ELSE answers[n]
      BY <1>1, <2>1
    <2> QED
      BY <1>1, <2>2 DEF HeardReasons, Reason
  <1>8. KeepsNotes'
    <2>1. evidence = {}
      BY <1>1 DEF KeepsNotes
    <2> QED
      BY <1>1, <2>1 DEF KeepsNotes
  <1> QED
    BY <1>6, <1>7, <1>8

\* What was heard is noted, and undisturbed it is what the program has to say.
LEMMA AdvanceHears ==
    ASSUME VerifierInv, Advance
    PROVE  HeardReasons'
  <1> USE DEF VerifierInv
  <1> SUFFICES ASSUME script' = "proof", ~disturbed'
               PROVE  HeardReasons'
    BY DEF HeardReasons
  <1>1. /\ ended = "no" /\ UNCHANGED <<script, disturbed, lost>> /\ pc' = pc + 1
        /\ answers' = [answers EXCEPT ![pc] = StepAnswer(Step)]
    BY DEF Advance, GoOn, history
  <1>2. script = "proof" /\ ~disturbed /\ pc \in 1 .. 23 /\ DOMAIN answers = 1 .. 23
    <2>1. script = "proof" /\ ~disturbed
      BY <1>1
    <2>2. pc \in 1 .. 23
      BY <1>1, <2>1, StepIs
    <2>3. DOMAIN answers = 1 .. 23
      <3>1. LastPc - 1 = 23
        BY <2>1 DEF LastPc
      <3> QED
        BY <3>1 DEF VerifierTypeOK
    <2> QED
      BY <2>1, <2>2, <2>3
  <1>3. ProofOnCourse
    BY <1>1, <1>2 DEF StaysOnCourse, OnCourse
  <1>4. /\ pc \in {15, 16} => StepAnswer(Step) = "TxlineRejected"
        /\ pc = 20 => StepAnswer(Step) = "AccountAlreadyInitialized"
    BY <1>1, <1>2, <1>3, ProofReasons
  <1>5. \A n \in {15, 16, 20} :
           answers'[n] = IF n = pc THEN StepAnswer(Step) ELSE answers[n]
    BY <1>1, <1>2
  <1> QED
    BY <1>1, <1>2, <1>4, <1>5 DEF HeardReasons, Reason

\* No other step changes what was heard.
LEMMA OthersKeepReasons ==
    ASSUME HeardReasons, UNCHANGED <<script, pc, answers>>,
           disturbed => disturbed', lost => lost'
    PROVE  HeardReasons'
  BY DEF HeardReasons, Reason

\* Every step keeps the invariant.
LEMMA VerifierInduction ==
    ASSUME VerifierInv, VerifierNext
    PROVE  VerifierInv'
  <1>1. VerifierTypeOK'
    BY VerifierTypeInduction DEF VerifierInv
  <1>2. CASE MistakeForRefusal
    BY <1>1, <1>2, MistakeKeepsInv DEF VerifierInv
  <1>3. ASSUME ~MistakeForRefusal
        PROVE  StaysOnCourse' /\ KeepsNotes'
    <2>1. CASE Advance
      BY <2>1, AdvanceKeepsCourse, AdvanceKeepsNotes DEF VerifierInv
    <2>2. CASE Throw \/ LoseConnection \/ WaitTimesOut
      BY <2>2, ThrowKeepsInv
    <2>3. CASE PreflightOnly
      BY <2>3, PreflightKeepsInv
    <2>4. CASE ChainTick
      BY <2>4, TickKeepsInv
    <2>5. CASE KeeperSettles \/ StrangerLocks \/ StrangerCancels
      BY <2>5, OthersKeepInv
    <2> QED
      BY <1>3, <2>1, <2>2, <2>3, <2>4, <2>5 DEF VerifierNext
  <1>4. ASSUME ~MistakeForRefusal
        PROVE  HeardReasons'
    <2>1. CASE Advance
      BY <2>1, AdvanceHears
    <2>2. CASE Throw \/ LoseConnection \/ WaitTimesOut \/ PreflightOnly
      BY <2>2, OthersKeepReasons
      DEF VerifierInv, Throw, LoseConnection, WaitTimesOut, PreflightOnly, history
    <2>3. CASE ChainTick \/ KeeperSettles \/ StrangerLocks \/ StrangerCancels
      <3>1. UNCHANGED verifier /\ lost' = lost
        BY <2>3 DEF ChainTick, KeeperSettles, StrangerLocks, StrangerCancels
      <3>2. disturbed => disturbed'
        BY <2>3 DEF ChainTick, KeeperSettles, StrangerLocks, StrangerCancels
      <3>3. UNCHANGED <<script, pc, answers>>
        BY <3>1 DEF verifier
      <3> QED
        BY <3>1, <3>2, <3>3, OthersKeepReasons DEF VerifierInv
    <2> QED
      BY <1>4, <2>1, <2>2, <2>3 DEF VerifierNext
  <1> QED
    BY <1>1, <1>2, <1>3, <1>4 DEF VerifierInv

\* So does a step of something else.
LEMMA VerifierStutters ==
    ASSUME VerifierInv, UNCHANGED verifierVars
    PROVE  VerifierInv'
  <1> USE DEF verifierVars
  <1>1. /\ OnCourse' = OnCourse /\ Spoilt' = Spoilt /\ Deposits' = Deposits
        /\ Cutoff' = Cutoff /\ KeepsNotes' = KeepsNotes
        /\ UNCHANGED <<script, pc, ended, now, answers, clock, disturbed, lost>>
    BY SameView DEF verifier, history
  <1>2. StaysOnCourse'
    BY <1>1 DEF VerifierInv, StaysOnCourse, Late, Waited
  <1>3. TypeOK'
    BY TypeInduction DEF VerifierInv, VerifierTypeOK, vars, chain
  <1>4. HeardReasons'
    BY <1>1, OthersKeepReasons DEF VerifierInv
  <1> QED
    BY <1>1, <1>2, <1>3, <1>4 DEF VerifierInv, VerifierTypeOK, LastPc

\* A verifier starts with a pool nobody has touched and nothing noted.
LEMMA VerifierStarts ==
    ASSUME VerifierInit
    PROVE  VerifierInv
  <1>1. TypeOK
    BY InitTypeOK DEF VerifierInit
  <1>2. Fresh
    BY DEF VerifierInit, Init, Fresh, FreshPool
  <1>3. OnCourse
    BY <1>2 DEF VerifierInit, OnCourse, LifecycleOnCourse, ProofOnCourse
  <1>4. VerifierTypeOK
    <2>1. LastPc = 24 \/ LastPc = 22
      BY DEF LastPc
    <2>2. /\ script \in {"lifecycle", "proof"} /\ pc = 1 /\ ended = "no" /\ now = 0
          /\ disturbed = FALSE /\ lost = FALSE
          /\ answers = [n \in 1 .. Len(Steps) |-> None]
      BY DEF VerifierInit
    <2>3. pc \in 1 .. LastPc /\ pc < LastPc
      BY <2>1, <2>2
    <2>4. DOMAIN answers = 1 .. LastPc - 1
      <3>1. Len(LifecycleSteps) = 21 /\ Len(ProofSteps) = 23
        BY LifecycleStepsAre, ProofStepsAre
      <3>2. DOMAIN answers = 1 .. Len(Steps)
        BY <2>2
      <3>3. CASE script = "proof"
        <4>1. Steps = ProofSteps /\ LastPc = 24
          BY <3>3 DEF Steps, LastPc
        <4>2. Len(Steps) = LastPc - 1
          BY <3>1, <4>1
        <4> QED
          BY <3>2, <4>2
      <3>4. CASE script # "proof"
        <4>1. Steps = LifecycleSteps /\ LastPc = 22
          BY <3>4 DEF Steps, LastPc
        <4>2. Len(Steps) = LastPc - 1
          BY <3>1, <4>1
        <4> QED
          BY <3>2, <4>2
      <3> QED
        BY <3>3, <3>4
    <2> QED
      BY <1>1, <2>2, <2>3, <2>4 DEF VerifierTypeOK
  <1>5. StaysOnCourse
    BY <1>3 DEF VerifierInit, StaysOnCourse, Late, Deposits, Waited
  <1> QED
    BY <1>4, <1>5 DEF VerifierInit, VerifierInv, HeardReasons, KeepsNotes

\* The invariant holds in every state of every run, whatever the stakes, the
\* delays and the order in which the chain, the network and the others act.
THEOREM VerifierInvariant == VerifierSpec => []VerifierInv
  <1>1. VerifierInit => VerifierInv
    BY VerifierStarts
  <1>2. VerifierInv /\ [VerifierNext]_verifierVars => VerifierInv'
    BY VerifierInduction, VerifierStutters
  <1> QED
    BY <1>1, <1>2, PTL DEF VerifierSpec

-----------------------------------------------------------------------------
(* What follows from it                                                     *)

\* The two devnet verifiers expect exactly what the escrow program does: a run
\* ends in an error only if the network or the clock failed it or somebody else
\* used its pool.
THEOREM VerifierFailsOnlyForCause == VerifierSpec => []FailsOnlyForCause
  <1>1. VerifierInv => FailsOnlyForCause
    BY DEF VerifierInv, StaysOnCourse, FailsOnlyForCause
  <1> QED
    BY <1>1, VerifierInvariant, PTL

\* Nobody has interfered with a proof verifier that wrote its evidence.
LEMMA WrittenUndisturbed ==
    ASSUME VerifierInv, evidence # {}
    PROVE  /\ evidence = {WrittenEvidence} /\ script = "proof"
           /\ pc = 24 /\ FirstPaid /\ ~disturbed
  <1>1. evidence = {WrittenEvidence} /\ script = "proof" /\ pc = 24 /\ ended = "done"
    BY DEF VerifierInv, KeepsNotes
  <1>2. ~Spoilt /\ ~Late
    BY <1>1 DEF Spoilt, NeedsOpen, NeedsLocked, Late, Deposits
  <1>3. OnCourse /\ ~disturbed
    BY <1>1, <1>2 DEF VerifierInv, StaysOnCourse
  <1> QED
    BY <1>1, <1>3 DEF OnCourse, ProofOnCourse

\* The winner of both stakes is owed both, whatever they are.
LEMMA WholePotIsOwed ==
    ASSUME NEW yes \in Nat \ {0}, NEW no \in Nat
    PROVE  ((yes + no) * yes) \div yes = yes + no
  <1> DEFINE sum == yes + no
             quotient == (sum * yes) \div yes
  <1>1. sum \in Nat
    OBVIOUS
  <1> HIDE DEF sum
  <1>2. sum * yes \in Nat
    BY <1>1
  <1>3. quotient = sum
    BY <1>1, <1>2
  <1> QED
    BY <1>3 DEF sum

\* The Proof Receipt page accepts what the proof verifier wrote.
LEMMA WrittenIsAccepted ==
    ASSUME VerifierTypeOK, FirstPaid, script = "proof"
    PROVE  IsAccepted(ForReceipt)
  <1> DEFINE stats == [i \in DOMAIN StatKeys |->
                          [key |-> StatKeys[i], period |-> FinalPeriod]]
             recorded == [sequence |-> record.sequence, action |-> "game_finalised",
                          statusId |-> FinalStatus, stats |-> stats]
             result == [recorded EXCEPT !.sequence = FinalSequence]
             validation == [proofAccepted |-> TRUE,
                            predicateResult |-> record.winningSide = "Yes"]
             settlement == [observedSequence |-> record.sequence,
                            winningSide |-> record.winningSide]
             payout == [sideAmount |-> pool.sideAmount, userStake |-> YesStake,
                        claimedAmount |-> {YesStake + NoStake}]
  <1>1. record.winningSide = "Yes" /\ record.sequence = FinalSequence
    BY DEF FirstPaid, Decided, RecordOfTheProof
  <1>2. /\ ForReceipt.status = "verified"
        /\ ForReceipt.market.statKeys = StatKeys
        /\ result \in ForReceipt.result
        /\ validation \in ForReceipt.validation
        /\ settlement \in ForReceipt.settlement
        /\ payout \in ForReceipt.payout
    <2>1. Evidence(Deployer).result = {recorded}
      BY DEF Evidence
    <2>2. /\ ForReceipt.status = "verified"
          /\ ForReceipt.market.statKeys = StatKeys
          /\ validation \in ForReceipt.validation
      BY DEF ForReceipt, Evidence
    <2>3. settlement \in ForReceipt.settlement /\ payout \in ForReceipt.payout
      BY DEF ForReceipt, Evidence
    <2>4. ForReceipt.result =
             {[r EXCEPT !.sequence = FinalSequence] : r \in Evidence(Deployer).result}
      BY DEF ForReceipt, Evidence
    <2> HIDE DEF recorded, settlement, payout, validation
    <2> QED
      BY <2>1, <2>2, <2>3, <2>4
  <1>3. IsOfTheCondition(result, StatKeys)
    <2>1. /\ DOMAIN StatKeys = 1 .. Len(StatKeys) /\ Len(StatKeys) \in Nat
          /\ StatKeys \in Seq(Nat)
      BY VerifierAssumption
    <2>2. stats \in Seq([key : Nat, period : {FinalPeriod}]) /\ Len(stats) = Len(StatKeys)
      <3>1. stats = [i \in 1 .. Len(StatKeys) |->
                        [key |-> StatKeys[i], period |-> FinalPeriod]]
        BY <2>1
      <3>2. \A i \in 1 .. Len(StatKeys) : StatKeys[i] \in Nat
        BY <2>1
      <3> HIDE DEF stats
      <3> QED
        BY <2>1, <3>1, <3>2
    <2>3. \A i \in DOMAIN StatKeys :
             stats[i].key = StatKeys[i] /\ stats[i].period = FinalPeriod
      OBVIOUS
    <2> HIDE DEF stats
    <2>4. /\ result.sequence = FinalSequence /\ result.action = "game_finalised"
          /\ result.statusId = FinalStatus /\ result.stats = stats
      OBVIOUS
    <2> HIDE DEF result
    <2> QED
      BY <2>2, <2>3, <2>4, Typed DEF IsOfTheCondition
  <1>4. IsSettledByIt(settlement, validation, result)
    <2> HIDE DEF stats
    <2> QED
      BY <1>1 DEF IsSettledByIt
  <1>5. PayoutAgrees(settlement, payout)
    <2>1. /\ payout.sideAmount["Yes"] = YesStake /\ payout.sideAmount["No"] = NoStake
          /\ payout.userStake = YesStake /\ payout.claimedAmount = {YesStake + NoStake}
          /\ settlement.winningSide = "Yes"
      BY <1>1 DEF FirstPaid
    <2> HIDE DEF payout, settlement
    <2>2. CalculatedClaim(settlement, payout) = YesStake + NoStake
      BY <2>1, Typed, WholePotIsOwed DEF CalculatedClaim
    <2> QED
      BY <2>1, <2>2, Typed DEF PayoutAgrees
  <1>6. StatKeys # <<>>
    BY VerifierAssumption
  <1> HIDE DEF recorded, result, validation, settlement, payout
  <1> QED
    BY <1>2, <1>3, <1>4, <1>5, <1>6 DEF IsAccepted

\* What a verifier writes down is true: evidence is accepted by the receipt
\* page, names the payout the winner really got from a pool that is closed and
\* empty, and comes from a run nobody interfered with; and the pools a lifecycle
\* verifier reports on are closed and have paid everything out.
THEOREM VerifierEvidenceIsTrue == VerifierSpec => []EvidenceIsTrue
  <1>1. ASSUME VerifierInv, NEW e \in evidence
        PROVE  /\ ~disturbed /\ IsAccepted(e.forReceipt)
               /\ pool.state = "Closed" /\ vault = 0
               /\ \A payout \in e.forReceipt.payout :
                     payout.claimedAmount = {wallet[Deployer] - Minted[Deployer] + YesStake}
               /\ Reason(e.rejected.statValue, "TxlineRejected")
               /\ Reason(e.rejected.merkleProof, "TxlineRejected")
               /\ Reason(e.replayRejectedAs, "AccountAlreadyInitialized")
    <2>1. e = WrittenEvidence /\ script = "proof" /\ pc = 24 /\ FirstPaid /\ ~disturbed
      BY <1>1, WrittenUndisturbed
    <2>2. VerifierTypeOK
      BY <1>1 DEF VerifierInv
    <2>3. wallet[Deployer] - Minted[Deployer] + YesStake = YesStake + NoStake
      BY <2>1, <2>2, Typed DEF FirstPaid
    <2>4. /\ e.forReceipt = ForReceipt
          /\ e.rejected.statValue = answers[15] /\ e.rejected.merkleProof = answers[16]
          /\ e.replayRejectedAs = answers[20]
      BY <2>1 DEF WrittenEvidence
    <2>5. \A payout \in ForReceipt.payout : payout.claimedAmount = {YesStake + NoStake}
      BY DEF ForReceipt, Evidence
    <2>6. /\ Reason(answers[15], "TxlineRejected") /\ Reason(answers[16], "TxlineRejected")
          /\ Reason(answers[20], "AccountAlreadyInitialized")
      BY <1>1, <2>1 DEF VerifierInv, HeardReasons
    <2>7. IsAccepted(ForReceipt)
      BY <2>1, <2>2, WrittenIsAccepted
    <2>8. /\ ~disturbed /\ IsAccepted(e.forReceipt)
          /\ pool.state = "Closed" /\ vault = 0
          /\ \A payout \in e.forReceipt.payout :
                payout.claimedAmount = {wallet[Deployer] - Minted[Deployer] + YesStake}
      BY <2>1, <2>3, <2>4, <2>5, <2>7 DEF FirstPaid
    <2> QED
      BY <2>4, <2>6, <2>8
  <1>2. ASSUME VerifierInv, ended = "done", script = "lifecycle"
        PROVE  /\ \A p \in Reported : p.state = "Closed" /\ p.remainingPool = 0
               /\ vault = 0 /\ wallet[Deployer] = Minted[Deployer] + NoStake
    <2>1. pc = 22
      BY <1>2 DEF VerifierInv, VerifierTypeOK, LastPc
    <2>2. SecondRefunded
      BY <1>2, <2>1
      DEF VerifierInv, StaysOnCourse, OnCourse, LifecycleOnCourse, Spoilt, NeedsOpen,
          NeedsLocked
    <2> QED
      BY <1>2, <2>2 DEF VerifierInv, KeepsNotes, Reported, SecondRefunded
  <1>3. VerifierInv => EvidenceIsTrue
    BY <1>1, <1>2 DEF EvidenceIsTrue
  <1> QED
    BY <1>3, VerifierInvariant, PTL
=============================================================================
