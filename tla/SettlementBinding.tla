-------------------------- MODULE SettlementBinding --------------------------
(***************************************************************************)
(* From a condition to the side it pays: legs are compiled, a pool is           *)
(* created whose SettlementConfig stores the compiled strategy, the match is    *)
(* played, and somebody sends settle_pool a proof (state.rs, txline.rs and      *)
(* instructions.rs of programs/proof_play over packages/condition-engine; the   *)
(* browser's encodeStrategy; the keeper's and the adapter's checks of a proof). *)
(*                                                                              *)
(* A proof is reduced to what validate_payload looks at and to the leaves it    *)
(* carries.  TxLINE vouches for the leaves: one with the full-game period       *)
(* has the final value of its stat.  The state of the pool is PoolEscrow's.     *)
(***************************************************************************)
EXTENDS ConditionEngine, TxlineRecords

CONSTANTS
    Thresholds,     \* thresholds a creator may type
    StatValues,     \* values of the stats of a match
    ProbeValues,    \* values of the stats in matches only imagined
    ThisFixture, OtherFixture,
    OtherScore      \* the final stats of OtherFixture

ASSUME ValuesAssumption ==
    /\ Thresholds \subseteq Int
    /\ StatValues \subseteq Nat /\ ProbeValues \subseteq Nat
    /\ OtherScore \in [StatKeys -> Nat]
    /\ ThisFixture # OtherFixture

VARIABLES
    draft,      \* the legs the creator asked for
    compiled,   \* what the compiler made of them
    config,     \* the SettlementConfig of the pool
    half,       \* the stats of the first half, once it is over
    full,       \* the final stats, once the match is over
    record      \* the SettlementRecord

vars == <<draft, compiled, config, half, full, record>>

NotCompiled == [Rejected("none") EXCEPT !.status = "NotCompiled"]
NoConfig == [commitment |-> <<>>, statKeys |-> <<>>, strategy |-> <<>>]
NoRecord == [side |-> "None", statKeys |-> <<>>, statValues |-> <<>>]
NoScore == <<>>

Scores == [StatKeys -> StatValues]
ProbeScores == [StatKeys -> ProbeValues]

Leg(kind, participant, comparison, threshold) ==
    [kind |-> kind, participant |-> participant, comparison |-> comparison,
     threshold |-> threshold]

DraftLegs ==
    {Leg("participantWins", p, NoComparison, 0) : p \in Participants \cup {3}}
    \cup {Leg("winningMargin", p, NoComparison, t) : p \in Participants, t \in Thresholds}
    \cup {Leg(k, NoParticipant, NoComparison, 0) : k \in {"bothTeamsScore", "totalCards"}}
    \cup {Leg(k, NoParticipant, c, t) : k \in Totals, c \in Comparisons, t \in Thresholds}

Drafts ==
    {<<>>} \cup {<<l>> : l \in DraftLegs} \cup (DraftLegs \X DraftLegs)
    \cup {<<l, l, l>> : l \in {Leg("bothTeamsScore", NoParticipant, NoComparison, 0)}}

(* A proof: the fixture it is about, whether its timestamps agree and its     *)
(* roots are set, the keys of its leaves in order, which of the leaves are of *)
(* the first half, not of the full game, and how many leaf indices it has.    *)
Payloads ==
    [fixture : {ThisFixture, OtherFixture}, sound : BOOLEAN,
     keys : {Goals, Corners, Goals \o Corners, <<2, 1>>, <<2, 1, 7, 8>>},
     ofHalf : {{}, {1}, 1 .. 4}, indices : {2, 4}]

Strategies == {config.strategy, <<Predicate("subtract", <<2, 1>>, "greaterThan", 0)>>}

Init ==
    /\ draft = <<>>
    /\ compiled = NotCompiled
    /\ config = NoConfig
    /\ half = NoScore
    /\ full = NoScore
    /\ record = NoRecord

-----------------------------------------------------------------------------
Compile(legs) ==
    /\ compiled.status = "NotCompiled"
    /\ draft' = legs
    /\ compiled' = CompileCondition(legs)
    /\ UNCHANGED <<config, half, full, record>>

\* The creator changes the legs: what was compiled before is replaced.
Edit ==
    /\ compiled.status # "NotCompiled"
    /\ config = NoConfig
    /\ draft' = <<>>
    /\ compiled' = NotCompiled
    /\ UNCHANGED <<config, half, full, record>>

MAX_SETTLEMENT_STATS == 4

\* SettlementConfig::initialize
ConfigAccepted(statKeys, strategy) ==
    /\ Len(statKeys) \in 1 .. MAX_SETTLEMENT_STATS
    /\ \A i \in DOMAIN statKeys : statKeys[i] \in StatKeys
    /\ \A i, j \in DOMAIN statKeys : i < j => statKeys[i] < statKeys[j]
    /\ Len(strategy) \in 1 .. MAX_SETTLEMENT_STATS
    /\ CoversOnce(Len(statKeys), strategy)

(* The strategy travels as numbers: encodeStrategy of the client names the  *)
(* variants by their places, and the program reads places of its own enums. *)
(* Faulty... operators are plausible slips; nothing uses them.              *)
FaultyComparisonsWritten == <<"lessThan", "greaterThan", "equalTo">>
ComparisonsWritten == <<"greaterThan", "lessThan", "equalTo">>
OperatorsWritten == <<"add", "subtract">>
ComparisonsRead == <<"greaterThan", "lessThan", "equalTo">>
OperatorsRead == <<"add", "subtract">>

PlaceOf(name, names) == CHOOSE i \in DOMAIN names : names[i] = name

EncodedPredicate(p) ==
    (IF p.op = "single" THEN <<0, p.indexes[1]>>
     ELSE <<1, p.indexes[1], p.indexes[2], PlaceOf(p.op, OperatorsWritten)>>)
    \o <<p.threshold, PlaceOf(p.comparison, ComparisonsWritten)>>

DecodedPredicate(data) ==
    IF data[1] = 0
    THEN Predicate("single", <<data[2]>>, ComparisonsRead[data[4]], data[3])
    ELSE Predicate(OperatorsRead[data[4]], <<data[2], data[3]>>,
                   ComparisonsRead[data[6]], data[5])

StrategyReceived(strategy) ==
    [i \in DOMAIN strategy |-> DecodedPredicate(EncodedPredicate(strategy[i]))]

CreatePool ==
    LET strategy == StrategyReceived(compiled.strategy) IN
    /\ compiled.status = "Compiled"
    /\ config = NoConfig
    /\ ConfigAccepted(compiled.statKeys, strategy)
    /\ config' = [commitment |-> compiled.legs, statKeys |-> compiled.statKeys,
                  strategy |-> strategy]
    /\ UNCHANGED <<draft, compiled, half, full, record>>

HalfTime(score) ==
    /\ config # NoConfig
    /\ half = NoScore
    /\ half' = score
    /\ UNCHANGED <<draft, compiled, config, full, record>>

FullTime(score) ==
    /\ half # NoScore
    /\ full = NoScore
    /\ \A k \in StatKeys : score[k] >= half[k]
    /\ full' = score
    /\ UNCHANGED <<draft, compiled, config, half, record>>

-----------------------------------------------------------------------------
(* validate_payload *)

FullGame(payload) == \A i \in DOMAIN payload.keys : i \notin payload.ofHalf

ValidPayload(payload, strategy) ==
    /\ strategy = config.strategy
    /\ payload.fixture = ThisFixture
    /\ payload.sound
    /\ payload.keys = config.statKeys
    /\ payload.indices = Len(config.statKeys)
    /\ FullGame(payload)

\* What the keeper sends on: a proof the adapter takes for what was asked for,
\* and SettlementKeeper for one of the pool's leaves at full game.
FaultyMatchesPool(answer) ==
    /\ answer.keys = config.statKeys
    /\ answer.ofHalf # DOMAIN answer.keys
MatchesPool(answer) ==
    /\ answer.keys = config.statKeys
    /\ answer.ofHalf \cap DOMAIN answer.keys = {}

KeeperSubmits(answer) ==
    /\ IsProofRequest(1, config.statKeys)
    /\ IsProofOf(answer, ThisFixture, config.statKeys)
    /\ MatchesPool(answer)

\* The values of the leaves, if TxLINE has all of them.
ScoreOf(payload, i) ==
    IF payload.fixture = OtherFixture THEN OtherScore
    ELSE IF i \in payload.ofHalf THEN half ELSE full

Published(payload) == \A i \in DOMAIN payload.keys : ScoreOf(payload, i) # NoScore

LeafValues(payload) ==
    [i \in DOMAIN payload.keys |-> ScoreOf(payload, i)[payload.keys[i]]]

\* validateStatV3 of the TxLINE program answers, and does not fail, for genuine
\* leaves under their day's root and a strategy that evaluates each of them once.
TxlineAnswers(payload, strategy, ownRoot) ==
    ownRoot /\ Published(payload) /\ CoversOnce(Len(payload.keys), strategy)

SettlePool(payload, strategy, ownRoot, sequence) ==
    /\ config # NoConfig
    /\ record = NoRecord
    /\ sequence > 0
    /\ ValidPayload(payload, strategy)
    /\ TxlineAnswers(payload, strategy, ownRoot)
    /\ record' = [side |-> IF SatisfiesAll(strategy, LeafValues(payload)) THEN "Yes" ELSE "No",
                  statKeys |-> payload.keys,
                  statValues |-> LeafValues(payload)]
    /\ UNCHANGED <<draft, compiled, config, half, full>>

Next ==
    \/ \E legs \in Drafts : Compile(legs)
    \/ Edit
    \/ CreatePool
    \/ \E score \in Scores : HalfTime(score) \/ FullTime(score)
    \/ \E payload \in Payloads, strategy \in Strategies,
          ownRoot \in BOOLEAN, sequence \in 0 .. 1 :
          SettlePool(payload, strategy, ownRoot, sequence)

Spec == Init /\ [][Next]_vars

-----------------------------------------------------------------------------
(* Properties.  Those of the compiler are about the state it has just made.   *)

FreshlyCompiled == compiled.status = "Compiled" /\ config = NoConfig

\* The strategy TxLINE will evaluate says, for every score, what the legs the
\* creator asked for say, and the local evaluation agrees with it.
CompiledMeansDraft ==
    FreshlyCompiled =>
       \A score \in ProbeScores :
          EvaluateCondition(compiled, score) = IF AllHold(draft, score) THEN "yes" ELSE "no"

\* Whatever compiles is accepted by the program's own checks of keys and
\* coverage, and no draft runs into the compiler's internal invariant.
AcceptedByProgram ==
    /\ compiled.error # "STRATEGY_INVARIANT"
    /\ FreshlyCompiled => ConfigAccepted(compiled.statKeys, compiled.strategy)

\* Two distinct valid legs are refused as contradictory exactly when no score
\* makes both true.
ContradictionsAreExact ==
    compiled.error \in {"none", "CONTRADICTORY_LEGS", "DUPLICATE_STAT_COVERAGE"} /\ draft # <<>> =>
       (compiled.error = "CONTRADICTORY_LEGS"
        <=> ~ \E score \in ProbeScores : AllHold(draft, score))

\* A condition that compiles is not decided before the match: some score makes
\* it true and some score makes it false.
AcceptedIsOpen ==
    FreshlyCompiled =>
       /\ \E score \in ProbeScores : AllHold(draft, score)
       /\ \E score \in ProbeScores : ~AllHold(draft, score)

\* The commitment, the keys and the strategy do not depend on the order in
\* which the creator gave the legs.
OrderIsIrrelevant ==
    FreshlyCompiled /\ Len(draft) = 2 =>
       CompileCondition(<<draft[2], draft[1]>>) = compiled

\* A local answer given while some stats are missing is never revised when they
\* come in.
MissingMeansUndecided ==
    FreshlyCompiled =>
       \A score \in ProbeScores, hidden \in SUBSET StatKeys :
          EvaluateCondition(compiled,
             [k \in StatKeys |-> IF k \in hidden THEN Missing ELSE score[k]])
          \in {"missingStats", EvaluateCondition(compiled, score)}

\* The side a settlement pays is the one the committed legs give for the final
\* stats of the pool's own match, in whatever order and with whatever leaves a
\* proof is sent; the record carries those stats.
SettledAsTheConditionSays ==
    record # NoRecord =>
       /\ full # NoScore
       /\ record.side = IF AllHold(config.commitment, full) THEN "Yes" ELSE "No"
       /\ \A i \in DOMAIN record.statKeys : record.statValues[i] = full[record.statKeys[i]]

\* Whatever TxLINE answers, the adapter, the keeper and the program agree on
\* which proofs bind a pool, each by checks of its own: the keeper submits no
\* proof that the program refuses, but for its timestamps and roots, and
\* withholds none that the program would take.
ProofAnswers ==
    {payload @@ [hashes |-> encoding] : payload \in Payloads, encoding \in {"bytes", "text"}}

KeeperAgreesWithProgram ==
    config # NoConfig /\ half = NoScore =>
       \A answer \in ProofAnswers :
          KeeperSubmits(answer) /\ answer.sound
          <=> ValidPayload(answer, config.strategy) /\ answer.hashes = "bytes"

-----------------------------------------------------------------------------
(* How the parts of the state hang together: the invariant that the          *)
(* properties follow from.                                                    *)

\* What is compiled is what the compiler makes of the draft that is shown.
CompiledIsOfTheDraft ==
    \/ draft = <<>> /\ compiled = NotCompiled
    \/ draft \in Drafts /\ compiled = CompileCondition(draft)

\* What the program stores is what the browser compiled, its predicates
\* included, which travel as numbers and are read back by the program.
ConfigIsAsCompiled ==
    config # NoConfig =>
       /\ compiled.status = "Compiled"
       /\ config = [commitment |-> compiled.legs, statKeys |-> compiled.statKeys,
                    strategy |-> compiled.strategy]

\* No match before the pool, no final score before half time.
MatchFollowsPool ==
    /\ half \in Scores \cup {NoScore} /\ full \in Scores \cup {NoScore}
    /\ half # NoScore => config # NoConfig
    /\ full # NoScore => half # NoScore

IInv ==
    /\ CompiledIsOfTheDraft
    /\ ConfigIsAsCompiled
    /\ MatchFollowsPool
    /\ SettledAsTheConditionSays
=============================================================================
