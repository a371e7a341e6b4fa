--------------------------- MODULE ConditionEngine ---------------------------
(***************************************************************************)
(* packages/condition-engine: what a condition says (Holds), what the        *)
(* compiler makes of one (CompileCondition), and how the compiled form is    *)
(* evaluated locally (EvaluateCondition).                                    *)
(*                                                                           *)
(* A leg is a record with all the fields any kind of leg has; those of other *)
(* kinds are NoParticipant, NoComparison and 0.  The commitment, the hash of *)
(* the canonical JSON, is the normalised sequence of legs itself.            *)
(***************************************************************************)
EXTENDS Integers, Sequences, FiniteSets

NoParticipant == 0
NoComparison == "none"
Participants == {1, 2}
Comparisons == {"atLeast", "atMost"}
Totals == {"totalGoals", "totalCorners"}
Kinds == {"participantWins", "winningMargin", "bothTeamsScore"} \cup Totals

MaxLegs == 2
MaxGoalThreshold == 30
MaxWinningMargin == 30
MaxCornerThreshold == 60

(* TXLINE_STAT_KEYS *)
Goals == <<1, 2>>
Corners == <<7, 8>>
StatKeys == {1, 2, 7, 8}
Missing == -1

KeysOf(kind) == IF kind = "totalCorners" THEN Corners ELSE Goals

-----------------------------------------------------------------------------
(* What a leg says of a score, a function from stat keys to numbers *)

Opponent(participant) == 3 - participant

Total(kind, score) == score[KeysOf(kind)[1]] + score[KeysOf(kind)[2]]

Lead(participant, score) == score[Goals[participant]] - score[Goals[Opponent(participant)]]

Holds(leg, score) ==
    CASE leg.kind = "participantWins" -> Lead(leg.participant, score) > 0
      [] leg.kind = "winningMargin" -> Lead(leg.participant, score) >= leg.threshold
      [] leg.kind = "bothTeamsScore" -> score[Goals[1]] > 0 /\ score[Goals[2]] > 0
      [] leg.kind \in Totals ->
            IF leg.comparison = "atLeast"
            THEN Total(leg.kind, score) >= leg.threshold
            ELSE Total(leg.kind, score) <= leg.threshold

AllHold(legs, score) == \A i \in DOMAIN legs : Holds(legs[i], score)

-----------------------------------------------------------------------------
(* Normalisation.  Operators named Faulty... are plausible slips in the one  *)
(* that follows them; nothing uses them.                                     *)

Bounds(kind) ==
    CASE kind = "totalGoals" -> 0 .. MaxGoalThreshold
      [] kind = "totalCorners" -> 0 .. MaxCornerThreshold
      [] kind = "winningMargin" -> 1 .. MaxWinningMargin
      [] OTHER -> {0}

WellFormed(leg) ==
    /\ leg.participant \in IF leg.kind \in {"participantWins", "winningMargin"}
                           THEN Participants ELSE {NoParticipant}
    /\ leg.comparison \in IF leg.kind \in Totals THEN Comparisons ELSE {NoComparison}
    /\ leg.threshold \in Bounds(leg.kind)

FaultyAlwaysTrue(leg) == FALSE
AlwaysTrue(leg) ==
    leg.kind \in Totals /\ leg.comparison = "atLeast" /\ leg.threshold = 0

LegError(leg) ==
    IF leg.kind \notin Kinds THEN "UNSUPPORTED_CONDITION"
    ELSE IF ~WellFormed(leg) THEN "INVALID_SCHEMA"
    ELSE IF AlwaysTrue(leg) THEN "ALREADY_DECIDED"
    ELSE "none"

KindRank(kind) ==
    CASE kind = "participantWins" -> 0
      [] kind = "winningMargin" -> 1
      [] kind = "bothTeamsScore" -> 2
      [] kind = "totalGoals" -> 3
      [] kind = "totalCorners" -> 4

\* Which of two different numbers below 100 comes first in canonical JSON, where
\* it is followed by "}", which sorts after every digit: 10 before 1, before 2.
TextBefore(m, n) ==
    LET digit(k) == IF k < 10 THEN k ELSE k \div 10 IN
    IF digit(m) # digit(n) THEN digit(m) < digit(n)
    ELSE IF m < 10 \/ n < 10 THEN m >= 10
    ELSE m < n

\* Legs of one kind are ordered by their canonical JSON, whose keys are sorted:
\* comparison, kind, participant, threshold.
FaultyComesBefore(left, right) == TRUE
ComesBefore(left, right) ==
    IF left.kind # right.kind THEN KindRank(left.kind) < KindRank(right.kind)
    ELSE IF left.comparison # right.comparison THEN left.comparison = "atLeast"
    ELSE IF left.participant # right.participant THEN left.participant < right.participant
    ELSE TextBefore(left.threshold, right.threshold)

Sorted(legs) ==
    IF Len(legs) = 2 /\ legs[1] # legs[2] /\ ~ComesBefore(legs[1], legs[2])
    THEN <<legs[2], legs[1]>>
    ELSE legs

Winner(leg) ==
    IF leg.kind \in {"participantWins", "winningMargin"} THEN leg.participant
    ELSE NoParticipant

\* Without a minimum 0 stands for null, which no maximum is below.
FaultyMinimumGoals(leg) ==
    CASE leg.kind = "participantWins" -> 1
      [] leg.kind = "winningMargin" -> leg.threshold + 1
      [] leg.kind = "bothTeamsScore" -> 2
      [] leg.kind = "totalGoals" /\ leg.comparison = "atLeast" -> leg.threshold
      [] OTHER -> 0

MinimumGoals(leg) ==
    CASE leg.kind = "participantWins" -> 1
      [] leg.kind = "winningMargin" -> leg.threshold
      [] leg.kind = "bothTeamsScore" -> 2
      [] leg.kind = "totalGoals" /\ leg.comparison = "atLeast" -> leg.threshold
      [] OTHER -> 0

LimitsGoals(leg) == leg.kind = "totalGoals" /\ leg.comparison = "atMost"

\* validatePair: the legs cannot both be true.
Contradict(left, right) ==
    \/ /\ Winner(left) # NoParticipant /\ Winner(right) # NoParticipant
       /\ Winner(left) # Winner(right)
    \/ /\ left.kind = right.kind /\ left.kind \in Totals
       /\ \E lower, upper \in {left, right} :
             /\ lower.comparison = "atLeast" /\ upper.comparison = "atMost"
             /\ lower.threshold > upper.threshold
    \/ /\ LimitsGoals(left) \/ LimitsGoals(right)
       /\ LET limit == IF LimitsGoals(left) THEN left.threshold ELSE right.threshold
              other == IF left.kind = "totalGoals" THEN right ELSE left
          IN  MinimumGoals(other) > limit

Rejected(error) == [status |-> "Rejected", error |-> error, legs |-> <<>>,
                    statKeys |-> <<>>, strategy |-> <<>>]

\* The first leg in error decides the error of the whole condition.
ConditionError(legs) ==
    IF Len(legs) < 1 \/ Len(legs) > MaxLegs THEN "INVALID_LEG_COUNT"
    ELSE IF LegError(legs[1]) # "none" THEN LegError(legs[1])
    ELSE IF LegError(legs[Len(legs)]) # "none" THEN LegError(legs[Len(legs)])
    ELSE IF Len(legs) = 1 THEN "none"
    ELSE IF legs[1] = legs[2] THEN "DUPLICATE_LEG"
    ELSE IF Contradict(Sorted(legs)[1], Sorted(legs)[2]) THEN "CONTRADICTORY_LEGS"
    ELSE "none"

-----------------------------------------------------------------------------
(* Compilation.  A predicate compares one stat, or the sum or difference of *)
(* two, with a threshold; its indexes count from 1 here.                    *)

Predicate(op, indexes, comparison, threshold) ==
    [op |-> op, indexes |-> indexes, comparison |-> comparison, threshold |-> threshold]

FaultyStatKeysOf(legs) ==
    IF Len(legs) = 1 THEN KeysOf(legs[1].kind)
    ELSE KeysOf(legs[2].kind) \o KeysOf(legs[1].kind)

\* The keys of all legs in ascending order: goals, corners, or both.
StatKeysOf(legs) ==
    LET lists == {KeysOf(legs[i].kind) : i \in DOMAIN legs} IN
    IF lists = {Goals} THEN Goals
    ELSE IF lists = {Corners} THEN Corners
    ELSE Goals \o Corners

IndexOf(statKeys, key) == CHOOSE i \in DOMAIN statKeys : statKeys[i] = key

FaultyTotalPredicate(leg, indexes) ==
    IF leg.comparison = "atLeast"
    THEN Predicate("add", indexes, "greaterThan", leg.threshold)
    ELSE Predicate("add", indexes, "lessThan", leg.threshold + 1)

TotalPredicate(leg, indexes) ==
    IF leg.comparison = "atLeast"
    THEN Predicate("add", indexes, "greaterThan", leg.threshold - 1)
    ELSE Predicate("add", indexes, "lessThan", leg.threshold + 1)

FaultyCompileLeg(leg, statKeys) ==
    LET first == IndexOf(statKeys, KeysOf(leg.kind)[1])
        second == IndexOf(statKeys, KeysOf(leg.kind)[2])
    IN  IF leg.kind = "bothTeamsScore"
        THEN <<Predicate("single", <<first>>, "greaterThan", 0)>>
        ELSE <<TotalPredicate(leg, <<first, second>>)>>

CompileLeg(leg, statKeys) ==
    LET first == IndexOf(statKeys, KeysOf(leg.kind)[1])
        second == IndexOf(statKeys, KeysOf(leg.kind)[2])
        ahead == IF leg.participant = 1 THEN <<first, second>> ELSE <<second, first>>
    IN  CASE leg.kind = "participantWins" ->
               <<Predicate("subtract", ahead, "greaterThan", 0)>>
          [] leg.kind = "winningMargin" ->
               <<Predicate("subtract", ahead, "greaterThan", leg.threshold - 1)>>
          [] leg.kind = "bothTeamsScore" ->
               <<Predicate("single", <<first>>, "greaterThan", 0),
                 Predicate("single", <<second>>, "greaterThan", 0)>>
          [] leg.kind \in Totals -> <<TotalPredicate(leg, <<first, second>>)>>

\* Two legs on the same stats would evaluate them twice.
SharesStats(legs) == Len(legs) = 2 /\ KeysOf(legs[1].kind) = KeysOf(legs[2].kind)

References(strategy) ==
    UNION {{<<p, j>> : j \in DOMAIN strategy[p].indexes} : p \in DOMAIN strategy}

\* Every stat is referenced, and only once.
CoversOnce(count, strategy) ==
    /\ \A r \in References(strategy) : strategy[r[1]].indexes[r[2]] \in 1 .. count
    /\ \A i \in 1 .. count :
          Cardinality({r \in References(strategy) : strategy[r[1]].indexes[r[2]] = i}) = 1

CompileSorted(legs) ==
    LET statKeys == StatKeysOf(legs)
        first == CompileLeg(legs[1], statKeys)
        strategy == IF Len(legs) = 1 THEN first ELSE first \o CompileLeg(legs[2], statKeys)
    IN  IF SharesStats(legs) THEN Rejected("DUPLICATE_STAT_COVERAGE")
        ELSE IF ~CoversOnce(Len(statKeys), strategy) THEN Rejected("STRATEGY_INVARIANT")
        ELSE [status |-> "Compiled", error |-> "none", legs |-> legs,
              statKeys |-> statKeys, strategy |-> strategy]

CompileCondition(legs) ==
    IF ConditionError(legs) # "none" THEN Rejected(ConditionError(legs))
    ELSE CompileSorted(Sorted(legs))

-----------------------------------------------------------------------------
(* Evaluation: values are those of the stat keys, in their order             *)

Measured(predicate, values) ==
    LET left == values[predicate.indexes[1]] IN
    CASE predicate.op = "single" -> left
      [] predicate.op = "add" -> left + values[predicate.indexes[2]]
      [] predicate.op = "subtract" -> left - values[predicate.indexes[2]]

Satisfied(predicate, values) ==
    IF predicate.comparison = "greaterThan"
    THEN Measured(predicate, values) > predicate.threshold
    ELSE Measured(predicate, values) < predicate.threshold

SatisfiesAll(strategy, values) == \A i \in DOMAIN strategy : Satisfied(strategy[i], values)

FaultyMissingKeys(compiled, score) == {}
MissingKeys(compiled, score) ==
    {k \in StatKeys : score[k] = Missing /\ \E i \in DOMAIN compiled.statKeys : compiled.statKeys[i] = k}

EvaluateCondition(compiled, score) ==
    IF MissingKeys(compiled, score) # {} THEN "missingStats"
    ELSE IF SatisfiesAll(compiled.strategy,
                         [i \in DOMAIN compiled.statKeys |-> score[compiled.statKeys[i]]])
    THEN "yes" ELSE "no"
=============================================================================
