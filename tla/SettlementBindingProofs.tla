----------------------- MODULE SettlementBindingProofs -----------------------
(***************************************************************************)
(* Proofs about SettlementBinding and the ConditionEngine it extends: what   *)
(* its runs check for a few thresholds and scores holds for every threshold  *)
(* a creator may type and every score a match may have.                      *)
(***************************************************************************)
EXTENDS SettlementBinding, FiniteSetTheorems, SequenceTheorems, TLAPS

-----------------------------------------------------------------------------
(* Legs that pass validation                                               *)

\* What LegError lets through.
ValidLeg(leg) == leg.kind \in Kinds /\ WellFormed(leg) /\ ~AlwaysTrue(leg)

GoalKinds == Kinds \ {"totalCorners"}

\* A leg without an error is a valid one.
LEMMA NoErrorMeansValid ==
    ASSUME NEW leg
    PROVE  LegError(leg) = "none" <=> ValidLeg(leg)
BY DEF LegError, ValidLeg

\* What the fields of a valid leg may be.
LEMMA ThresholdsAreIntegers ==
    ASSUME NEW leg, ValidLeg(leg)
    PROVE  /\ leg.threshold \in Nat
           /\ leg.kind \in {"participantWins", "winningMargin"} => leg.participant \in {1, 2}
           /\ leg.kind \in Totals => leg.comparison \in Comparisons
           /\ leg.kind = "winningMargin" => leg.threshold >= 1
           /\ leg.kind \in Totals /\ leg.comparison = "atLeast" => leg.threshold >= 1
BY DEF ValidLeg, WellFormed, AlwaysTrue, Kinds, Totals, Bounds, MaxGoalThreshold,
       MaxCornerThreshold, MaxWinningMargin, Participants, Comparisons

\* The places of the keys in the three lists of keys there are.
LEMMA PlacesOfKeys ==
    /\ IndexOf(Goals, Goals[1]) = 1 /\ IndexOf(Goals, Goals[2]) = 2
    /\ IndexOf(Corners, Corners[1]) = 1 /\ IndexOf(Corners, Corners[2]) = 2
    /\ IndexOf(Goals \o Corners, Goals[1]) = 1 /\ IndexOf(Goals \o Corners, Goals[2]) = 2
    /\ IndexOf(Goals \o Corners, Corners[1]) = 3 /\ IndexOf(Goals \o Corners, Corners[2]) = 4
    /\ Goals \o Corners = <<1, 2, 7, 8>>
<1>1. Goals \o Corners = <<1, 2, 7, 8>>
    <2>1. /\ Goals \in Seq(Nat) /\ Len(Goals) = 2 /\ Goals[1] = 1 /\ Goals[2] = 2
          /\ Corners \in Seq(Nat) /\ Len(Corners) = 2 /\ Corners[1] = 7 /\ Corners[2] = 8
        BY DEF Goals, Corners
    <2>2. /\ Goals \o Corners \in Seq(Nat) /\ Len(Goals \o Corners) = 4
          /\ \A i \in 1 .. 4 :
                (Goals \o Corners)[i] = IF i <= 2 THEN Goals[i] ELSE Corners[i - 2]
        <3> DEFINE a == Goals
                   b == Corners
        <3>1. a \in Seq(Nat) /\ b \in Seq(Nat) /\ Len(a) = 2 /\ Len(b) = 2
            BY <2>1
        <3> HIDE DEF a, b
        <3>2. /\ a \o b \in Seq(Nat) /\ Len(a \o b) = Len(a) + Len(b)
              /\ \A i \in 1 .. Len(a) + Len(b) :
                    (a \o b)[i] = IF i <= Len(a) THEN a[i] ELSE b[i - Len(a)]
            BY <3>1, ConcatProperties
        <3>3. Len(a) + Len(b) = 4
            BY <3>1
        <3>4. /\ a \o b \in Seq(Nat) /\ Len(a \o b) = 4
              /\ \A i \in 1 .. 4 : (a \o b)[i] = IF i <= 2 THEN a[i] ELSE b[i - 2]
            BY <3>1, <3>2, <3>3
        <3> QED
            BY <3>4 DEF a, b
    <2> DEFINE both == Goals \o Corners
               list == <<1, 2, 7, 8>>
    <2>3. both[1] = 1 /\ both[2] = 2 /\ both[3] = 7 /\ both[4] = 8
        BY <2>1, <2>2
    <2>4. /\ list \in Seq(Nat) /\ Len(list) = 4
          /\ list[1] = 1 /\ list[2] = 2 /\ list[3] = 7 /\ list[4] = 8
        OBVIOUS
    <2> HIDE DEF both, list
    <2>5. both \in Seq(Nat) /\ Len(both) = 4
        BY <2>2 DEF both
    <2>6. \A i \in 1 .. Len(both) : both[i] = list[i]
        BY <2>3, <2>4, <2>5
    <2>7. both = list
        BY <2>4, <2>5, <2>6, SeqEqual
    <2> QED
        BY <2>7 DEF both, list
<1> QED
    BY <1>1 DEF IndexOf, Goals, Corners

-----------------------------------------------------------------------------
(* What a leg compiles to, given the places of its two keys                 *)

Coded(leg, first, second) ==
    CASE leg.kind = "participantWins" ->
           <<Predicate("subtract",
                       IF leg.participant = 1 THEN <<first, second>> ELSE <<second, first>>,
                       "greaterThan", 0)>>
      [] leg.kind = "winningMargin" ->
           <<Predicate("subtract",
                       IF leg.participant = 1 THEN <<first, second>> ELSE <<second, first>>,
                       "greaterThan", leg.threshold - 1)>>
      [] leg.kind = "bothTeamsScore" ->
           <<Predicate("single", <<first>>, "greaterThan", 0),
             Predicate("single", <<second>>, "greaterThan", 0)>>
      [] leg.kind \in Totals -> <<TotalPredicate(leg, <<first, second>>)>>

\* A leg is compiled to its predicates over the places of its two statistics.
LEMMA LegIsCoded ==
    ASSUME NEW leg, ValidLeg(leg)
    PROVE  /\ leg.kind \in GoalKinds =>
                 /\ CompileLeg(leg, Goals) = Coded(leg, 1, 2)
                 /\ CompileLeg(leg, Goals \o Corners) = Coded(leg, 1, 2)
           /\ leg.kind = "totalCorners" =>
                 /\ CompileLeg(leg, Corners) = Coded(leg, 1, 2)
                 /\ CompileLeg(leg, Goals \o Corners) = Coded(leg, 3, 4)
BY PlacesOfKeys DEF CompileLeg, Coded, KeysOf, GoalKinds

\* What each kind of leg says.
LEMMA WhatLegsSay ==
    ASSUME NEW leg, NEW score
    PROVE  /\ leg.kind = "participantWins" =>
                 (Holds(leg, score) <=> Lead(leg.participant, score) > 0)
           /\ leg.kind = "winningMargin" =>
                 (Holds(leg, score) <=> Lead(leg.participant, score) >= leg.threshold)
           /\ leg.kind = "bothTeamsScore" =>
                 (Holds(leg, score) <=> score[1] > 0 /\ score[2] > 0)
           /\ leg.kind \in Totals /\ leg.comparison = "atLeast" =>
                 (Holds(leg, score) <=> Total(leg.kind, score) >= leg.threshold)
           /\ leg.kind \in Totals /\ leg.comparison = "atMost" =>
                 (Holds(leg, score) <=> Total(leg.kind, score) <= leg.threshold)
<1>1. leg.kind = "participantWins" =>
         (Holds(leg, score) <=> Lead(leg.participant, score) > 0)
    BY DEF Holds, Totals
<1>2. leg.kind = "winningMargin" =>
         (Holds(leg, score) <=> Lead(leg.participant, score) >= leg.threshold)
    BY DEF Holds, Totals
<1>3. leg.kind = "bothTeamsScore" =>
         (Holds(leg, score) <=> score[1] > 0 /\ score[2] > 0)
    BY DEF Holds, Totals, Goals
<1>4. leg.kind \in Totals /\ leg.comparison = "atLeast" =>
         (Holds(leg, score) <=> Total(leg.kind, score) >= leg.threshold)
    BY DEF Holds, Totals
<1>5. leg.kind \in Totals /\ leg.comparison = "atMost" =>
         (Holds(leg, score) <=> Total(leg.kind, score) <= leg.threshold)
    BY DEF Holds, Totals
<1> QED
    BY <1>1, <1>2, <1>3, <1>4, <1>5

\* A coded leg says of the values at its places what the leg says of the score.
LEMMA CodedMeansLeg ==
    ASSUME NEW leg, ValidLeg(leg), NEW values, NEW score,
           NEW first \in Nat, NEW second \in Nat,
           values[first] = score[KeysOf(leg.kind)[1]],
           values[second] = score[KeysOf(leg.kind)[2]],
           values[first] \in Nat, values[second] \in Nat
    PROVE  SatisfiesAll(Coded(leg, first, second), values) <=> Holds(leg, score)
<1> DEFINE s == Coded(leg, first, second)
<1>1. /\ leg.kind \in Kinds
      /\ leg.threshold \in Nat
      /\ leg.kind \in {"participantWins", "winningMargin"} => leg.participant \in {1, 2}
      /\ leg.kind \in Totals => leg.comparison \in Comparisons
    BY ThresholdsAreIntegers DEF ValidLeg
<1>2. CASE leg.kind \in {"participantWins", "winningMargin"}
    <2>1. KeysOf(leg.kind) = <<1, 2>>
        BY <1>2 DEF KeysOf, Goals
    <2> DEFINE least == IF leg.kind = "participantWins" THEN 0 ELSE leg.threshold - 1
    <2>2. CASE leg.participant = 1
        <3>1. s = <<Predicate("subtract", <<first, second>>, "greaterThan", least)>>
            BY <1>2, <2>2 DEF Coded, Totals
        <3>2. SatisfiesAll(s, values) <=> values[first] - values[second] > least
            BY <3>1 DEF SatisfiesAll, Satisfied, Measured, Predicate
        <3>3. Lead(leg.participant, score) = values[first] - values[second]
            BY <2>1, <2>2 DEF Lead, Opponent, Goals
        <3> QED
            BY <1>1, <1>2, <3>2, <3>3, WhatLegsSay
    <2>3. CASE leg.participant = 2
        <3>1. s = <<Predicate("subtract", <<second, first>>, "greaterThan", least)>>
            BY <1>2, <2>3 DEF Coded, Totals
        <3>2. SatisfiesAll(s, values) <=> values[second] - values[first] > least
            BY <3>1 DEF SatisfiesAll, Satisfied, Measured, Predicate
        <3>3. Lead(leg.participant, score) = values[second] - values[first]
            BY <2>1, <2>3 DEF Lead, Opponent, Goals
        <3> QED
            BY <1>1, <1>2, <3>2, <3>3, WhatLegsSay
    <2> QED
        BY <1>1, <1>2, <2>2, <2>3
<1>3. CASE leg.kind = "bothTeamsScore"
    <2>1. s = <<Predicate("single", <<first>>, "greaterThan", 0),
                Predicate("single", <<second>>, "greaterThan", 0)>>
        BY <1>3 DEF Coded, Totals
    <2>2. SatisfiesAll(s, values) <=> values[first] > 0 /\ values[second] > 0
        BY <2>1 DEF SatisfiesAll, Satisfied, Measured, Predicate
    <2> QED
        BY <1>3, <2>2, WhatLegsSay DEF KeysOf, Goals
<1>4. CASE leg.kind \in Totals
    <2>1. s = <<TotalPredicate(leg, <<first, second>>)>>
        BY <1>4 DEF Coded, Totals
    <2>2. Total(leg.kind, score) = values[first] + values[second]
        BY DEF Total
    <2>3. CASE leg.comparison = "atLeast"
        <3>1. SatisfiesAll(s, values) <=> values[first] + values[second] > leg.threshold - 1
            BY <2>1, <2>3 DEF SatisfiesAll, Satisfied, Measured, Predicate, TotalPredicate
        <3> QED
            BY <1>1, <1>4, <2>2, <2>3, <3>1, WhatLegsSay
    <2>4. CASE leg.comparison = "atMost"
        <3>1. SatisfiesAll(s, values) <=> values[first] + values[second] < leg.threshold + 1
            BY <2>1, <2>4 DEF SatisfiesAll, Satisfied, Measured, Predicate, TotalPredicate
        <3> QED
            BY <1>1, <1>4, <2>2, <2>4, <3>1, WhatLegsSay
    <2> QED
        BY <1>1, <1>4, <2>3, <2>4 DEF Comparisons
<1> QED
    BY <1>1, <1>2, <1>3, <1>4 DEF Kinds

-----------------------------------------------------------------------------
(* Which conditions compile                                                *)

\* What a compiled condition looks like: one leg, or one on goals and one on
\* corners, in that order whichever came first.
CompiledOne(legs, c, leg) ==
    /\ ValidLeg(leg)
    /\ legs = <<leg>> /\ c.legs = <<leg>>
    /\ c.statKeys = KeysOf(leg.kind)
    /\ c.strategy = Coded(leg, 1, 2)

CompiledTwo(legs, c, onGoals, onCorners) ==
    /\ ValidLeg(onGoals) /\ onGoals.kind \in GoalKinds
    /\ ValidLeg(onCorners) /\ onCorners.kind = "totalCorners"
    /\ legs \in {<<onGoals, onCorners>>, <<onCorners, onGoals>>}
    /\ c.legs = <<onGoals, onCorners>>
    /\ c.statKeys = <<1, 2, 7, 8>>
    /\ c.strategy = Coded(onGoals, 1, 2) \o Coded(onCorners, 3, 4)

CompiledAs(legs, c) ==
    (\E leg : CompiledOne(legs, c, leg)) \/ (\E g, h : CompiledTwo(legs, c, g, h))

\* A draft that passes the checks of its legs has one valid leg or two different ones.
LEMMA AcceptedDrafts ==
    ASSUME NEW legs \in Drafts, ConditionError(legs) \in {"none", "CONTRADICTORY_LEGS"}
    PROVE  \/ \E leg : ValidLeg(leg) /\ legs = <<leg>>
           \/ \E a, b : ValidLeg(a) /\ ValidLeg(b) /\ a # b /\ legs = <<a, b>>
<1>1. Len(legs) \in {1, 2}
    <2>1. ~(Len(legs) < 1 \/ Len(legs) > 2)
        BY DEF ConditionError, MaxLegs
    <2>2. Len(legs) \in Nat
        BY DEF Drafts
    <2>3. PICK n \in Nat : n = Len(legs)
        BY <2>2
    <2>4. ~(n < 1 \/ n > 2)
        BY <2>1, <2>3
    <2>5. n \in {1, 2}
        BY <2>4
    <2> QED
        BY <2>3, <2>5
<1>2. LegError(legs[1]) = "none" /\ LegError(legs[Len(legs)]) = "none"
    BY <1>1 DEF ConditionError, MaxLegs, LegError
<1>3. CASE Len(legs) = 1
    <2>1. PICK leg \in DraftLegs : legs = <<leg>>
        BY <1>3 DEF Drafts
    <2>2. ValidLeg(leg)
        BY <1>2, <2>1, NoErrorMeansValid
    <2> QED
        BY <2>1, <2>2
<1>4. CASE Len(legs) = 2
    <2>1. PICK a \in DraftLegs, b \in DraftLegs : legs = <<a, b>>
        <3>1. legs # <<>>
            BY <1>4
        <3>2. ASSUME NEW l, legs = <<l>>
              PROVE  FALSE
            BY <1>4, <3>2
        <3>3. ASSUME NEW l, legs = <<l, l, l>>
              PROVE  FALSE
            BY <1>4, <3>3
        <3>4. legs \in DraftLegs \X DraftLegs
            BY <3>1, <3>2, <3>3 DEF Drafts
        <3> QED
            BY <3>4
    <2>2. ValidLeg(a) /\ ValidLeg(b)
        BY <1>2, <1>4, <2>1, NoErrorMeansValid
    <2>3. a # b
        BY <1>1, <1>2, <1>4, <2>1 DEF ConditionError, MaxLegs
    <2> QED
        BY <2>1, <2>2, <2>3
<1> QED
    BY <1>1, <1>3, <1>4

\* Every kind of leg is about the goals or about the corners.
LEMMA KeysOfKinds ==
    ASSUME NEW leg, ValidLeg(leg)
    PROVE  /\ leg.kind \in GoalKinds => KeysOf(leg.kind) = Goals
           /\ leg.kind = "totalCorners" => KeysOf(leg.kind) = Corners
           /\ leg.kind \in GoalKinds \/ leg.kind = "totalCorners"
           /\ Goals # Corners
BY DEF ValidLeg, KeysOf, GoalKinds, Goals, Corners

\* Two legs on different stats are sorted into goals first.
LEMMA GoalsComeFirst ==
    ASSUME NEW a, NEW b, ValidLeg(a), ValidLeg(b),
           a.kind \in GoalKinds, b.kind = "totalCorners"
    PROVE  /\ Sorted(<<a, b>>) = <<a, b>>
           /\ Sorted(<<b, a>>) = <<a, b>>
<1>1. KindRank(a.kind) \in 0 .. 3 /\ KindRank(b.kind) = 4 /\ a.kind # b.kind
    <2>1. a.kind \in {"participantWins", "winningMargin", "bothTeamsScore", "totalGoals"}
        BY DEF GoalKinds, Kinds, Totals
    <2> QED
        BY <2>1 DEF KindRank
<1>2. ComesBefore(a, b) /\ ~ComesBefore(b, a)
    BY <1>1 DEF ComesBefore
<1>3. a # b
    BY <1>1
<1> QED
    BY <1>2, <1>3 DEF Sorted

\* A condition compiled leg by leg has the shape of CompiledAs.
LEMMA CompiledShape ==
    ASSUME NEW legs \in Drafts, ConditionError(legs) = "none", ~SharesStats(Sorted(legs)),
           NEW c, c.legs = Sorted(legs), c.statKeys = StatKeysOf(Sorted(legs)),
           c.strategy = IF Len(Sorted(legs)) = 1
                        THEN CompileLeg(Sorted(legs)[1], StatKeysOf(Sorted(legs)))
                        ELSE CompileLeg(Sorted(legs)[1], StatKeysOf(Sorted(legs)))
                             \o CompileLeg(Sorted(legs)[2], StatKeysOf(Sorted(legs)))
    PROVE  CompiledAs(legs, c)
<1> DEFINE sorted == Sorted(legs)
<1>1. ConditionError(legs) = "none"
    OBVIOUS
<1>2. ~SharesStats(sorted)
    OBVIOUS
<1>3. /\ c.legs = sorted
      /\ c.statKeys = StatKeysOf(sorted)
      /\ c.strategy = IF Len(sorted) = 1 THEN CompileLeg(sorted[1], StatKeysOf(sorted))
                      ELSE CompileLeg(sorted[1], StatKeysOf(sorted))
                           \o CompileLeg(sorted[2], StatKeysOf(sorted))
    OBVIOUS
<1>4. ASSUME NEW leg, ValidLeg(leg), legs = <<leg>>
      PROVE  CompiledOne(legs, c, leg)
    <2>1. sorted = <<leg>>
        BY <1>4 DEF Sorted
    <2>2. StatKeysOf(sorted) = KeysOf(leg.kind)
        <3>1. {KeysOf(<<leg>>[i].kind) : i \in DOMAIN <<leg>>} = {KeysOf(leg.kind)}
            OBVIOUS
        <3>2. KeysOf(leg.kind) = Goals \/ (KeysOf(leg.kind) = Corners /\ Corners # Goals)
            BY <1>4, KeysOfKinds
        <3>3. {Corners} # {Goals}
            BY <1>4, KeysOfKinds
        <3> QED
            BY <2>1, <3>1, <3>2, <3>3 DEF StatKeysOf
    <2>3. c.strategy = CompileLeg(leg, KeysOf(leg.kind))
        BY <1>3, <2>1, <2>2
    <2>4. c.strategy = Coded(leg, 1, 2)
        <3>1. CASE leg.kind \in GoalKinds
            BY <1>4, <2>3, <3>1, KeysOfKinds, LegIsCoded
        <3>2. CASE leg.kind = "totalCorners"
            BY <1>4, <2>3, <3>2, KeysOfKinds, LegIsCoded
        <3> QED
            BY <1>4, <3>1, <3>2, KeysOfKinds
    <2> QED
        BY <1>3, <1>4, <2>1, <2>2, <2>4 DEF CompiledOne
<1>5. ASSUME NEW g, NEW h, ValidLeg(g), ValidLeg(h), g.kind \in GoalKinds,
             h.kind = "totalCorners", legs \in {<<g, h>>, <<h, g>>}
      PROVE  CompiledTwo(legs, c, g, h)
    <2>1. sorted = <<g, h>>
        BY <1>5, GoalsComeFirst
    <2>2. StatKeysOf(sorted) = Goals \o Corners
        <3>1. KeysOf(g.kind) = Goals /\ KeysOf(h.kind) = Corners /\ Goals # Corners
            BY <1>5, KeysOfKinds
        <3>2. {KeysOf(<<g, h>>[i].kind) : i \in DOMAIN <<g, h>>} = {Goals, Corners}
            BY <3>1
        <3>3. {Goals, Corners} # {Goals} /\ {Goals, Corners} # {Corners}
            BY <3>1
        <3> QED
            BY <2>1, <3>2, <3>3 DEF StatKeysOf
    <2>3. c.strategy = CompileLeg(g, Goals \o Corners) \o CompileLeg(h, Goals \o Corners)
        <3>1. Len(<<g, h>>) = 2 /\ <<g, h>>[1] = g /\ <<g, h>>[2] = h
            OBVIOUS
        <3>2. Len(sorted) # 1 /\ sorted[1] = g /\ sorted[2] = h
            BY <2>1, <3>1
        <3> DEFINE keys == StatKeysOf(sorted)
        <3>3. c.strategy = CompileLeg(sorted[1], keys) \o CompileLeg(sorted[2], keys)
            BY <1>3, <3>2
        <3>4. keys = Goals \o Corners
            BY <2>2
        <3> HIDE DEF sorted, keys
        <3> QED
            BY <3>2, <3>3, <3>4
    <2>4. c.strategy = Coded(g, 1, 2) \o Coded(h, 3, 4)
        BY <1>5, <2>3, LegIsCoded
    <2> QED
        BY <1>3, <1>5, <2>1, <2>2, <2>4, PlacesOfKeys DEF CompiledTwo
<1>6. ASSUME NEW a, NEW b, ValidLeg(a), ValidLeg(b), legs = <<a, b>>
      PROVE  \E g, h : CompiledTwo(legs, c, g, h)
    <2>1. sorted \in {<<a, b>>, <<b, a>>}
        BY <1>6 DEF Sorted
    <2>2. KeysOf(a.kind) # KeysOf(b.kind)
        BY <1>2, <2>1 DEF SharesStats
    <2>3. \/ a.kind \in GoalKinds /\ b.kind = "totalCorners"
          \/ b.kind \in GoalKinds /\ a.kind = "totalCorners"
        BY <1>6, <2>2, KeysOfKinds
    <2> QED
        BY <1>5, <1>6, <2>3
<1> QED
    BY <1>1, <1>4, <1>6, AcceptedDrafts DEF CompiledAs

-----------------------------------------------------------------------------
(* Every stat is evaluated once                                            *)

\* One reference to each stat, and no other reference: at names the places.
LEMMA CoversWhenPlaced ==
    ASSUME NEW s, NEW n \in Nat, NEW at,
           \A i \in 1 .. n : /\ at[i] \in References(s)
                             /\ s[at[i][1]].indexes[at[i][2]] = i,
           \A r \in References(s) : \E i \in 1 .. n : r = at[i]
    PROVE  CoversOnce(n, s)
<1>1. ASSUME NEW i \in 1 .. n
      PROVE  Cardinality({r \in References(s) : s[r[1]].indexes[r[2]] = i}) = 1
    <2>1. {r \in References(s) : s[r[1]].indexes[r[2]] = i} = {at[i]}
        OBVIOUS
    <2> QED
        BY <2>1, FS_Singleton
<1>2. \A r \in References(s) : s[r[1]].indexes[r[2]] \in 1 .. n
    OBVIOUS
<1> QED
    BY <1>1, <1>2 DEF CoversOnce

\* The references of a strategy: a predicate and a place in its list of indexes.
LEMMA ReferencesAre ==
    ASSUME NEW s, NEW r
    PROVE  r \in References(s)
              <=> \E p \in DOMAIN s : \E j \in DOMAIN s[p].indexes : r = <<p, j>>
BY DEF References

\* A sequence with the members of two others, in order, is the two joined.
LEMMA Concatenated ==
    ASSUME NEW S, NEW a \in Seq(S), NEW b \in Seq(S), NEW t \in Seq(S),
           Len(t) = Len(a) + Len(b),
           \A i \in 1 .. Len(a) : t[i] = a[i],
           \A i \in 1 .. Len(b) : t[Len(a) + i] = b[i]
    PROVE  a \o b = t
<1>1. /\ a \o b \in Seq(S) /\ Len(a \o b) = Len(a) + Len(b)
      /\ \A i \in 1 .. Len(a) + Len(b) :
            (a \o b)[i] = IF i <= Len(a) THEN a[i] ELSE b[i - Len(a)]
    BY ConcatProperties
<1>2. Len(a) \in Nat /\ Len(b) \in Nat
    BY LenProperties
<1>3. ASSUME NEW i \in 1 .. Len(a \o b)
      PROVE  (a \o b)[i] = t[i]
    <2>1. CASE i <= Len(a)
        BY <1>1, <1>2, <2>1
    <2>2. CASE ~(i <= Len(a))
        <3>1. PICK k \in 1 .. Len(b) : i = Len(a) + k
            <4>1. i - Len(a) \in 1 .. Len(b) /\ i = Len(a) + (i - Len(a))
                BY <1>1, <1>2, <2>2
            <4> QED
                BY <4>1
        <3>2. (a \o b)[i] = b[i - Len(a)] /\ i - Len(a) = k
            BY <1>1, <1>2, <2>2, <3>1
        <3> QED
            BY <3>1, <3>2
    <2> QED
        BY <2>1, <2>2
<1> QED
    BY <1>1, <1>3, SeqEqual

\* One and one predicate joined.
LEMMA OneAndOne ==
    ASSUME NEW p, NEW r
    PROVE  <<p>> \o <<r>> = <<p, r>>
<1> DEFINE S == {p, r}
           left == <<p>>
           right == <<r>>
           all == <<p, r>>
<1>1. /\ left \in Seq(S) /\ Len(left) = 1 /\ left[1] = p
      /\ right \in Seq(S) /\ Len(right) = 1 /\ right[1] = r
      /\ all \in Seq(S) /\ Len(all) = 2
      /\ all[1] = p /\ all[2] = r
    OBVIOUS
<1> HIDE DEF S, left, right, all
<1>2. /\ left \in Seq(S) /\ right \in Seq(S) /\ all \in Seq(S)
      /\ Len(all) = Len(left) + Len(right)
      /\ \A i \in 1 .. Len(left) : all[i] = left[i]
      /\ \A i \in 1 .. Len(right) : all[Len(left) + i] = right[i]
    BY <1>1
<1>3. left \o right = all
    BY <1>2, Concatenated, Zenon
<1> QED
    BY <1>3 DEF left, right, all

\* Two and one joined.
LEMMA TwoAndOne ==
    ASSUME NEW p, NEW q, NEW r
    PROVE  <<p, q>> \o <<r>> = <<p, q, r>>
<1> DEFINE S == {p, q, r}
           left == <<p, q>>
           right == <<r>>
           all == <<p, q, r>>
<1>1. /\ left \in Seq(S) /\ Len(left) = 2 /\ left[1] = p /\ left[2] = q
      /\ right \in Seq(S) /\ Len(right) = 1 /\ right[1] = r
      /\ all \in Seq(S) /\ Len(all) = 3
      /\ all[1] = p /\ all[2] = q /\ all[3] = r
    OBVIOUS
<1> HIDE DEF S, left, right, all
<1>2. /\ left \in Seq(S) /\ right \in Seq(S) /\ all \in Seq(S)
      /\ Len(all) = Len(left) + Len(right)
      /\ \A i \in 1 .. Len(left) : all[i] = left[i]
      /\ \A i \in 1 .. Len(right) : all[Len(left) + i] = right[i]
    BY <1>1
<1>3. left \o right = all
    BY <1>2, Concatenated, Zenon
<1> QED
    BY <1>3 DEF left, right, all

\* Two and two joined.
LEMMA TwoAndTwo ==
    ASSUME NEW a, NEW b, NEW c, NEW d
    PROVE  <<a, b>> \o <<c, d>> = <<a, b, c, d>>
<1> DEFINE S == {a, b, c, d}
           left == <<a, b>>
           right == <<c, d>>
           all == <<a, b, c, d>>
<1>1. /\ left \in Seq(S) /\ Len(left) = 2 /\ left[1] = a /\ left[2] = b
      /\ right \in Seq(S) /\ Len(right) = 2 /\ right[1] = c /\ right[2] = d
      /\ all \in Seq(S) /\ Len(all) = 4
      /\ all[1] = a /\ all[2] = b /\ all[3] = c /\ all[4] = d
    OBVIOUS
<1> HIDE DEF S, left, right, all
<1>2. /\ left \in Seq(S) /\ right \in Seq(S) /\ all \in Seq(S)
      /\ Len(all) = Len(left) + Len(right)
      /\ \A i \in 1 .. Len(left) : all[i] = left[i]
      /\ \A i \in 1 .. Len(right) : all[Len(left) + i] = right[i]
    BY <1>1
<1>3. left \o right = all
    BY <1>2, Concatenated, Zenon
<1> QED
    BY <1>3 DEF left, right, all

\* Four and two joined.
LEMMA FourAndTwo ==
    ASSUME NEW a, NEW b, NEW c, NEW d, NEW e, NEW f
    PROVE  <<a, b, c, d>> \o <<e, f>> = <<a, b, c, d, e, f>>
<1> DEFINE S == {a, b, c, d, e, f}
           left == <<a, b, c, d>>
           right == <<e, f>>
           all == <<a, b, c, d, e, f>>
<1>1. /\ left \in Seq(S) /\ Len(left) = 4 /\ left[1] = a /\ left[2] = b /\ left[3] = c /\ left[4] = d
      /\ right \in Seq(S) /\ Len(right) = 2 /\ right[1] = e /\ right[2] = f
      /\ all \in Seq(S) /\ Len(all) = 6
      /\ all[1] = a /\ all[2] = b /\ all[3] = c /\ all[4] = d /\ all[5] = e /\ all[6] = f
    OBVIOUS
<1> HIDE DEF S, left, right, all
<1>2. /\ left \in Seq(S) /\ right \in Seq(S) /\ all \in Seq(S)
      /\ Len(all) = Len(left) + Len(right)
      /\ \A i \in 1 .. Len(left) : all[i] = left[i]
      /\ \A i \in 1 .. Len(right) : all[Len(left) + i] = right[i]
    BY <1>1
<1>3. left \o right = all
    BY <1>2, Concatenated, Zenon
<1> QED
    BY <1>3 DEF left, right, all

BothWays == {<<1, 2>>, <<2, 1>>}
LastWay == {<<3, 4>>}

\* One predicate on two statistics covers both once.
LEMMA CoversOfPair ==
    ASSUME NEW p, p.indexes \in BothWays
    PROVE  CoversOnce(2, <<p>>)
<1> DEFINE at == IF p.indexes = <<1, 2>> THEN << <<1, 1>>, <<1, 2>> >>
                 ELSE << <<1, 2>>, <<1, 1>> >>
           s == <<p>>
<1>1. \A r : r \in References(s) <=> r = <<1, 1>> \/ r = <<1, 2>>
    BY ReferencesAre DEF BothWays
<1>2. \A i \in 1 .. 2 : at[i] \in References(s) /\ s[at[i][1]].indexes[at[i][2]] = i
    BY <1>1 DEF BothWays
<1>3. \A r \in References(s) : \E i \in 1 .. 2 : r = at[i]
    BY <1>1 DEF BothWays
<1> HIDE DEF at, s
<1>4. CoversOnce(2, s)
    BY <1>2, <1>3, CoversWhenPlaced
<1> QED
    BY <1>4 DEF s

\* So do two predicates on one each.
LEMMA CoversOfSingles ==
    ASSUME NEW p, NEW q, p.indexes = << 1 >>, q.indexes = << 2 >>
    PROVE  CoversOnce(2, <<p, q>>)
<1> DEFINE at == << <<1, 1>>, <<2, 1>> >>
           s == <<p, q>>
<1>1. \A r : r \in References(s) <=> r = <<1, 1>> \/ r = <<2, 1>>
    BY ReferencesAre
<1>2. \A i \in 1 .. 2 : at[i] \in References(s) /\ s[at[i][1]].indexes[at[i][2]] = i
    BY <1>1
<1>3. \A r \in References(s) : \E i \in 1 .. 2 : r = at[i]
    BY <1>1
<1> HIDE DEF at, s
<1>4. CoversOnce(2, s)
    BY <1>2, <1>3, CoversWhenPlaced
<1> QED
    BY <1>4 DEF s

\* Two predicates on two statistics each cover all four once.
LEMMA CoversOfTwoPairs ==
    ASSUME NEW p, NEW r, p.indexes \in BothWays, r.indexes = <<3, 4>>
    PROVE  CoversOnce(4, <<p, r>>)
<1> DEFINE first == IF p.indexes = <<1, 2>> THEN 1 ELSE 2
           at == << <<1, first>>, <<1, 3 - first>>, <<2, 1>>, <<2, 2>> >>
           s == <<p, r>>
<1>1. \A x : x \in References(s)
                <=> x = <<1, 1>> \/ x = <<1, 2>> \/ x = <<2, 1>> \/ x = <<2, 2>>
    BY ReferencesAre DEF BothWays
<1>2. \A i \in 1 .. 4 : at[i] \in References(s) /\ s[at[i][1]].indexes[at[i][2]] = i
    BY <1>1, SMTT(30) DEF BothWays
<1>3. \A x \in References(s) : \E i \in 1 .. 4 : x = at[i]
    BY <1>1 DEF BothWays
<1> HIDE DEF at, s
<1>4. CoversOnce(4, s)
    BY <1>2, <1>3, CoversWhenPlaced
<1> QED
    BY <1>4 DEF s

\* So do two on one each and one on two.
LEMMA CoversOfSinglesAndPair ==
    ASSUME NEW p, NEW q, NEW r,
           p.indexes = << 1 >>, q.indexes = << 2 >>, r.indexes = <<3, 4>>
    PROVE  CoversOnce(4, <<p, q, r>>)
<1> DEFINE at == << <<1, 1>>, <<2, 1>>, <<3, 1>>, <<3, 2>> >>
           s == <<p, q, r>>
<1>1. \A x : x \in References(s)
                <=> x = <<1, 1>> \/ x = <<2, 1>> \/ x = <<3, 1>> \/ x = <<3, 2>>
    BY ReferencesAre
<1>2. \A i \in 1 .. 4 : at[i] \in References(s) /\ s[at[i][1]].indexes[at[i][2]] = i
    BY <1>1
<1>3. \A x \in References(s) : \E i \in 1 .. 4 : x = at[i]
    BY <1>1
<1> HIDE DEF at, s
<1>4. CoversOnce(4, s)
    BY <1>2, <1>3, CoversWhenPlaced
<1> QED
    BY <1>4 DEF s

-----------------------------------------------------------------------------
(* The strategies the compiler makes, as lists of predicates               *)

Single(first) == Predicate("single", <<first>>, "greaterThan", 0)

\* A predicate on two stats, of any kind the compiler makes.
IsPair(p, pairs) ==
    \E op \in {"add", "subtract"}, indexes \in pairs,
       comparison \in {"greaterThan", "lessThan"}, threshold \in Int :
       p = Predicate(op, indexes, comparison, threshold)

\* A leg is one predicate on a pair, or, if both teams score, two on one each.
LEMMA CodedIs ==
    ASSUME NEW leg, ValidLeg(leg), NEW first, NEW second,
           NEW pairs, <<first, second>> \in pairs,
           leg.kind \in Totals \/ <<second, first>> \in pairs
    PROVE  /\ leg.kind = "bothTeamsScore" =>
                 Coded(leg, first, second) = <<Single(first), Single(second)>>
           /\ leg.kind # "bothTeamsScore" =>
                 \E p : IsPair(p, pairs) /\ Coded(leg, first, second) = <<p>>
<1>1. leg.threshold \in Nat /\ leg.kind \in Kinds
    BY ThresholdsAreIntegers DEF ValidLeg
<1>2. leg.kind = "bothTeamsScore" =>
         Coded(leg, first, second) = <<Single(first), Single(second)>>
    BY DEF Coded, Single, Totals
<1>3. leg.kind \in Totals =>
         \E p : IsPair(p, pairs) /\ Coded(leg, first, second) = <<p>>
    <2>1. IsPair(TotalPredicate(leg, <<first, second>>), pairs)
        BY <1>1 DEF IsPair, TotalPredicate
    <2> QED
        BY <2>1 DEF Coded, Totals
<1>4. leg.kind \in {"participantWins", "winningMargin"} =>
         \E p : IsPair(p, pairs) /\ Coded(leg, first, second) = <<p>>
    <2> DEFINE ahead == IF leg.participant = 1 THEN <<first, second>> ELSE <<second, first>>
               least == IF leg.kind = "participantWins" THEN 0 ELSE leg.threshold - 1
               p == Predicate("subtract", ahead, "greaterThan", least)
    <2> SUFFICES ASSUME leg.kind \in {"participantWins", "winningMargin"}
                 PROVE  \E q : IsPair(q, pairs) /\ Coded(leg, first, second) = <<q>>
        OBVIOUS
    <2>1. least \in Int /\ ahead \in pairs
        BY <1>1 DEF Totals
    <2>2. IsPair(p, pairs)
        <3> HIDE DEF least, ahead
        <3> QED
            BY <2>1 DEF IsPair
    <2>3. Coded(leg, first, second) = <<p>>
        BY DEF Coded, Totals
    <2> HIDE DEF p
    <2> QED
        BY <2>2, <2>3
<1> QED
    BY <1>1, <1>2, <1>3, <1>4 DEF Kinds

\* That is so on the first two statistics ...
LEMMA CodedFirst ==
    ASSUME NEW leg, ValidLeg(leg)
    PROVE  \/ Coded(leg, 1, 2) = <<Single(1), Single(2)>>
           \/ \E p : IsPair(p, BothWays) /\ Coded(leg, 1, 2) = <<p>>
<1>1. <<1, 2>> \in BothWays /\ <<2, 1>> \in BothWays
    BY DEF BothWays
<1> QED
    BY <1>1, CodedIs

\* ... and, for the corners, on the last two.
LEMMA CodedLast ==
    ASSUME NEW leg, ValidLeg(leg), leg.kind = "totalCorners"
    PROVE  \E p : IsPair(p, LastWay) /\ Coded(leg, 3, 4) = <<p>>
<1>1. <<3, 4>> \in LastWay /\ leg.kind \in Totals /\ leg.kind # "bothTeamsScore"
    BY DEF LastWay, Totals
<1> QED
    BY <1>1, CodedIs

\* The indexes of a predicate on a pair.
LEMMA PairsIndexes ==
    ASSUME NEW pairs, NEW p, IsPair(p, pairs)
    PROVE  p.indexes \in pairs
BY DEF IsPair, Predicate

\* The strategies of compiled conditions: their keys and their predicates.
IsStrategy(keys, s) ==
    \/ /\ Len(keys) = 2
       /\ \/ s = <<Single(1), Single(2)>>
          \/ \E p : IsPair(p, BothWays) /\ s = <<p>>
    \/ /\ Len(keys) = 4
       /\ \E r : /\ IsPair(r, LastWay)
                 /\ \/ s = <<Single(1), Single(2), r>>
                    \/ \E p : IsPair(p, BothWays) /\ s = <<p, r>>

\* A compiled condition asks for the goals, the corners or both.
LEMMA KeysOfCompiled ==
    ASSUME NEW legs, NEW c, CompiledAs(legs, c)
    PROVE  c.statKeys \in {<<1, 2>>, <<7, 8>>, <<1, 2, 7, 8>>}
BY DEF CompiledAs, CompiledOne, CompiledTwo, KeysOf, Goals, Corners

\* Its predicates are a strategy for these statistics.
LEMMA StrategyOfCompiled ==
    ASSUME NEW legs, NEW c, CompiledAs(legs, c)
    PROVE  IsStrategy(c.statKeys, c.strategy)
<1>1. ASSUME NEW leg, CompiledOne(legs, c, leg)
      PROVE  IsStrategy(c.statKeys, c.strategy)
    <2>1. Len(c.statKeys) = 2
        BY <1>1 DEF CompiledOne, KeysOf, Goals, Corners
    <2>2. ValidLeg(leg) /\ c.strategy = Coded(leg, 1, 2)
        BY <1>1 DEF CompiledOne
    <2> QED
        BY <2>1, <2>2, CodedFirst DEF IsStrategy
<1>2. ASSUME NEW g, NEW h, CompiledTwo(legs, c, g, h)
      PROVE  IsStrategy(c.statKeys, c.strategy)
    <2>1. /\ Len(c.statKeys) = 4 /\ ValidLeg(g) /\ ValidLeg(h) /\ h.kind = "totalCorners"
          /\ c.strategy = Coded(g, 1, 2) \o Coded(h, 3, 4)
        BY <1>2 DEF CompiledTwo
    <2>2. PICK r : IsPair(r, LastWay) /\ Coded(h, 3, 4) = <<r>>
        BY <2>1, CodedLast
    <2>3. CASE Coded(g, 1, 2) = <<Single(1), Single(2)>>
        <3>1. c.strategy = <<Single(1), Single(2), r>>
            BY <2>1, <2>2, <2>3, TwoAndOne
        <3> QED
            BY <2>1, <2>2, <3>1 DEF IsStrategy
    <2>4. ASSUME NEW p, IsPair(p, BothWays), Coded(g, 1, 2) = <<p>>
          PROVE  IsStrategy(c.statKeys, c.strategy)
        <3>1. c.strategy = <<p, r>>
            BY <2>1, <2>2, <2>4, OneAndOne
        <3> QED
            BY <2>1, <2>2, <2>4, <3>1 DEF IsStrategy
    <2> QED
        BY <2>1, <2>3, <2>4, CodedFirst
<1> QED
    BY <1>1, <1>2 DEF CompiledAs

\* A strategy uses every statistic once, and has at most three predicates.
LEMMA StrategiesCover ==
    ASSUME NEW keys, NEW s, IsStrategy(keys, s)
    PROVE  CoversOnce(Len(keys), s) /\ Len(s) \in 1 .. 3
<1>1. Single(1).indexes = << 1 >> /\ Single(2).indexes = << 2 >>
    BY DEF Single, Predicate
<1>2. CASE Len(keys) = 2 /\ s = <<Single(1), Single(2)>>
    BY <1>1, <1>2, CoversOfSingles
<1>3. CASE Len(keys) = 2 /\ \E p : IsPair(p, BothWays) /\ s = <<p>>
    BY <1>3, PairsIndexes, CoversOfPair
<1>4. ASSUME NEW r, Len(keys) = 4, IsPair(r, LastWay), s = <<Single(1), Single(2), r>>
      PROVE  CoversOnce(Len(keys), s) /\ Len(s) \in 1 .. 3
    <2>1. r.indexes = <<3, 4>>
        BY <1>4, PairsIndexes DEF LastWay
    <2> QED
        BY <1>1, <1>4, <2>1, CoversOfSinglesAndPair
<1>5. ASSUME NEW r, NEW p, Len(keys) = 4, IsPair(r, LastWay), IsPair(p, BothWays),
             s = <<p, r>>
      PROVE  CoversOnce(Len(keys), s) /\ Len(s) \in 1 .. 3
    <2>1. r.indexes = <<3, 4>> /\ p.indexes \in BothWays
        BY <1>5, PairsIndexes DEF LastWay
    <2> QED
        BY <1>5, <2>1, CoversOfTwoPairs
<1> QED
    BY <1>2, <1>3, <1>4, <1>5 DEF IsStrategy

\* What becomes of a draft: nothing that passes the checks fails to cover its
\* stats, so the compiler's internal invariant is never what refuses a draft.
LEMMA WhatCompiles ==
    ASSUME NEW legs \in Drafts
    PROVE  \/ /\ ConditionError(legs) # "none"
              /\ CompileCondition(legs) = Rejected(ConditionError(legs))
           \/ CompileCondition(legs) = Rejected("DUPLICATE_STAT_COVERAGE")
           \/ /\ CompileCondition(legs).status = "Compiled"
              /\ CompileCondition(legs).error = "none"
              /\ CompiledAs(legs, CompileCondition(legs))
<1> DEFINE sorted == Sorted(legs)
           keys == StatKeysOf(sorted)
           strategy == IF Len(sorted) = 1 THEN CompileLeg(sorted[1], keys)
                       ELSE CompileLeg(sorted[1], keys) \o CompileLeg(sorted[2], keys)
           c == [status |-> "Compiled", error |-> "none", legs |-> sorted,
                 statKeys |-> keys, strategy |-> strategy]
<1>1. CASE ConditionError(legs) # "none"
    BY <1>1 DEF CompileCondition
<1>2. CASE ConditionError(legs) = "none" /\ SharesStats(sorted)
    BY <1>2 DEF CompileCondition, CompileSorted
<1>3. CASE ConditionError(legs) = "none" /\ ~SharesStats(sorted)
    <2>1. CompiledAs(legs, c)
        <3>1. /\ c.legs = Sorted(legs) /\ c.statKeys = StatKeysOf(Sorted(legs))
              /\ c.strategy = IF Len(Sorted(legs)) = 1
                              THEN CompileLeg(Sorted(legs)[1], StatKeysOf(Sorted(legs)))
                              ELSE CompileLeg(Sorted(legs)[1], StatKeysOf(Sorted(legs)))
                                   \o CompileLeg(Sorted(legs)[2], StatKeysOf(Sorted(legs)))
            OBVIOUS
        <3> HIDE DEF c
        <3> QED
            BY <1>3, <3>1, CompiledShape
    <2>2. CoversOnce(Len(c.statKeys), c.strategy)
        <3> HIDE DEF c
        <3>1. IsStrategy(c.statKeys, c.strategy)
            BY <2>1, StrategyOfCompiled
        <3> QED
            BY <3>1, StrategiesCover
    <2>3. CompileCondition(legs) = c
        <3>1. CoversOnce(Len(keys), strategy)
            BY <2>2
        <3>2. CompileCondition(legs) = CompileSorted(sorted)
            BY <1>3 DEF CompileCondition
        <3>3. CompileSorted(sorted) = c
            BY <1>3, <3>1 DEF CompileSorted
        <3> QED
            BY <3>2, <3>3
    <2>4. c.status = "Compiled" /\ c.error = "none"
        OBVIOUS
    <2> HIDE DEF c
    <2> QED
        BY <2>1, <2>3, <2>4
<1> QED
    BY <1>1, <1>2, <1>3

\* What the compiler returns as compiled has the shape of CompiledAs.
LEMMA CompiledDrafts ==
    ASSUME NEW legs \in Drafts, CompileCondition(legs).status = "Compiled"
    PROVE  CompiledAs(legs, CompileCondition(legs))
<1>1. \A error : Rejected(error).status # "Compiled"
    BY DEF Rejected
<1> QED
    BY <1>1, WhatCompiles, Zenon

\* The internal check of the strategy never fails.
LEMMA NoInternalError ==
    ASSUME NEW legs \in Drafts
    PROVE  CompileCondition(legs).error # "STRATEGY_INVARIANT"
<1>1. \A error : Rejected(error).error = error
    BY DEF Rejected
<1>2. ConditionError(legs) # "STRATEGY_INVARIANT"
    BY DEF ConditionError, LegError
<1> QED
    BY <1>1, <1>2, WhatCompiles

-----------------------------------------------------------------------------
(* What the program receives is what the client sent                       *)

Written(p) == DecodedPredicate(EncodedPredicate(p)) = p

\* A predicate on one statistic is one that the program can store ...
LEMMA SinglesAreWritten ==
    ASSUME NEW first
    PROVE  Written(Single(first))
<1> DEFINE p == Single(first)
<1>1. /\ p.op = "single" /\ p.indexes = <<first>>
      /\ p.comparison = "greaterThan" /\ p.threshold = 0
    BY DEF Single, Predicate
<1>2. PlaceOf("greaterThan", ComparisonsWritten) = 1
    BY DEF PlaceOf, ComparisonsWritten
<1>3. EncodedPredicate(p) = <<0, first, 0, 1>>
    <2>1. EncodedPredicate(p) = <<0, first>> \o <<0, 1>>
        BY <1>1, <1>2 DEF EncodedPredicate
    <2> QED
        BY <2>1, TwoAndTwo
<1> QED
    BY <1>3 DEF Written, DecodedPredicate, ComparisonsRead, Single

\* ... and so is one on two.
LEMMA PairsAreWritten ==
    ASSUME NEW pairs, \A x \in pairs : x = <<x[1], x[2]>>,
           NEW p, IsPair(p, pairs)
    PROVE  Written(p)
<1>1. PICK op \in {"add", "subtract"}, indexes \in pairs,
           comparison \in {"greaterThan", "lessThan"}, threshold \in Int :
           p = Predicate(op, indexes, comparison, threshold)
    BY DEF IsPair
<1>2. /\ p.op = op /\ p.indexes = indexes /\ op # "single"
      /\ p.comparison = comparison /\ p.threshold = threshold
    BY <1>1 DEF Predicate
<1> DEFINE o == PlaceOf(op, OperatorsWritten)
           c == PlaceOf(comparison, ComparisonsWritten)
           data == <<1, indexes[1], indexes[2], o, threshold, c>>
<1>3. OperatorsRead[o] = op
    BY DEF PlaceOf, OperatorsWritten, OperatorsRead
<1>4. ComparisonsRead[c] = comparison
    BY DEF PlaceOf, ComparisonsWritten, ComparisonsRead
<1> HIDE DEF o, c
<1>5. EncodedPredicate(p) = data
    <2>1. EncodedPredicate(p) = <<1, indexes[1], indexes[2], o>> \o <<threshold, c>>
        BY <1>2 DEF EncodedPredicate, o, c
    <2> QED
        BY <2>1, FourAndTwo
<1>6. /\ data[1] = 1 /\ data[2] = indexes[1] /\ data[3] = indexes[2] /\ data[4] = o
      /\ data[5] = threshold /\ data[6] = c
    OBVIOUS
<1> HIDE DEF data
<1>7. DecodedPredicate(data)
         = Predicate(op, <<indexes[1], indexes[2]>>, comparison, threshold)
    BY <1>3, <1>4, <1>6 DEF DecodedPredicate
<1>8. <<indexes[1], indexes[2]>> = indexes
    OBVIOUS
<1> QED
    BY <1>1, <1>5, <1>7, <1>8 DEF Written

\* Client and program write and read one encoding.
LEMMA StrategyTravels ==
    ASSUME NEW keys, NEW s, IsStrategy(keys, s)
    PROVE  StrategyReceived(s) = s
<1>1. \A p : IsPair(p, BothWays) \/ IsPair(p, LastWay) => Written(p)
    <2>1. \A x \in BothWays : x = <<x[1], x[2]>>
        BY DEF BothWays
    <2>2. \A x \in LastWay : x = <<x[1], x[2]>>
        BY DEF LastWay
    <2> QED
        BY <2>1, <2>2, PairsAreWritten
<1>2. Written(Single(1)) /\ Written(Single(2))
    BY SinglesAreWritten
<1>3. \A i \in DOMAIN s : Written(s[i])
    BY <1>1, <1>2 DEF IsStrategy
<1>4. s = [i \in DOMAIN s |-> s[i]]
    BY DEF IsStrategy
<1> QED
    BY <1>3, <1>4 DEF StrategyReceived, Written

-----------------------------------------------------------------------------
(* What a compiled condition says                                          *)

\* A score satisfies two strategies joined when it satisfies both.
LEMMA StrategiesTogether ==
    ASSUME NEW g, ValidLeg(g), NEW h, ValidLeg(h), h.kind = "totalCorners", NEW values
    PROVE  SatisfiesAll(Coded(g, 1, 2) \o Coded(h, 3, 4), values)
              <=> /\ SatisfiesAll(Coded(g, 1, 2), values)
                  /\ SatisfiesAll(Coded(h, 3, 4), values)
<1>1. PICK r : Coded(h, 3, 4) = <<r>>
    BY CodedLast
<1>2. CASE Coded(g, 1, 2) = <<Single(1), Single(2)>>
    <2> DEFINE p == Single(1)
               q == Single(2)
    <2>1. Coded(g, 1, 2) \o Coded(h, 3, 4) = <<p, q, r>>
        BY <1>1, <1>2, TwoAndOne
    <2>2. Coded(g, 1, 2) = <<p, q>>
        BY <1>2
    <2> HIDE DEF p, q
    <2> QED
        BY <1>1, <2>1, <2>2 DEF SatisfiesAll
<1>3. ASSUME NEW p, Coded(g, 1, 2) = <<p>>
      PROVE  SatisfiesAll(Coded(g, 1, 2) \o Coded(h, 3, 4), values)
                <=> /\ SatisfiesAll(Coded(g, 1, 2), values)
                    /\ SatisfiesAll(Coded(h, 3, 4), values)
    <2>1. Coded(g, 1, 2) \o Coded(h, 3, 4) = <<p, r>>
        BY <1>1, <1>3, OneAndOne
    <2> QED
        BY <1>1, <1>3, <2>1 DEF SatisfiesAll
<1> QED
    BY <1>2, <1>3, CodedFirst

\* The strategy, the legs as the compiler orders them and the legs as the
\* creator gave them say the same of every score.
LEMMA CompiledMeansLegs ==
    ASSUME NEW legs, NEW c, CompiledAs(legs, c),
           NEW score, \A k \in StatKeys : score[k] \in Nat,
           NEW values, \A i \in DOMAIN c.statKeys : values[i] = score[c.statKeys[i]]
    PROVE  /\ SatisfiesAll(c.strategy, values) <=> AllHold(legs, score)
           /\ AllHold(c.legs, score) <=> AllHold(legs, score)
<1>1. ASSUME NEW leg, CompiledOne(legs, c, leg)
      PROVE  /\ SatisfiesAll(c.strategy, values) <=> AllHold(legs, score)
             /\ AllHold(c.legs, score) <=> AllHold(legs, score)
    <2>1. /\ ValidLeg(leg) /\ legs = <<leg>> /\ c.legs = <<leg>>
          /\ c.statKeys = KeysOf(leg.kind) /\ c.strategy = Coded(leg, 1, 2)
        BY <1>1 DEF CompiledOne
    <2>2. /\ values[1] = score[KeysOf(leg.kind)[1]] /\ values[1] \in Nat
          /\ values[2] = score[KeysOf(leg.kind)[2]] /\ values[2] \in Nat
        BY <2>1 DEF KeysOf, Goals, Corners, StatKeys
    <2>3. SatisfiesAll(Coded(leg, 1, 2), values) <=> Holds(leg, score)
        BY <2>1, <2>2, CodedMeansLeg
    <2>4. AllHold(<<leg>>, score) <=> Holds(leg, score)
        BY DEF AllHold
    <2> QED
        BY <2>1, <2>3, <2>4
<1>2. ASSUME NEW g, NEW h, CompiledTwo(legs, c, g, h)
      PROVE  /\ SatisfiesAll(c.strategy, values) <=> AllHold(legs, score)
             /\ AllHold(c.legs, score) <=> AllHold(legs, score)
    <2>1. /\ ValidLeg(g) /\ g.kind \in GoalKinds
          /\ ValidLeg(h) /\ h.kind = "totalCorners"
          /\ legs \in {<<g, h>>, <<h, g>>} /\ c.legs = <<g, h>>
          /\ c.statKeys = <<1, 2, 7, 8>>
          /\ c.strategy = Coded(g, 1, 2) \o Coded(h, 3, 4)
        BY <1>2 DEF CompiledTwo
    <2>2. /\ values[1] = score[1] /\ values[2] = score[2]
          /\ values[3] = score[7] /\ values[4] = score[8]
          /\ \A i \in 1 .. 4 : values[i] \in Nat
        BY <2>1, SMTT(30) DEF StatKeys
    <2>3. SatisfiesAll(Coded(g, 1, 2), values) <=> Holds(g, score)
        <3>1. KeysOf(g.kind)[1] = 1 /\ KeysOf(g.kind)[2] = 2
            BY <2>1 DEF GoalKinds, KeysOf, Goals
        <3>2. /\ ValidLeg(g) /\ 1 \in Nat /\ 2 \in Nat
              /\ values[1] = score[KeysOf(g.kind)[1]] /\ values[1] \in Nat
              /\ values[2] = score[KeysOf(g.kind)[2]] /\ values[2] \in Nat
            BY <2>1, <2>2, <3>1
        <3> QED
            BY <3>2, CodedMeansLeg, Zenon
    <2>4. SatisfiesAll(Coded(h, 3, 4), values) <=> Holds(h, score)
        <3>1. KeysOf(h.kind)[1] = 7 /\ KeysOf(h.kind)[2] = 8
            BY <2>1 DEF KeysOf, Corners
        <3>2. /\ ValidLeg(h) /\ 3 \in Nat /\ 4 \in Nat
              /\ values[3] = score[KeysOf(h.kind)[1]] /\ values[3] \in Nat
              /\ values[4] = score[KeysOf(h.kind)[2]] /\ values[4] \in Nat
            BY <2>1, <2>2, <3>1
        <3> QED
            BY <3>2, CodedMeansLeg
    <2>5. /\ AllHold(<<g, h>>, score) <=> Holds(g, score) /\ Holds(h, score)
          /\ AllHold(<<h, g>>, score) <=> Holds(g, score) /\ Holds(h, score)
        BY DEF AllHold
    <2>6. SatisfiesAll(c.strategy, values) <=> Holds(g, score) /\ Holds(h, score)
        BY <2>1, <2>3, <2>4, StrategiesTogether
    <2> QED
        BY <2>1, <2>5, <2>6
<1> QED
    BY <1>1, <1>2 DEF CompiledAs

\* A condition is open until all its stats are known, and then what its legs say.
LEMMA EvaluationMeansLegs ==
    ASSUME NEW legs, NEW c, CompiledAs(legs, c),
           NEW score, \A k \in StatKeys : score[k] \in Nat
    PROVE  EvaluateCondition(c, score) = IF AllHold(legs, score) THEN "yes" ELSE "no"
<1> DEFINE values == [i \in DOMAIN c.statKeys |-> score[c.statKeys[i]]]
<1>1. MissingKeys(c, score) = {}
    BY DEF MissingKeys, Missing
<1>2. \A i \in DOMAIN c.statKeys : values[i] = score[c.statKeys[i]]
    OBVIOUS
<1>3. EvaluateCondition(c, score) = IF SatisfiesAll(c.strategy, values) THEN "yes" ELSE "no"
    BY <1>1 DEF EvaluateCondition
<1> HIDE DEF values
<1>4. SatisfiesAll(c.strategy, values) <=> AllHold(legs, score)
    BY <1>2, CompiledMeansLegs
<1> QED
    BY <1>3, <1>4

\* What compiles passes the checks of the program.
LEMMA CompiledIsAccepted ==
    ASSUME NEW legs, NEW c, CompiledAs(legs, c)
    PROVE  ConfigAccepted(c.statKeys, c.strategy) /\ StrategyReceived(c.strategy) = c.strategy
<1>1. IsStrategy(c.statKeys, c.strategy)
    BY StrategyOfCompiled
<1>2. CoversOnce(Len(c.statKeys), c.strategy) /\ Len(c.strategy) \in 1 .. MAX_SETTLEMENT_STATS
    BY <1>1, StrategiesCover DEF MAX_SETTLEMENT_STATS
<1>3. /\ Len(c.statKeys) \in 1 .. MAX_SETTLEMENT_STATS
      /\ \A i \in DOMAIN c.statKeys : c.statKeys[i] \in StatKeys
      /\ \A i, j \in DOMAIN c.statKeys : i < j => c.statKeys[i] < c.statKeys[j]
    BY KeysOfCompiled DEF MAX_SETTLEMENT_STATS, StatKeys
<1> QED
    BY <1>1, <1>2, <1>3, StrategyTravels DEF ConfigAccepted

-----------------------------------------------------------------------------
(* The invariant                                                           *)

\* The statistics of a score are natural numbers.
LEMMA ScoresAreNumbers ==
    ASSUME NEW score \in Scores
    PROVE  (\A k \in StatKeys : score[k] \in Nat) /\ score # NoScore
<1>1. \A k \in StatKeys : score[k] \in Nat
    BY ValuesAssumption DEF Scores
<1>2. 1 \in DOMAIN score /\ 1 \notin DOMAIN NoScore
    BY DEF Scores, StatKeys, NoScore
<1> QED
    BY <1>1, <1>2

\* The invariant holds at the start.
LEMMA InitHolds == Init => IInv
BY DEF Init, IInv, CompiledIsOfTheDraft, ConfigIsAsCompiled, MatchFollowsPool,
       SettledAsTheConditionSays

\* Compiling a draft keeps it ...
LEMMA CompileKeeps ==
    ASSUME IInv, NEW legs \in Drafts, Compile(legs)
    PROVE  IInv'
<1>1. config = NoConfig /\ half = NoScore /\ full = NoScore /\ record = NoRecord
    BY DEF Compile, IInv, ConfigIsAsCompiled, MatchFollowsPool, SettledAsTheConditionSays
<1>2. CompiledIsOfTheDraft'
    BY DEF Compile, CompiledIsOfTheDraft
<1> QED
    BY <1>1, <1>2 DEF Compile, IInv, ConfigIsAsCompiled, MatchFollowsPool,
                      SettledAsTheConditionSays

\* ... and editing one ...
LEMMA EditKeeps ==
    ASSUME IInv, Edit
    PROVE  IInv'
<1>1. config = NoConfig /\ half = NoScore /\ full = NoScore /\ record = NoRecord
    BY DEF Edit, IInv, ConfigIsAsCompiled, MatchFollowsPool, SettledAsTheConditionSays
<1>2. CompiledIsOfTheDraft'
    BY DEF Edit, CompiledIsOfTheDraft
<1> QED
    BY <1>1, <1>2 DEF Edit, IInv, ConfigIsAsCompiled, MatchFollowsPool,
                      SettledAsTheConditionSays

\* While nothing is compiled there is nothing compiled: a status tells.
LEMMA CompiledState ==
    ASSUME CompiledIsOfTheDraft, compiled.status = "Compiled"
    PROVE  draft \in Drafts /\ compiled = CompileCondition(draft) /\ CompiledAs(draft, compiled)
<1>1. NotCompiled.status # "Compiled"
    BY DEF NotCompiled, Rejected
<1>2. draft \in Drafts /\ compiled = CompileCondition(draft)
    BY <1>1 DEF CompiledIsOfTheDraft
<1>3. CompiledAs(draft, CompileCondition(draft))
    BY <1>2, CompiledDrafts
<1> QED
    BY <1>2, <1>3

\* ... and creating the pool ...
LEMMA CreatePoolKeeps ==
    ASSUME IInv, CreatePool
    PROVE  IInv'
<1>1. /\ compiled.status = "Compiled" /\ config = NoConfig
      /\ half = NoScore /\ full = NoScore /\ record = NoRecord
    BY DEF CreatePool, IInv, ConfigIsAsCompiled, MatchFollowsPool, SettledAsTheConditionSays
<1>2. StrategyReceived(compiled.strategy) = compiled.strategy
    BY <1>1, CompiledState, CompiledIsAccepted DEF IInv
<1>3. ConfigIsAsCompiled'
    BY <1>1, <1>2 DEF CreatePool, ConfigIsAsCompiled
<1> QED
    BY <1>1, <1>3 DEF CreatePool, IInv, CompiledIsOfTheDraft, MatchFollowsPool,
                      SettledAsTheConditionSays

\* ... and the publication of a score at half time ...
LEMMA HalfTimeKeeps ==
    ASSUME IInv, NEW score \in Scores, HalfTime(score)
    PROVE  IInv'
<1>1. score # NoScore
    BY ScoresAreNumbers
<1> QED
    BY <1>1 DEF HalfTime, IInv, CompiledIsOfTheDraft, ConfigIsAsCompiled, MatchFollowsPool,
                SettledAsTheConditionSays

\* ... or at full time ...
LEMMA FullTimeKeeps ==
    ASSUME IInv, NEW score \in Scores, FullTime(score)
    PROVE  IInv'
<1>1. record = NoRecord
    BY DEF FullTime, IInv, SettledAsTheConditionSays
<1> QED
    BY <1>1 DEF FullTime, IInv, CompiledIsOfTheDraft, ConfigIsAsCompiled, MatchFollowsPool,
                SettledAsTheConditionSays

\* What a proof that binds the pool carries: the final stats of its match.
LEMMA BindingLeaves ==
    ASSUME IInv, config # NoConfig, NEW payload, NEW strategy,
           ValidPayload(payload, strategy), Published(payload)
    PROVE  /\ full # NoScore
           /\ payload.keys = config.statKeys
           /\ LeafValues(payload)
                 = [i \in DOMAIN config.statKeys |-> full[config.statKeys[i]]]
<1>1. /\ payload.keys = config.statKeys /\ payload.fixture = ThisFixture
      /\ \A i \in DOMAIN payload.keys : i \notin payload.ofHalf
    BY DEF ValidPayload, FullGame
<1>2. config.statKeys \in {<<1, 2>>, <<7, 8>>, <<1, 2, 7, 8>>}
    <2>1. compiled.status = "Compiled" /\ config.statKeys = compiled.statKeys
        BY DEF IInv, ConfigIsAsCompiled
    <2> QED
        BY <2>1, CompiledState, KeysOfCompiled DEF IInv
<1>3. 1 \in DOMAIN payload.keys
    BY <1>1, <1>2
<1>4. \A i \in DOMAIN payload.keys : ScoreOf(payload, i) = full
    BY <1>1, ValuesAssumption DEF ScoreOf
<1> QED
    BY <1>1, <1>3, <1>4 DEF Published, LeafValues

\* ... and the settlement, whatever payload it is given.
LEMMA SettlePoolKeeps ==
    ASSUME IInv, NEW payload, NEW strategy, NEW ownRoot, NEW sequence,
           SettlePool(payload, strategy, ownRoot, sequence)
    PROVE  IInv'
<1>1. /\ config # NoConfig /\ ValidPayload(payload, strategy) /\ Published(payload)
      /\ strategy = config.strategy
    BY DEF SettlePool, TxlineAnswers, ValidPayload
<1>2. /\ full # NoScore
      /\ payload.keys = config.statKeys
      /\ LeafValues(payload) = [i \in DOMAIN config.statKeys |-> full[config.statKeys[i]]]
    BY <1>1, BindingLeaves
<1>3. /\ compiled.status = "Compiled" /\ CompiledAs(draft, compiled)
      /\ config.commitment = compiled.legs /\ config.statKeys = compiled.statKeys
      /\ config.strategy = compiled.strategy
    <2>1. compiled.status = "Compiled"
        BY <1>1 DEF IInv, ConfigIsAsCompiled
    <2>2. CompiledAs(draft, compiled)
        BY <2>1, CompiledState DEF IInv
    <2> QED
        BY <1>1, <2>1, <2>2 DEF IInv, ConfigIsAsCompiled
<1> DEFINE values == LeafValues(payload)
<1>4. \A k \in StatKeys : full[k] \in Nat
    BY <1>2, ScoresAreNumbers DEF IInv, MatchFollowsPool
<1>5. \A i \in DOMAIN compiled.statKeys : values[i] = full[compiled.statKeys[i]]
    BY <1>2, <1>3
<1>6. /\ record'.side = IF SatisfiesAll(config.strategy, values) THEN "Yes" ELSE "No"
      /\ record'.statKeys = config.statKeys
      /\ record'.statValues = values
    BY <1>1, <1>2 DEF SettlePool
<1> HIDE DEF values
<1>7. /\ SatisfiesAll(compiled.strategy, values) <=> AllHold(draft, full)
      /\ AllHold(compiled.legs, full) <=> AllHold(draft, full)
    BY <1>3, <1>4, <1>5, CompiledMeansLegs
<1>8. UNCHANGED <<draft, compiled, config, half, full>>
    BY DEF SettlePool
<1>9. AllHold(config'.commitment, full') <=> AllHold(compiled.legs, full)
    BY <1>3, <1>8
<1>10. SettledAsTheConditionSays'
    <2>1. record'.side = IF AllHold(config'.commitment, full') THEN "Yes" ELSE "No"
        BY <1>3, <1>6, <1>7, <1>9
    <2>2. \A i \in DOMAIN record'.statKeys :
             record'.statValues[i] = full'[record'.statKeys[i]]
        BY <1>3, <1>5, <1>6, <1>8
    <2> QED
        BY <1>2, <1>8, <2>1, <2>2 DEF SettledAsTheConditionSays
<1> QED
    BY <1>8, <1>10 DEF IInv, CompiledIsOfTheDraft, ConfigIsAsCompiled, MatchFollowsPool

\* The invariant of the conditions: what the page shows, what the program stores
\* and what a settlement records are of one compilation and one match.
THEOREM Invariant == Spec => []IInv
<1>1. IInv /\ [Next]_vars => IInv'
    <2> SUFFICES ASSUME IInv, [Next]_vars
                 PROVE  IInv'
        OBVIOUS
    <2>1. ASSUME NEW legs \in Drafts, Compile(legs)
          PROVE  IInv'
        BY <2>1, CompileKeeps
    <2>2. CASE Edit
        BY <2>2, EditKeeps
    <2>3. CASE CreatePool
        BY <2>3, CreatePoolKeeps
    <2>4. ASSUME NEW score \in Scores, HalfTime(score)
          PROVE  IInv'
        BY <2>4, HalfTimeKeeps
    <2>5. ASSUME NEW score \in Scores, FullTime(score)
          PROVE  IInv'
        BY <2>5, FullTimeKeeps
    <2>6. ASSUME NEW payload \in Payloads, NEW strategy \in Strategies,
                 NEW ownRoot \in BOOLEAN, NEW sequence \in 0 .. 1,
                 SettlePool(payload, strategy, ownRoot, sequence)
          PROVE  IInv'
        BY <2>6, SettlePoolKeeps
    <2>7. CASE UNCHANGED vars
        BY <2>7 DEF vars, IInv, CompiledIsOfTheDraft, ConfigIsAsCompiled, MatchFollowsPool,
                    SettledAsTheConditionSays
    <2> QED
        BY <2>1, <2>2, <2>3, <2>4, <2>5, <2>6, <2>7 DEF Next
<1> QED
    BY <1>1, InitHolds, PTL DEF Spec

\* Whoever sends settle_pool a proof, of whatever fixture, period, order and
\* strategy: what the program records and pays is what the legs of the creator
\* say of the final stats of the pool's own match.
THEOREM SettlesAsTheConditionSays == Spec => []SettledAsTheConditionSays
BY Invariant, PTL DEF IInv

\* The local evaluation of the compiled condition (evaluateCondition) says of
\* every score what the legs say that the creator typed.
THEOREM EvaluatesTheDraft == Spec => []CompiledMeansDraft
<1>1. IInv => CompiledMeansDraft
    <2> SUFFICES ASSUME IInv, FreshlyCompiled, NEW score \in ProbeScores
                 PROVE  EvaluateCondition(compiled, score)
                           = IF AllHold(draft, score) THEN "yes" ELSE "no"
        BY DEF CompiledMeansDraft
    <2>1. CompiledAs(draft, compiled)
        BY CompiledState DEF IInv, FreshlyCompiled
    <2>2. \A k \in StatKeys : score[k] \in Nat
        BY ValuesAssumption DEF ProbeScores
    <2> QED
        BY <2>1, <2>2, EvaluationMeansLegs
<1> QED
    BY <1>1, Invariant, PTL

\* What the compiler accepts, SettlementConfig::initialize accepts; and the
\* compiler never trips over its own check of coverage.
THEOREM CompilesForTheProgram == Spec => []AcceptedByProgram
<1>1. IInv => AcceptedByProgram
    <2> SUFFICES ASSUME IInv
                 PROVE  AcceptedByProgram
        OBVIOUS
    <2>1. compiled.error # "STRATEGY_INVARIANT"
        <3>1. NotCompiled.error = "none"
            BY DEF NotCompiled, Rejected
        <3> QED
            BY <3>1, NoInternalError DEF IInv, CompiledIsOfTheDraft
    <2>2. FreshlyCompiled => ConfigAccepted(compiled.statKeys, compiled.strategy)
        BY CompiledState, CompiledIsAccepted DEF IInv, FreshlyCompiled
    <2> QED
        BY <2>1, <2>2 DEF AcceptedByProgram
<1> QED
    BY <1>1, Invariant, PTL

\* A local answer given while stats are missing stands when they come in.
THEOREM NeverDecidesEarly == Spec => []MissingMeansUndecided
<1>1. IInv => MissingMeansUndecided
    <2> SUFFICES ASSUME IInv, FreshlyCompiled,
                        NEW score \in ProbeScores, NEW hidden \in SUBSET StatKeys
                 PROVE  EvaluateCondition(compiled,
                           [k \in StatKeys |-> IF k \in hidden THEN Missing ELSE score[k]])
                        \in {"missingStats", EvaluateCondition(compiled, score)}
        BY DEF MissingMeansUndecided
    <2> DEFINE seen == [k \in StatKeys |-> IF k \in hidden THEN Missing ELSE score[k]]
               keys == compiled.statKeys
    <2>1. CompiledAs(draft, compiled)
        BY CompiledState DEF IInv, FreshlyCompiled
    <2>2. \A i \in DOMAIN keys : keys[i] \in StatKeys
        BY <2>1, KeysOfCompiled DEF StatKeys
    <2>3. \A k \in StatKeys : score[k] \in Nat
        BY ValuesAssumption DEF ProbeScores
    <2>4. MissingKeys(compiled, score) = {}
        BY <2>3 DEF MissingKeys, Missing
    <2>5. CASE MissingKeys(compiled, seen) # {}
        BY <2>5 DEF EvaluateCondition
    <2>6. CASE MissingKeys(compiled, seen) = {}
        <3>1. \A i \in DOMAIN keys : keys[i] \notin hidden
            BY <2>2, <2>6 DEF MissingKeys
        <3>2. \A i \in DOMAIN keys : seen[keys[i]] = score[keys[i]]
            BY <2>2, <3>1
        <3>3. [i \in DOMAIN keys |-> seen[keys[i]]] = [i \in DOMAIN keys |-> score[keys[i]]]
            BY <3>2
        <3> HIDE DEF seen
        <3>4. EvaluateCondition(compiled, seen) = EvaluateCondition(compiled, score)
            BY <2>4, <2>6, <3>3 DEF EvaluateCondition
        <3> QED
            BY <3>4 DEF seen
    <2> QED
        BY <2>5, <2>6
<1> QED
    BY <1>1, Invariant, PTL

\* Two legs that sort the same way compile the same way.
LEMMA OnlyTheSortedCount ==
    ASSUME NEW a, NEW b, ValidLeg(a), ValidLeg(b), a # b,
           Sorted(<<a, b>>) = Sorted(<<b, a>>)
    PROVE  CompileCondition(<<a, b>>) = CompileCondition(<<b, a>>)
<1>1. LegError(a) = "none" /\ LegError(b) = "none"
    BY NoErrorMeansValid
<1>2. ConditionError(<<a, b>>) = ConditionError(<<b, a>>)
    BY <1>1 DEF ConditionError, MaxLegs
<1> QED
    BY <1>2 DEF CompileCondition

\* What is compiled does not depend on the order in which the legs were given.
THEOREM OrderDoesNotMatter == Spec => []OrderIsIrrelevant
<1>1. IInv => OrderIsIrrelevant
    <2> SUFFICES ASSUME IInv, FreshlyCompiled, Len(draft) = 2
                 PROVE  CompileCondition(<<draft[2], draft[1]>>) = compiled
        BY DEF OrderIsIrrelevant
    <2>1. CompiledAs(draft, compiled) /\ compiled = CompileCondition(draft)
        BY CompiledState DEF IInv, FreshlyCompiled
    <2>2. PICK g, h : CompiledTwo(draft, compiled, g, h)
        BY <2>1 DEF CompiledAs, CompiledOne
    <2>3. /\ ValidLeg(g) /\ g.kind \in GoalKinds /\ ValidLeg(h) /\ h.kind = "totalCorners"
          /\ draft \in {<<g, h>>, <<h, g>>}
        BY <2>2 DEF CompiledTwo
    <2>4. g # h
        BY <2>3 DEF GoalKinds
    <2>5. CompileCondition(<<g, h>>) = CompileCondition(<<h, g>>)
        BY <2>3, <2>4, GoalsComeFirst, OnlyTheSortedCount
    <2>6. CASE draft = <<g, h>>
        BY <2>1, <2>5, <2>6
    <2>7. CASE draft = <<h, g>>
        BY <2>1, <2>5, <2>7
    <2> QED
        BY <2>3, <2>6, <2>7
<1> QED
    BY <1>1, Invariant, PTL

\* The keeper sends on a proof exactly when the program would take it, but for
\* what only the program looks at: SettlementKeeper and the adapter on one side,
\* validate_payload on the other, each by checks of its own.
THEOREM KeeperAndProgramAgree == Spec => []KeeperAgreesWithProgram
<1>1. IInv => KeeperAgreesWithProgram
    <2> SUFFICES ASSUME IInv, config # NoConfig, NEW answer \in ProofAnswers
                 PROVE  KeeperSubmits(answer) /\ answer.sound
                        <=> ValidPayload(answer, config.strategy) /\ answer.hashes = "bytes"
        BY DEF KeeperAgreesWithProgram
    <2>1. config.statKeys \in {<<1, 2>>, <<7, 8>>, <<1, 2, 7, 8>>}
        <3>1. compiled.status = "Compiled" /\ config.statKeys = compiled.statKeys
            BY DEF IInv, ConfigIsAsCompiled
        <3> QED
            BY <3>1, CompiledState, KeysOfCompiled DEF IInv
    <2>2. IsProofRequest(1, config.statKeys)
        <3> DEFINE keys == config.statKeys
        <3>1. keys # <<>> /\ \A i \in DOMAIN keys : keys[i] > 0
            BY <2>1
        <3>2. IsInjective(<<1, 2>>) /\ IsInjective(<<7, 8>>) /\ IsInjective(<<1, 2, 7, 8>>)
            BY DEF IsInjective
        <3>3. IsInjective(keys)
            BY <2>1, <3>2
        <3> QED
            BY <3>1, <3>3 DEF IsProofRequest
    <2>3. answer.ofHalf \cap DOMAIN answer.keys = {} <=> FullGame(answer)
        BY DEF FullGame
    <2> QED
        BY <2>2, <2>3 DEF KeeperSubmits, IsProofOf, MatchesPool, ValidPayload
<1> QED
    BY <1>1, Invariant, PTL

-----------------------------------------------------------------------------
(* Which scores make legs true                                             *)

ScoreWith(x, y, c, d) ==
    [k \in StatKeys |-> CASE k = 1 -> x [] k = 2 -> y [] k = 7 -> c [] k = 8 -> d]

\* What a leg says of the two values of its own stats.
Says(leg, x, y) ==
    CASE leg.kind = "participantWins" -> IF leg.participant = 1 THEN x > y ELSE y > x
      [] leg.kind = "winningMargin" ->
           IF leg.participant = 1 THEN x - y >= leg.threshold ELSE y - x >= leg.threshold
      [] leg.kind = "bothTeamsScore" -> x > 0 /\ y > 0
      [] leg.kind \in Totals ->
           IF leg.comparison = "atLeast" THEN x + y >= leg.threshold
           ELSE x + y <= leg.threshold

\* What a leg says of two numbers, kind by kind.
LEMMA WhatSaysSays ==
    ASSUME NEW leg, NEW x, NEW y
    PROVE  /\ leg.kind = "participantWins" =>
                 (Says(leg, x, y) <=> IF leg.participant = 1 THEN x > y ELSE y > x)
           /\ leg.kind = "winningMargin" =>
                 (Says(leg, x, y)
                     <=> IF leg.participant = 1 THEN x - y >= leg.threshold
                         ELSE y - x >= leg.threshold)
           /\ leg.kind = "bothTeamsScore" => (Says(leg, x, y) <=> x > 0 /\ y > 0)
           /\ leg.kind \in Totals /\ leg.comparison = "atLeast" =>
                 (Says(leg, x, y) <=> x + y >= leg.threshold)
           /\ leg.kind \in Totals /\ leg.comparison = "atMost" =>
                 (Says(leg, x, y) <=> x + y <= leg.threshold)
<1>1. leg.kind = "participantWins" =>
         (Says(leg, x, y) <=> IF leg.participant = 1 THEN x > y ELSE y > x)
    BY DEF Says, Totals
<1>2. leg.kind = "winningMargin" =>
         (Says(leg, x, y) <=> IF leg.participant = 1 THEN x - y >= leg.threshold
                              ELSE y - x >= leg.threshold)
    BY DEF Says, Totals
<1>3. leg.kind = "bothTeamsScore" => (Says(leg, x, y) <=> x > 0 /\ y > 0)
    BY DEF Says, Totals
<1>4. leg.kind \in Totals /\ leg.comparison = "atLeast" =>
         (Says(leg, x, y) <=> x + y >= leg.threshold)
    BY DEF Says, Totals
<1>5. leg.kind \in Totals /\ leg.comparison = "atMost" =>
         (Says(leg, x, y) <=> x + y <= leg.threshold)
    BY DEF Says, Totals
<1> QED
    BY <1>1, <1>2, <1>3, <1>4, <1>5

\* A leg holds for a score when it says so of its two statistics.
LEMMA SaysWhatItHolds ==
    ASSUME NEW leg, ValidLeg(leg), NEW score, \A k \in StatKeys : score[k] \in Nat
    PROVE  Holds(leg, score) <=> Says(leg, score[KeysOf(leg.kind)[1]], score[KeysOf(leg.kind)[2]])
<1>1. leg.kind \in Kinds
    BY DEF ValidLeg
<1>2. CASE leg.kind \in {"participantWins", "winningMargin"}
    <2>1. leg.participant \in {1, 2}
        BY <1>2, ThresholdsAreIntegers
    <2> DEFINE x == score[KeysOf(leg.kind)[1]]
               y == score[KeysOf(leg.kind)[2]]
    <2>2. Lead(leg.participant, score) = IF leg.participant = 1 THEN x - y ELSE y - x
        BY <1>2, <2>1 DEF Lead, Opponent, KeysOf, Goals
    <2>3. x \in Nat /\ y \in Nat
        BY DEF KeysOf, Goals, Corners, StatKeys
    <2> HIDE DEF x, y
    <2>4. leg.kind = "participantWins" => (Holds(leg, score) <=> Says(leg, x, y))
        BY <2>3, <2>2, WhatSaysSays, WhatLegsSay
    <2>5. leg.kind = "winningMargin" => (Holds(leg, score) <=> Says(leg, x, y))
        BY <2>2, WhatSaysSays, WhatLegsSay
    <2> QED
        BY <1>2, <2>4, <2>5 DEF x, y
<1>3. CASE leg.kind = "bothTeamsScore"
    BY <1>3 DEF Says, Holds, Totals, KeysOf, Goals
<1>4. CASE leg.kind \in Totals
    <2>1. leg.comparison \in {"atLeast", "atMost"}
        BY <1>4, ThresholdsAreIntegers DEF Comparisons
    <2>2. Total(leg.kind, score) = score[KeysOf(leg.kind)[1]] + score[KeysOf(leg.kind)[2]]
        BY DEF Total
    <2> QED
        BY <1>4, <2>1, <2>2, WhatSaysSays, WhatLegsSay
<1> QED
    BY <1>1, <1>2, <1>3, <1>4 DEF Kinds

\* A score with given goals and corners.
LEMMA ScoresWith ==
    ASSUME NEW x, NEW y, NEW c, NEW d
    PROVE  /\ ScoreWith(x, y, c, d)[1] = x /\ ScoreWith(x, y, c, d)[2] = y
           /\ ScoreWith(x, y, c, d)[7] = c /\ ScoreWith(x, y, c, d)[8] = d
           /\ x \in ProbeValues /\ y \in ProbeValues /\ c \in ProbeValues /\ d \in ProbeValues =>
                 ScoreWith(x, y, c, d) \in ProbeScores
BY DEF ScoreWith, StatKeys, ProbeScores

\* A leg on such a score is about its goals or its corners.
LEMMA HoldsWith ==
    ASSUME NEW leg, ValidLeg(leg), NEW x \in Nat, NEW y \in Nat, NEW c \in Nat, NEW d \in Nat
    PROVE  /\ leg.kind \in GoalKinds =>
                 (Holds(leg, ScoreWith(x, y, c, d)) <=> Says(leg, x, y))
           /\ leg.kind = "totalCorners" =>
                 (Holds(leg, ScoreWith(x, y, c, d)) <=> Says(leg, c, d))
<1> DEFINE score == ScoreWith(x, y, c, d)
<1>1. score[1] = x /\ score[2] = y /\ score[7] = c /\ score[8] = d
    BY ScoresWith
<1>2. Holds(leg, score) <=> Says(leg, score[KeysOf(leg.kind)[1]], score[KeysOf(leg.kind)[2]])
    BY <1>1, SaysWhatItHolds DEF StatKeys
<1> HIDE DEF score
<1>3. leg.kind \in GoalKinds => (Holds(leg, score) <=> Says(leg, x, y))
    BY <1>1, <1>2, KeysOfKinds DEF Goals
<1>4. leg.kind = "totalCorners" => (Holds(leg, score) <=> Says(leg, c, d))
    BY <1>1, <1>2, KeysOfKinds DEF Corners
<1> QED
    BY <1>3, <1>4 DEF score

Values == 0 .. 60

\* The bounds of the thresholds leave every leg a score that makes it true.
LEMMA LowestScores ==
    ASSUME NEW leg, ValidLeg(leg)
    PROVE  \E x, y \in Values :
              /\ Says(leg, x, y)
              /\ leg.kind \in GoalKinds => x + y = MinimumGoals(leg)
<1>1. leg.kind \in Kinds /\ leg.threshold \in 0 .. 60
    BY DEF ValidLeg, WellFormed, Bounds, Kinds, Totals, MaxGoalThreshold, MaxCornerThreshold,
           MaxWinningMargin
<1>2. CASE leg.kind = "participantWins"
    <2>1. leg.participant = 1 => Says(leg, 1, 0)
        BY <1>2 DEF Says, Totals
    <2>2. leg.participant = 2 => Says(leg, 0, 1)
        BY <1>2 DEF Says, Totals
    <2>3. MinimumGoals(leg) = 1
        BY <1>2 DEF MinimumGoals
    <2> QED
        BY <1>2, <2>1, <2>2, <2>3, ThresholdsAreIntegers DEF Values
<1>3. CASE leg.kind = "winningMargin"
    <2>1. leg.participant = 1 => Says(leg, leg.threshold, 0)
        BY <1>1, <1>3 DEF Says, Totals
    <2>2. leg.participant = 2 => Says(leg, 0, leg.threshold)
        BY <1>1, <1>3 DEF Says, Totals
    <2>3. MinimumGoals(leg) = leg.threshold
        BY <1>3 DEF MinimumGoals
    <2> QED
        BY <1>1, <1>3, <2>1, <2>2, <2>3, ThresholdsAreIntegers DEF Values
<1>4. CASE leg.kind = "bothTeamsScore"
    BY <1>4 DEF Says, Totals, MinimumGoals, Values
<1>5. CASE leg.kind \in Totals /\ leg.comparison = "atLeast"
    <2>1. Says(leg, leg.threshold, 0)
        BY <1>1, <1>5, WhatSaysSays
    <2>2. leg.kind \in GoalKinds => MinimumGoals(leg) = leg.threshold
        BY <1>5 DEF MinimumGoals, GoalKinds, Totals
    <2> QED
        BY <1>1, <2>1, <2>2 DEF Values
<1>6. CASE leg.kind \in Totals /\ leg.comparison = "atMost"
    <2>1. Says(leg, 0, 0)
        BY <1>1, <1>6, WhatSaysSays
    <2>2. leg.kind \in GoalKinds => MinimumGoals(leg) = 0
        BY <1>6 DEF MinimumGoals, GoalKinds, Totals
    <2> QED
        BY <2>1, <2>2 DEF Values
<1> QED
    BY <1>1, <1>2, <1>3, <1>4, <1>5, <1>6, ThresholdsAreIntegers DEF Kinds, Comparisons

\* And one that makes it false.
LEMMA LosingScores ==
    ASSUME NEW leg, ValidLeg(leg)
    PROVE  \E x, y \in Values : ~Says(leg, x, y)
<1>1. leg.kind \in Kinds /\ leg.threshold \in 0 .. 60
    BY DEF ValidLeg, WellFormed, Bounds, Kinds, Totals, MaxGoalThreshold, MaxCornerThreshold,
           MaxWinningMargin
<1>2. CASE leg.kind \in Totals /\ leg.comparison = "atMost"
    <2>1. ~Says(leg, 60, 1)
        BY <1>1, <1>2, WhatSaysSays
    <2> QED
        BY <2>1 DEF Values
<1>3. CASE ~(leg.kind \in Totals /\ leg.comparison = "atMost")
    <2>1. ~Says(leg, 0, 0)
        <3>1. CASE leg.kind \in Totals
            BY <1>1, <1>3, <3>1, ThresholdsAreIntegers, WhatSaysSays DEF Comparisons
        <3>2. CASE leg.kind = "winningMargin"
            BY <1>1, <3>2, ThresholdsAreIntegers, WhatSaysSays
        <3>3. CASE leg.kind \in {"participantWins", "bothTeamsScore"}
            BY <3>3, WhatSaysSays
        <3> QED
            BY <1>1, <3>1, <3>2, <3>3 DEF Kinds
    <2> QED
        BY <2>1 DEF Values
<1> QED
    BY <1>2, <1>3

\* A high score of one side makes true every leg on goals that asks for neither
\* few goals nor a win of the other side.
LEMMA HighScores ==
    ASSUME NEW leg, ValidLeg(leg), leg.kind \in GoalKinds, ~LimitsGoals(leg)
    PROVE  /\ Winner(leg) # 2 => Says(leg, 60, 1)
           /\ Winner(leg) # 1 => Says(leg, 1, 60)
<1>1. leg.kind \in GoalKinds /\ leg.threshold \in 0 .. 30
    <2>1. leg.kind \in {"participantWins", "winningMargin", "bothTeamsScore", "totalGoals"}
        BY DEF GoalKinds, Kinds, Totals
    <2>2. Bounds(leg.kind) \subseteq 0 .. 30
        BY <2>1 DEF Bounds, MaxGoalThreshold, MaxWinningMargin
    <2> QED
        BY <2>2 DEF ValidLeg, WellFormed
<1>2. CASE leg.kind = "participantWins"
    BY <1>2, ThresholdsAreIntegers, WhatSaysSays DEF Winner
<1>3. CASE leg.kind = "winningMargin"
    BY <1>1, <1>3, ThresholdsAreIntegers, WhatSaysSays DEF Winner
<1>4. CASE leg.kind = "bothTeamsScore"
    BY <1>4 DEF Says, Totals
<1>5. CASE leg.kind = "totalGoals"
    <2>1. leg.comparison = "atLeast"
        BY <1>5, ThresholdsAreIntegers DEF LimitsGoals, Totals, Comparisons
    <2> QED
        BY <1>1, <1>5, <2>1, WhatSaysSays DEF Totals
<1> QED
    BY <1>1, <1>2, <1>3, <1>4, <1>5 DEF GoalKinds, Kinds, Totals

-----------------------------------------------------------------------------
(* Contradictions                                                          *)

\* No score with fewer goals than that makes a leg true.
LEMMA GoalsAreNeeded ==
    ASSUME NEW leg, ValidLeg(leg), NEW score, \A k \in StatKeys : score[k] \in Nat,
           Holds(leg, score)
    PROVE  /\ score[1] + score[2] >= MinimumGoals(leg)
           /\ Winner(leg) = 1 => score[1] > score[2]
           /\ Winner(leg) = 2 => score[2] > score[1]
           /\ LimitsGoals(leg) => score[1] + score[2] <= leg.threshold
<1> DEFINE x == score[1]
           y == score[2]
<1>1. /\ leg.kind \in Kinds /\ x \in Nat /\ y \in Nat /\ leg.threshold \in Nat
    BY ThresholdsAreIntegers DEF ValidLeg, StatKeys
<1>2. leg.kind \in GoalKinds => Says(leg, x, y)
    BY SaysWhatItHolds, KeysOfKinds DEF Goals
<1> HIDE DEF x, y
<1>3. CASE leg.kind = "participantWins"
    <2>1. MinimumGoals(leg) = 1 /\ ~LimitsGoals(leg) /\ Winner(leg) = leg.participant
        BY <1>3 DEF MinimumGoals, LimitsGoals, Winner
    <2>2. IF leg.participant = 1 THEN x > y ELSE y > x
        BY <1>2, <1>3, WhatSaysSays DEF GoalKinds, Kinds
    <2> QED
        BY <1>1, <1>3, <2>1, <2>2, ThresholdsAreIntegers DEF x, y
<1>4. CASE leg.kind = "winningMargin"
    <2>1. MinimumGoals(leg) = leg.threshold /\ ~LimitsGoals(leg) /\ Winner(leg) = leg.participant
        BY <1>4 DEF MinimumGoals, LimitsGoals, Winner
    <2>2. IF leg.participant = 1 THEN x - y >= leg.threshold ELSE y - x >= leg.threshold
        BY <1>2, <1>4, WhatSaysSays DEF GoalKinds, Kinds
    <2> QED
        BY <1>1, <1>4, <2>1, <2>2, ThresholdsAreIntegers DEF x, y
<1>5. CASE leg.kind = "bothTeamsScore"
    <2>1. MinimumGoals(leg) = 2 /\ ~LimitsGoals(leg) /\ Winner(leg) = 0
        BY <1>5 DEF MinimumGoals, LimitsGoals, Winner, NoParticipant
    <2>2. x > 0 /\ y > 0
        BY <1>2, <1>5, WhatSaysSays DEF GoalKinds, Kinds
    <2> QED
        BY <1>1, <2>1, <2>2 DEF x, y
<1>6. CASE leg.kind = "totalGoals" /\ leg.comparison = "atLeast"
    <2>1. MinimumGoals(leg) = leg.threshold /\ ~LimitsGoals(leg) /\ Winner(leg) = 0
        BY <1>6 DEF MinimumGoals, LimitsGoals, Winner, NoParticipant
    <2>2. x + y >= leg.threshold
        BY <1>2, <1>6, WhatSaysSays DEF GoalKinds, Kinds, Totals
    <2> QED
        BY <1>1, <2>1, <2>2 DEF x, y
<1>7. CASE leg.kind = "totalGoals" /\ leg.comparison = "atMost"
    <2>1. MinimumGoals(leg) = 0 /\ Winner(leg) = 0
        BY <1>7 DEF MinimumGoals, Winner, NoParticipant
    <2>2. x + y <= leg.threshold
        BY <1>2, <1>7, WhatSaysSays DEF GoalKinds, Kinds, Totals
    <2> QED
        BY <1>1, <2>1, <2>2 DEF x, y
<1>8. CASE leg.kind = "totalCorners"
    <2>1. MinimumGoals(leg) = 0 /\ ~LimitsGoals(leg) /\ Winner(leg) = 0
        BY <1>8 DEF MinimumGoals, LimitsGoals, Winner, NoParticipant
    <2> QED
        BY <1>1, <2>1 DEF x, y
<1>9. leg.kind = "totalGoals" => leg.comparison \in {"atLeast", "atMost"}
    BY ThresholdsAreIntegers DEF Totals, Comparisons
<1> QED
    BY <1>1, <1>3, <1>4, <1>5, <1>6, <1>7, <1>8, <1>9 DEF Kinds, Totals

\* No score makes two contradicting legs true.
LEMMA ContradictMeansNever ==
    ASSUME NEW a, ValidLeg(a), NEW b, ValidLeg(b), Contradict(a, b),
           NEW score, \A k \in StatKeys : score[k] \in Nat
    PROVE  ~(Holds(a, score) /\ Holds(b, score))
<1> SUFFICES ASSUME Holds(a, score), Holds(b, score)
             PROVE  FALSE
    OBVIOUS
<1> DEFINE x == score[1]
           y == score[2]
<1>1. x \in Nat /\ y \in Nat /\ a.threshold \in Nat /\ b.threshold \in Nat
    BY ThresholdsAreIntegers DEF StatKeys
<1>2. \A leg \in {a, b} :
         /\ x + y >= MinimumGoals(leg)
         /\ Winner(leg) = 1 => x > y
         /\ Winner(leg) = 2 => y > x
         /\ LimitsGoals(leg) => x + y <= leg.threshold
    BY GoalsAreNeeded
<1> HIDE DEF x, y
<1>3. \A leg \in {a, b} : Winner(leg) \in {0, 1, 2}
    BY ThresholdsAreIntegers DEF Winner, NoParticipant
<1>4. CASE /\ Winner(a) # NoParticipant /\ Winner(b) # NoParticipant
           /\ Winner(a) # Winner(b)
    BY <1>1, <1>2, <1>3, <1>4 DEF NoParticipant
<1>5. ASSUME a.kind = b.kind, a.kind \in Totals,
             NEW lower \in {a, b}, NEW upper \in {a, b},
             lower.comparison = "atLeast", upper.comparison = "atMost",
             lower.threshold > upper.threshold
      PROVE  FALSE
    <2> DEFINE total == Total(a.kind, score)
    <2>1. total >= lower.threshold
        BY <1>5, WhatLegsSay
    <2>2. total <= upper.threshold
        BY <1>5, WhatLegsSay
    <2>3. total \in Nat
        BY DEF Total, KeysOf, Goals, Corners, StatKeys
    <2> HIDE DEF total
    <2> QED
        BY <1>1, <1>5, <2>1, <2>2, <2>3
<1>6. ASSUME LimitsGoals(a), MinimumGoals(IF a.kind = "totalGoals" THEN b ELSE a) > a.threshold
      PROVE  FALSE
    <2>1. MinimumGoals(b) > a.threshold
        BY <1>6 DEF LimitsGoals
    <2>2. x + y >= MinimumGoals(b) /\ x + y <= a.threshold
        BY <1>2, <1>6
    <2>3. MinimumGoals(b) \in Nat
        BY <1>1 DEF MinimumGoals
    <2> QED
        BY <1>1, <2>1, <2>2, <2>3
<1>7. ASSUME LimitsGoals(b), MinimumGoals(IF a.kind = "totalGoals" THEN b ELSE a) > b.threshold
      PROVE  FALSE
    <2>1. MinimumGoals(b) = 0
        BY <1>7 DEF LimitsGoals, MinimumGoals
    <2>2. MinimumGoals(a) > b.threshold
        BY <1>1, <1>7, <2>1
    <2>3. x + y >= MinimumGoals(a) /\ x + y <= b.threshold
        BY <1>2, <1>7
    <2>4. MinimumGoals(a) \in Nat
        BY <1>1 DEF MinimumGoals
    <2> QED
        BY <1>1, <2>2, <2>3, <2>4
<1> QED
    BY <1>4, <1>5, <1>6, <1>7 DEF Contradict

\* Legs on different stats never exclude each other.
LEMMA OpenTogether ==
    ASSUME Values \subseteq ProbeValues, NEW g, ValidLeg(g), g.kind \in GoalKinds,
           NEW h, ValidLeg(h), h.kind = "totalCorners"
    PROVE  /\ \E score \in ProbeScores : Holds(g, score) /\ Holds(h, score)
           /\ \E score \in ProbeScores : ~Holds(g, score)
<1>1. PICK x \in Values, y \in Values : Says(g, x, y)
    BY LowestScores
<1>2. PICK c \in Values, d \in Values : Says(h, c, d)
    BY LowestScores
<1>3. PICK v \in Values, w \in Values : ~Says(g, v, w)
    BY LosingScores
<1>4. /\ x \in Nat /\ y \in Nat /\ c \in Nat /\ d \in Nat /\ v \in Nat /\ w \in Nat
      /\ x \in ProbeValues /\ y \in ProbeValues /\ c \in ProbeValues /\ d \in ProbeValues
      /\ v \in ProbeValues /\ w \in ProbeValues
    BY DEF Values
<1>5. ScoreWith(x, y, c, d) \in ProbeScores /\ ScoreWith(v, w, c, d) \in ProbeScores
    BY <1>4, ScoresWith
<1>6. Holds(g, ScoreWith(x, y, c, d)) /\ Holds(h, ScoreWith(x, y, c, d))
    BY <1>1, <1>2, <1>4, HoldsWith
<1>7. ~Holds(g, ScoreWith(v, w, c, d))
    BY <1>3, <1>4, HoldsWith
<1> QED
    BY <1>5, <1>6, <1>7

\* Nothing is refused in vain: valid legs of which no score makes both true
\* are told to contradict each other.
LEMMA NoContradictionOnGoals ==
    ASSUME NEW a, ValidLeg(a), a.kind \in GoalKinds, NEW b, ValidLeg(b), b.kind \in GoalKinds,
           ~Contradict(a, b)
    PROVE  \E x, y \in Values : Says(a, x, y) /\ Says(b, x, y)
<1>1. /\ a.threshold \in Nat /\ b.threshold \in Nat
      /\ MinimumGoals(a) \in Nat /\ MinimumGoals(b) \in Nat
    BY ThresholdsAreIntegers DEF MinimumGoals
<1>2. ASSUME NEW l, NEW o, ValidLeg(o), o.kind \in GoalKinds, LimitsGoals(l),
             MinimumGoals(o) <= l.threshold
      PROVE  \E x, y \in Values : Says(l, x, y) /\ Says(o, x, y)
    <2>1. PICK x \in Values, y \in Values : Says(o, x, y) /\ x + y = MinimumGoals(o)
        BY <1>2, LowestScores
    <2>2. Says(l, x, y)
        BY <1>2, <2>1, WhatSaysSays DEF LimitsGoals, Totals
    <2> QED
        BY <2>1, <2>2
<1>3. CASE LimitsGoals(a)
    <2>1. ~(MinimumGoals(b) > a.threshold)
        BY <1>3 DEF Contradict, LimitsGoals
    <2> QED
        BY <1>1, <1>2, <1>3, <2>1
<1>4. CASE ~LimitsGoals(a) /\ LimitsGoals(b)
    <2>1. MinimumGoals(a) <= b.threshold
        <3>1. CASE a.kind = "totalGoals"
            <4>1. a.comparison = "atLeast" /\ b.comparison = "atMost" /\ b.kind = "totalGoals"
                BY <1>4, <3>1, ThresholdsAreIntegers DEF LimitsGoals, Totals, Comparisons
            <4>2. ~(a.threshold > b.threshold)
                BY <3>1, <4>1 DEF Contradict, Totals
            <4>3. MinimumGoals(a) = a.threshold
                BY <3>1, <4>1 DEF MinimumGoals
            <4> QED
                BY <1>1, <4>2, <4>3
        <3>2. CASE a.kind # "totalGoals"
            <4>1. ~(MinimumGoals(a) > b.threshold)
                BY <1>4, <3>2 DEF Contradict
            <4> QED
                BY <1>1, <4>1
        <3> QED
            BY <3>1, <3>2
    <2> QED
        BY <1>2, <1>4, <2>1
<1>5. CASE ~LimitsGoals(a) /\ ~LimitsGoals(b)
    <2>1. Winner(a) \in {0, 1, 2} /\ Winner(b) \in {0, 1, 2}
        BY ThresholdsAreIntegers DEF Winner, NoParticipant
    <2>2. Winner(a) = 0 \/ Winner(b) = 0 \/ Winner(a) = Winner(b)
        BY DEF Contradict, NoParticipant
    <2>3. (Winner(a) # 2 /\ Winner(b) # 2) \/ (Winner(a) # 1 /\ Winner(b) # 1)
        BY <2>1, <2>2
    <2>4. 60 \in Values /\ 1 \in Values
        BY DEF Values
    <2> QED
        BY <1>5, <2>3, <2>4, HighScores
<1> QED
    BY <1>3, <1>4, <1>5

\* Two legs about the corners that do not contradict have a score in common ...
LEMMA NoContradictionOnCorners ==
    ASSUME NEW a, ValidLeg(a), a.kind = "totalCorners",
           NEW b, ValidLeg(b), b.kind = "totalCorners", ~Contradict(a, b)
    PROVE  \E x, y \in Values : Says(a, x, y) /\ Says(b, x, y)
<1>1. /\ a.threshold \in 0 .. 60 /\ b.threshold \in 0 .. 60
      /\ a.comparison \in {"atLeast", "atMost"} /\ b.comparison \in {"atLeast", "atMost"}
      /\ a.kind \in Totals /\ b.kind \in Totals
    <2>1. Bounds("totalCorners") = 0 .. 60
        BY DEF Bounds, MaxCornerThreshold
    <2> QED
        BY <2>1 DEF ValidLeg, WellFormed, Totals, Comparisons
<1>2. \A lower, upper \in {a, b} :
         lower.comparison = "atLeast" /\ upper.comparison = "atMost" =>
            lower.threshold <= upper.threshold
    BY <1>1 DEF Contradict
<1> DEFINE low(leg) == IF leg.comparison = "atLeast" THEN leg.threshold ELSE 0
           n == IF low(a) >= low(b) THEN low(a) ELSE low(b)
<1>3. n \in 0 .. 60
    BY <1>1
<1>4. \A leg \in {a, b} : IF leg.comparison = "atLeast" THEN n + 0 >= leg.threshold
                          ELSE n + 0 <= leg.threshold
    BY <1>1, <1>2
<1> HIDE DEF n
<1>5. Says(a, n, 0) /\ Says(b, n, 0)
    BY <1>1, <1>4, WhatSaysSays
<1> QED
    BY <1>3, <1>5 DEF Values

\* ... and so have any two legs.
LEMMA NoContradictionMeansSome ==
    ASSUME Values \subseteq ProbeValues,
           NEW a, ValidLeg(a), NEW b, ValidLeg(b), ~Contradict(a, b)
    PROVE  \E score \in ProbeScores : Holds(a, score) /\ Holds(b, score)
<1>1. 0 \in Nat /\ 0 \in Values
    BY DEF Values
<1>2. ASSUME NEW x \in Values, NEW y \in Values
      PROVE  /\ x \in Nat /\ y \in Nat
             /\ ScoreWith(x, y, 0, 0) \in ProbeScores /\ ScoreWith(0, 0, x, y) \in ProbeScores
    <2>1. x \in ProbeValues /\ y \in ProbeValues /\ 0 \in ProbeValues /\ x \in Nat /\ y \in Nat
        BY <1>1 DEF Values
    <2> QED
        BY <2>1, ScoresWith
<1>3. CASE a.kind \in GoalKinds /\ b.kind \in GoalKinds
    <2>1. PICK x \in Values, y \in Values : Says(a, x, y) /\ Says(b, x, y)
        BY <1>3, NoContradictionOnGoals
    <2>2. Holds(a, ScoreWith(x, y, 0, 0)) /\ Holds(b, ScoreWith(x, y, 0, 0))
        BY <1>1, <1>2, <1>3, <2>1, HoldsWith
    <2> QED
        BY <1>2, <2>2
<1>4. CASE a.kind = "totalCorners" /\ b.kind = "totalCorners"
    <2>1. PICK x \in Values, y \in Values : Says(a, x, y) /\ Says(b, x, y)
        BY <1>4, NoContradictionOnCorners
    <2>2. Holds(a, ScoreWith(0, 0, x, y)) /\ Holds(b, ScoreWith(0, 0, x, y))
        BY <1>1, <1>2, <1>4, <2>1, HoldsWith
    <2> QED
        BY <1>2, <2>2
<1> QED
    BY <1>3, <1>4, KeysOfKinds, OpenTogether

\* One leg alone is open as well.
LEMMA OneLegIsOpen ==
    ASSUME Values \subseteq ProbeValues, NEW leg, ValidLeg(leg)
    PROVE  /\ \E score \in ProbeScores : Holds(leg, score)
           /\ \E score \in ProbeScores : ~Holds(leg, score)
<1>1. PICK x \in Values, y \in Values : Says(leg, x, y)
    BY LowestScores
<1>2. PICK v \in Values, w \in Values : ~Says(leg, v, w)
    BY LosingScores
<1>3. /\ x \in Nat /\ y \in Nat /\ v \in Nat /\ w \in Nat
      /\ x \in ProbeValues /\ y \in ProbeValues /\ v \in ProbeValues /\ w \in ProbeValues
    BY DEF Values
<1>4. ScoreWith(x, y, x, y) \in ProbeScores /\ ScoreWith(v, w, v, w) \in ProbeScores
    BY <1>3, ScoresWith
<1>5. Holds(leg, ScoreWith(x, y, x, y)) /\ ~Holds(leg, ScoreWith(v, w, v, w))
    BY <1>1, <1>2, <1>3, HoldsWith, KeysOfKinds
<1> QED
    BY <1>4, <1>5

\* Contradictory legs are reported when the checks found them.
LEMMA ErrorsOfDrafts ==
    ASSUME NEW legs \in Drafts,
           CompileCondition(legs).error
              \in {"none", "CONTRADICTORY_LEGS", "DUPLICATE_STAT_COVERAGE"}
    PROVE  /\ ConditionError(legs) \in {"none", "CONTRADICTORY_LEGS"}
           /\ CompileCondition(legs).error = "CONTRADICTORY_LEGS"
                 <=> ConditionError(legs) = "CONTRADICTORY_LEGS"
<1>1. \A error : Rejected(error).error = error
    BY DEF Rejected
<1>2. ConditionError(legs) # "DUPLICATE_STAT_COVERAGE"
    BY DEF ConditionError, LegError
<1>3. CASE ConditionError(legs) = "none"
    <2>1. CompileCondition(legs).error # "CONTRADICTORY_LEGS"
        BY <1>1, <1>3 DEF CompileCondition, CompileSorted
    <2> QED
        BY <1>3, <2>1
<1>4. CASE ConditionError(legs) # "none"
    <2>1. CompileCondition(legs).error = ConditionError(legs)
        BY <1>1, <1>4 DEF CompileCondition
    <2> QED
        BY <1>2, <1>4, <2>1
<1> QED
    BY <1>3, <1>4

\* A draft is reported as contradictory exactly when no score satisfies all its legs.
LEMMA ExactOnDrafts ==
    ASSUME Values \subseteq ProbeValues, NEW legs \in Drafts,
           ConditionError(legs) \in {"none", "CONTRADICTORY_LEGS"}
    PROVE  ConditionError(legs) = "CONTRADICTORY_LEGS"
              <=> ~ \E score \in ProbeScores : AllHold(legs, score)
<1>1. ASSUME NEW leg, ValidLeg(leg), legs = <<leg>>
      PROVE  ConditionError(legs) = "CONTRADICTORY_LEGS"
                <=> ~ \E score \in ProbeScores : AllHold(legs, score)
    <2>1. \E score \in ProbeScores : Holds(leg, score)
        BY <1>1, OneLegIsOpen
    <2>2. \A score : AllHold(<<leg>>, score) <=> Holds(leg, score)
        BY DEF AllHold
    <2>3. ConditionError(<<leg>>) = "none"
        <3>1. LegError(leg) = "none"
            BY <1>1, NoErrorMeansValid
        <3>2. <<leg>>[1] = leg /\ Len(<<leg>>) = 1
            OBVIOUS
        <3> QED
            BY <3>1, <3>2 DEF ConditionError, MaxLegs
    <2> QED
        BY <1>1, <2>1, <2>2, <2>3
<1>2. ASSUME NEW a, NEW b, ValidLeg(a), ValidLeg(b), a # b, legs = <<a, b>>
      PROVE  ConditionError(legs) = "CONTRADICTORY_LEGS"
                <=> ~ \E score \in ProbeScores : AllHold(legs, score)
    <2>1. \A score : AllHold(<<a, b>>, score) <=> Holds(a, score) /\ Holds(b, score)
        BY DEF AllHold
    <2>2. PICK l, r : /\ <<l, r>> = Sorted(legs)
                      /\ (l = a /\ r = b) \/ (l = b /\ r = a)
        <3>1. Sorted(legs) \in {<<a, b>>, <<b, a>>}
            BY <1>2 DEF Sorted
        <3> QED
            BY <3>1
    <2>3. ConditionError(legs) = IF Contradict(l, r) THEN "CONTRADICTORY_LEGS" ELSE "none"
        <3>1. LegError(a) = "none" /\ LegError(b) = "none"
            BY <1>2, NoErrorMeansValid
        <3>2. Len(<<a, b>>) = 2 /\ <<a, b>>[1] = a /\ <<a, b>>[2] = b
            OBVIOUS
        <3>3. Sorted(legs)[1] = l /\ Sorted(legs)[2] = r
            <4>1. <<l, r>>[1] = l /\ <<l, r>>[2] = r
                OBVIOUS
            <4> QED
                BY <2>2, <4>1
        <3> QED
            BY <1>2, <3>1, <3>2, <3>3 DEF ConditionError, MaxLegs
    <2>4. CASE Contradict(l, r)
        <3>1. ASSUME NEW score \in ProbeScores
              PROVE  ~(Holds(l, score) /\ Holds(r, score))
            <4>1. \A k \in StatKeys : score[k] \in Nat
                BY ValuesAssumption DEF ProbeScores
            <4> QED
                BY <1>2, <2>2, <2>4, <4>1, ContradictMeansNever
        <3> QED
            BY <1>2, <2>1, <2>2, <2>3, <2>4, <3>1
    <2>5. CASE ~Contradict(l, r)
        <3>1. \E score \in ProbeScores : Holds(l, score) /\ Holds(r, score)
            BY <1>2, <2>2, <2>5, NoContradictionMeansSome
        <3> QED
            BY <1>2, <2>1, <2>2, <2>3, <2>5, <3>1
    <2> QED
        BY <2>4, <2>5
<1> QED
    BY <1>1, <1>2, AcceptedDrafts

\* The browser refuses legs as contradictory exactly when no score makes them
\* all true (validatePair); scores up to 60 are enough to tell.
THEOREM RefusesOnlyContradictions ==
    ASSUME Values \subseteq ProbeValues
    PROVE  Spec => []ContradictionsAreExact
<1>1. IInv => ContradictionsAreExact
    <2> SUFFICES ASSUME IInv, draft # <<>>,
                        compiled.error \in {"none", "CONTRADICTORY_LEGS", "DUPLICATE_STAT_COVERAGE"}
                 PROVE  compiled.error = "CONTRADICTORY_LEGS"
                           <=> ~ \E score \in ProbeScores : AllHold(draft, score)
        BY DEF ContradictionsAreExact
    <2>1. draft \in Drafts /\ compiled = CompileCondition(draft)
        BY DEF IInv, CompiledIsOfTheDraft
    <2> QED
        BY <2>1, ErrorsOfDrafts, ExactOnDrafts
<1> QED
    BY <1>1, Invariant, PTL

\* What compiles can still be won by either side when the pool opens.
THEOREM AcceptsOnlyOpenConditions ==
    ASSUME Values \subseteq ProbeValues
    PROVE  Spec => []AcceptedIsOpen
<1>1. IInv => AcceptedIsOpen
    <2> SUFFICES ASSUME IInv, FreshlyCompiled
                 PROVE  /\ \E score \in ProbeScores : AllHold(draft, score)
                        /\ \E score \in ProbeScores : ~AllHold(draft, score)
        BY DEF AcceptedIsOpen
    <2>1. CompiledAs(draft, compiled)
        BY CompiledState DEF IInv, FreshlyCompiled
    <2>2. ASSUME NEW leg, CompiledOne(draft, compiled, leg)
          PROVE  /\ \E score \in ProbeScores : AllHold(draft, score)
                 /\ \E score \in ProbeScores : ~AllHold(draft, score)
        <3>1. ValidLeg(leg) /\ draft = <<leg>>
            BY <2>2 DEF CompiledOne
        <3>2. \A score : AllHold(<<leg>>, score) <=> Holds(leg, score)
            BY DEF AllHold
        <3> QED
            BY <3>1, <3>2, OneLegIsOpen
    <2>3. ASSUME NEW g, NEW h, CompiledTwo(draft, compiled, g, h)
          PROVE  /\ \E score \in ProbeScores : AllHold(draft, score)
                 /\ \E score \in ProbeScores : ~AllHold(draft, score)
        <3>1. /\ ValidLeg(g) /\ g.kind \in GoalKinds /\ ValidLeg(h) /\ h.kind = "totalCorners"
              /\ draft = <<g, h>> \/ draft = <<h, g>>
            BY <2>3 DEF CompiledTwo
        <3>2. \A score : /\ AllHold(<<g, h>>, score) <=> Holds(g, score) /\ Holds(h, score)
                         /\ AllHold(<<h, g>>, score) <=> Holds(g, score) /\ Holds(h, score)
            BY DEF AllHold
        <3>3. /\ \E score \in ProbeScores : Holds(g, score) /\ Holds(h, score)
              /\ \E score \in ProbeScores : ~Holds(g, score)
            BY <3>1, OpenTogether
        <3> QED
            BY <3>1, <3>2, <3>3
    <2> QED
        BY <2>1, <2>2, <2>3 DEF CompiledAs
<1> QED
    BY <1>1, Invariant, PTL
=============================================================================
