------------------------- MODULE MatchCenterProofs -------------------------
(***************************************************************************)
(* Proofs about MatchCenter: what the pages that show a match show.         *)
(*                                                                         *)
(* A history that can be played is a list whose sequences ascend: that is   *)
(* what sorting it and refusing doubles gives.  So the records up to a      *)
(* sequence are the first ones (Reached), what a connection sends is a      *)
(* tail of the list, and its next record is one the player has taken or the *)
(* one after those.  IInv says how far player, connection, demo and monitor *)
(* have come in these terms.                                               *)
(***************************************************************************)
EXTENDS MatchCenter, FiniteSetTheorems, SequenceTheorems, NaturalsInduction,
        WellFoundedInduction, TLAPS

-----------------------------------------------------------------------------
(* Lists in order                                                          *)

\* A set of natural numbers that is not empty has a least member.
LEMMA LeastOfNaturals ==
    ASSUME NEW S \in SUBSET Nat, S # {}
    PROVE  \E m \in S : \A n \in S : m <= n
<1> DEFINE Before == OpToRel(<, Nat)
<1>1. \A m, n \in Nat : n < m => <<n, m>> \in Before
    BY Zenon DEF OpToRel
<1>2. IsWellFoundedOn(Before, Nat)
    BY NatLessThanWellFounded, Zenon
<1> HIDE DEF Before
<1>3. PICK m \in S : \A n \in S : ~(<<n, m>> \in Before)
    BY <1>2, WFMin
<1>4. \A n \in S : m <= n
    <2> TAKE n \in S
    <2>1. m \in Nat /\ n \in Nat
        OBVIOUS
    <2>2. ~(n < m)
        BY <1>1, <1>3, <2>1, Zenon
    <2> QED
        BY <2>1, <2>2
<1> QED
    BY <1>4

\* How many members of S come before i.
Rank(S, before, i) == Cardinality({j \in S : <<j, i>> \in before})

\* What a comparison function must give the sort.
TotallyOrders(before, S) ==
    /\ \A i \in S : <<i, i>> \notin before
    /\ \A i, j, k \in S : <<i, j>> \in before /\ <<j, k>> \in before => <<i, k>> \in before
    /\ \A i, j \in S : i = j \/ <<i, j>> \in before \/ <<j, i>> \in before

\* What comes before in a total order of a finite set has the lower rank.
LEMMA RanksAscend ==
    ASSUME NEW S, IsFiniteSet(S), NEW before, TotallyOrders(before, S),
           NEW i \in S, NEW j \in S, <<i, j>> \in before
    PROVE  Rank(S, before, i) \in Nat /\ Rank(S, before, j) \in Nat
           /\ Rank(S, before, i) < Rank(S, before, j)
<1> DEFINE A == {k \in S : <<k, i>> \in before}
           B == {k \in S : <<k, j>> \in before}
<1>1. IsFiniteSet(A) /\ IsFiniteSet(B)
    <2>1. A \in SUBSET S /\ B \in SUBSET S
        OBVIOUS
    <2> QED
        BY <2>1, FS_Subset
<1>2. A \in SUBSET B /\ i \in B /\ i \notin A
    BY DEF TotallyOrders
<1>3. Cardinality(A) \in Nat /\ Cardinality(B) \in Nat
    BY <1>1, FS_CardinalityType
<1>4. Cardinality(A) <= Cardinality(B) /\ Cardinality(A) # Cardinality(B)
    BY <1>1, <1>2, FS_Subset
<1> QED
    BY <1>3, <1>4 DEF Rank

\* Ranks are below the number of members.
LEMMA RanksAreBelow ==
    ASSUME NEW S, IsFiniteSet(S), NEW before, TotallyOrders(before, S), NEW i \in S
    PROVE  Rank(S, before, i) \in 0 .. Cardinality(S) - 1
<1> DEFINE A == {k \in S : <<k, i>> \in before}
<1>1. A \in SUBSET S /\ A # S
    BY DEF TotallyOrders
<1>2. IsFiniteSet(A) /\ Cardinality(A) <= Cardinality(S)
      /\ Cardinality(A) # Cardinality(S)
    BY <1>1, FS_Subset
<1>3. Cardinality(A) \in Nat /\ Cardinality(S) \in Nat
    BY <1>2, FS_CardinalityType
<1> QED
    BY <1>2, <1>3 DEF Rank

\* Every place in the order is taken: there are as many places as members.
LEMMA EveryRankIsTaken ==
    ASSUME NEW S, IsFiniteSet(S), NEW before, TotallyOrders(before, S),
           NEW n \in 1 .. Cardinality(S)
    PROVE  \E i \in S : Rank(S, before, i) = n - 1
<1> DEFINE size == Cardinality(S)
           places == 0 .. size - 1
           rank == [i \in S |-> Rank(S, before, i)]
<1>1. size \in Nat
    BY FS_CardinalityType
<1>2. IsFiniteSet(places) /\ Cardinality(places) = size
    <2>1. 0 \in Int /\ size - 1 \in Int
        BY <1>1
    <2>2. /\ IsFiniteSet(0 .. size - 1)
          /\ Cardinality(0 .. size - 1) = IF 0 > size - 1 THEN 0 ELSE (size - 1) - 0 + 1
        BY <2>1, FS_Interval
    <2> QED
        BY <1>1, <2>2
<1>3. rank \in [S -> places]
    BY RanksAreBelow
<1>4. ASSUME NEW i \in S, NEW j \in S, i # j
      PROVE  rank[i] # rank[j]
    <2>1. <<i, j>> \in before \/ <<j, i>> \in before
        BY <1>4 DEF TotallyOrders
    <2>2. \/ Rank(S, before, i) < Rank(S, before, j)
          \/ Rank(S, before, j) < Rank(S, before, i)
        BY <2>1, RanksAscend
    <2>3. Rank(S, before, i) \in Nat /\ Rank(S, before, j) \in Nat
        BY <2>1, RanksAscend
    <2> QED
        BY <2>2, <2>3
<1>5. rank \in Injection(S, places)
    BY <1>3, <1>4 DEF Injection, IsInjective
<1> HIDE DEF rank, places, size
<1>6. rank \in Surjection(S, places)
    BY <1>2, <1>5, FS_Injection DEF size
<1>7. n - 1 \in places
    BY <1>1 DEF places, size
<1>8. PICK i \in S : rank[i] = n - 1
    BY <1>6, <1>7 DEF Surjection
<1> QED
    BY <1>8 DEF rank

\* So there is a list of the members in order.
LEMMA OrderExists ==
    ASSUME NEW S, IsFiniteSet(S), NEW before, TotallyOrders(before, S)
    PROVE  \E order \in [1 .. Cardinality(S) -> S] :
              \A m, n \in 1 .. Cardinality(S) : m < n => <<order[m], order[n]>> \in before
<1> DEFINE D == 1 .. Cardinality(S)
           order == [n \in D |-> CHOOSE i \in S : Rank(S, before, i) = n - 1]
<1>1. Cardinality(S) \in Nat
    BY FS_CardinalityType
<1>2. \A n \in D : order[n] \in S /\ Rank(S, before, order[n]) = n - 1
    BY EveryRankIsTaken
<1>3. order \in [D -> S]
    BY <1>2
<1> HIDE DEF order
<1>4. ASSUME NEW m \in D, NEW n \in D, m < n
      PROVE  <<order[m], order[n]>> \in before
    <2>1. order[m] # order[n]
        BY <1>2, <1>4
    <2>2. CASE <<order[n], order[m]>> \in before
        <3>1. Rank(S, before, order[n]) < Rank(S, before, order[m])
            BY <1>2, <2>2, RanksAscend
        <3> QED
            BY <1>2, <1>4, <3>1
    <2> QED
        BY <1>2, <2>1, <2>2 DEF TotallyOrders
<1> QED
    BY <1>3, <1>4

\* An ascending list of k numbers above a, none of them above a + k, has them all.
LEMMA AscendingFills ==
    ASSUME NEW a \in Int, NEW k \in Nat, NEW order \in [1 .. k -> a + 1 .. a + k],
           \A m, n \in 1 .. k : m < n => order[m] < order[n]
    PROVE  order = [n \in 1 .. k |-> a + n]
<1>1. ASSUME NEW n \in 1 .. k, order[n] < a + n
      PROVE  FALSE
    <2> DEFINE low == {m \in Nat : m \in 1 .. k /\ order[m] < a + m}
    <2>1. low \in SUBSET Nat /\ n \in low
        BY <1>1
    <2> HIDE DEF low
    <2>2. PICK m \in low : \A other \in low : m <= other
        BY <2>1, LeastOfNaturals
    <2>3. m \in 1 .. k /\ order[m] < a + m
        BY <2>2 DEF low
    <2>4. m # 1
        BY <2>3
    <2>5. m - 1 \in 1 .. k /\ m - 1 \notin low
        BY <2>2, <2>3, <2>4, <2>1
    <2>6. order[m - 1] >= a + m - 1
        BY <2>5 DEF low
    <2> QED
        BY <2>3, <2>5, <2>6
<1>2. ASSUME NEW n \in 1 .. k, order[n] > a + n
      PROVE  FALSE
    <2> DEFINE high == {m \in Nat : m \in 0 .. k - 1 /\ order[k - m] > a + k - m}
    <2>1. high \in SUBSET Nat /\ k - n \in high
        BY <1>2
    <2> HIDE DEF high
    <2>2. PICK m \in high : \A other \in high : m <= other
        BY <2>1, LeastOfNaturals
    <2>3. m \in 0 .. k - 1 /\ order[k - m] > a + k - m
        BY <2>2 DEF high
    <2>4. m # 0
        BY <2>3
    <2>5. m - 1 \in 0 .. k - 1 /\ m - 1 \notin high
        BY <2>2, <2>3, <2>4, <2>1
    <2>6. order[k - (m - 1)] <= a + k - (m - 1)
        BY <2>5 DEF high
    <2> QED
        BY <2>3, <2>5, <2>6
<1>3. \A n \in 1 .. k : order[n] = a + n
    <2> TAKE n \in 1 .. k
    <2>1. order[n] \in Int /\ a + n \in Int
        OBVIOUS
    <2>2. ~(order[n] < a + n) /\ ~(order[n] > a + n)
        BY <1>1, <1>2
    <2> QED
        BY <2>1, <2>2
<1> QED
    BY <1>3

\* Keeping an interval of places keeps the items there.
LEMMA KeptInterval ==
    ASSUME NEW items, NEW a \in Int, NEW k \in Nat
    PROVE  Kept(items, a + 1 .. a + k) = [n \in 1 .. k |-> items[a + n]]
<1> DEFINE S == a + 1 .. a + k
           Sorts(order) == \A m, n \in 1 .. Cardinality(S) : m < n => order[m] < order[n]
           order == CHOOSE order \in [1 .. Cardinality(S) -> S] : Sorts(order)
<1>1. Cardinality(S) = k
    BY FS_Interval
<1>2. \E f \in [1 .. Cardinality(S) -> S] : Sorts(f)
    <2>1. [n \in 1 .. k |-> a + n] \in [1 .. Cardinality(S) -> S]
        BY <1>1
    <2>2. Sorts([n \in 1 .. k |-> a + n])
        BY <1>1
    <2> QED
        BY <2>1, <2>2
<1>3. order \in [1 .. Cardinality(S) -> S] /\ Sorts(order)
    BY <1>2
<1>4. order = [n \in 1 .. k |-> a + n]
    BY <1>1, <1>3, AscendingFills
<1>5. Kept(items, S) = [n \in 1 .. Cardinality(S) |-> items[order[n]]]
    BY DEF Kept, InOrder
<1> HIDE DEF order
<1> QED
    BY <1>1, <1>4, <1>5

-----------------------------------------------------------------------------
(* The history                                                             *)

\* An answer, unwrapped, is a list of raw records.
LEMMA AnswersHoldRecords ==
    ASSUME NEW raw \in Answers
    PROVE  Unwrapped(raw) \in Seq(RawRecords)
<1>1. /\ raw.shape \in {"array", "wrapped", "object", "scalar"}
      /\ raw.items \in Seq(RawRecords)
      /\ raw.shape = "object" => raw.items # <<>>
    BY AnswersAssumption
<1>2. CASE raw.shape \in {"array", "wrapped"}
    BY <1>1, <1>2 DEF Unwrapped
<1>3. CASE raw.shape = "object"
    <2>1. raw.items[1] \in RawRecords
        BY <1>1, <1>3
    <2>2. Unwrapped(raw) = <<raw.items[1]>>
        BY <1>3 DEF Unwrapped
    <2> QED
        BY <2>1, <2>2
<1>4. CASE raw.shape = "scalar"
    BY <1>4 DEF Unwrapped
<1> QED
    BY <1>1, <1>2, <1>3, <1>4

\* How getHistoricalScores compares the records at two places of the answer.
SortsBefore(raws, i, j) ==
    \/ ComesFirst(raws[i], raws[j])
    \/ ~ComesFirst(raws[j], raws[i]) /\ i < j

\* A history is the answer's records, normalized and sorted.
LEMMA HistoryInOrder ==
    ASSUME NEW raw \in Answers
    PROVE  LET raws == Unwrapped(raw)
               N == Len(raws)
           IN  \E order \in [1 .. N -> 1 .. N] :
                  /\ HistoricalScores(raw) = [n \in 1 .. N |-> NormalizeScore(raws[order[n]])]
                  /\ \A m, n \in 1 .. N : m < n => SortsBefore(raws, order[m], order[n])
<1> DEFINE raws == Unwrapped(raw)
           N == Len(raws)
           S == DOMAIN raws
           before == {pair \in S \X S : SortsBefore(raws, pair[1], pair[2])}
           Good(order) == \A m, n \in 1 .. Cardinality(S) :
                             m < n => \/ ComesFirst(raws[order[m]], raws[order[n]])
                                      \/ /\ ~ComesFirst(raws[order[n]], raws[order[m]])
                                         /\ order[m] < order[n]
           order == CHOOSE order \in [1 .. Cardinality(S) -> S] : Good(order)
<1>1. raws \in Seq(RawRecords)
    BY AnswersHoldRecords
<1> HIDE DEF raws
<1>2. N \in Nat /\ S = 1 .. N
    BY <1>1
<1>3. \A i \in S : raws[i].fixture \in Int /\ raws[i].sequence \in Int /\ raws[i].time \in Int
    <2>1. \A i \in S : raws[i] \in RawRecords
        BY <1>1, <1>2
    <2> QED
        BY <2>1 DEF RawRecords
<1>4. IsFiniteSet(S) /\ Cardinality(S) = N
    <2>1. IsFiniteSet(1 .. N) /\ Cardinality(1 .. N) = IF 1 > N THEN 0 ELSE N - 1 + 1
        BY <1>2, FS_Interval
    <2> QED
        BY <1>2, <2>1
<1>5. TotallyOrders(before, S)
    <2>1. \A i, j \in S : <<i, j>> \in before <=> SortsBefore(raws, i, j)
        OBVIOUS
    <2>2. S \subseteq Int
        BY <1>2
    <2> HIDE DEF S, before
    <2>3. ASSUME NEW i \in S
          PROVE  ~SortsBefore(raws, i, i)
        <3>1. i \in Int /\ raws[i].fixture \in Int /\ raws[i].sequence \in Int
              /\ raws[i].time \in Int
            BY <1>3, <2>2
        <3> QED
            BY <3>1 DEF SortsBefore, ComesFirst
    <2>4. \A i, j, k \in S : SortsBefore(raws, i, j) /\ SortsBefore(raws, j, k) => SortsBefore(raws, i, k)
        BY <1>3, <2>2 DEF SortsBefore, ComesFirst
    <2>5. ASSUME NEW i \in S, NEW j \in S, i # j
          PROVE  SortsBefore(raws, i, j) \/ SortsBefore(raws, j, i)
        <3>1. i \in Int /\ j \in Int /\ i # j
            BY <2>2, <2>5
        <3>2. /\ raws[i].fixture \in Int /\ raws[j].fixture \in Int
              /\ raws[i].sequence \in Int /\ raws[j].sequence \in Int
              /\ raws[i].time \in Int /\ raws[j].time \in Int
            BY <1>3
        <3> QED
            BY <3>1, <3>2 DEF SortsBefore, ComesFirst
    <2> QED
        BY <2>1, <2>3, <2>4, <2>5 DEF TotallyOrders
<1>6. PICK f \in [1 .. Cardinality(S) -> S] :
         \A m, n \in 1 .. Cardinality(S) : m < n => <<f[m], f[n]>> \in before
    BY <1>4, <1>5, OrderExists
<1>7. Good(f)
    BY <1>6 DEF SortsBefore
<1>8. order \in [1 .. Cardinality(S) -> S] /\ Good(order)
    BY <1>6, <1>7
<1>9. HistoricalScores(raw) = [n \in S |-> NormalizeScore(raws[order[n]])]
    BY DEF HistoricalScores, InOrder, raws
<1> HIDE DEF order
<1>10. \A m, n \in 1 .. N : m < n => SortsBefore(raws, order[m], order[n])
    <2>1. \A m, n \in 1 .. Cardinality(S) : m < n => SortsBefore(raws, order[m], order[n])
        <3> TAKE m, n \in 1 .. Cardinality(S)
        <3> HAVE m < n
        <3>1. \/ ComesFirst(raws[order[m]], raws[order[n]])
              \/ /\ ~ComesFirst(raws[order[n]], raws[order[m]])
                 /\ order[m] < order[n]
            BY <1>8
        <3> QED
            BY <3>1, Zenon DEF SortsBefore
    <2> QED
        BY <1>4, <2>1
<1>11. order \in [1 .. N -> 1 .. N]
    BY <1>2, <1>4, <1>8
<1> QED
    BY <1>2, <1>9, <1>10, <1>11 DEF raws

\* What the history of a match that can be played is like.
Ascends(records) ==
    /\ Len(records) \in Nat /\ DOMAIN records = 1 .. Len(records)
    /\ \A i \in DOMAIN records :
          /\ records[i].sequence \in Nat
          /\ records[i].lifecycle \in Lifecycles
          /\ records[i].goals \in Int
          /\ records[i].isFinal => SaysFinal(records[i])
    /\ \A i, j \in DOMAIN records : i < j => records[i].sequence < records[j].sequence

\* A history that is ready to be replayed has ascending sequence numbers.
LEMMA HistoryAscends ==
    ASSUME answer \in {Read(raw) : raw \in Answers}, IsPrepared
    PROVE  Ascends(AllRecords)
<1>1. PICK raw \in Answers : answer = Read(raw)
    OBVIOUS
<1> DEFINE raws == Unwrapped(raw)
           N == Len(raws)
<1>2. IsCollection(raw) /\ AllRecords = HistoricalScores(raw)
    BY <1>1 DEF Read, IsPrepared, AllRecords
<1>3. raws \in Seq(RawRecords)
    BY AnswersHoldRecords
<1> HIDE DEF raws
<1>4. PICK order \in [1 .. N -> 1 .. N] :
         /\ AllRecords = [n \in 1 .. N |-> NormalizeScore(raws[order[n]])]
         /\ \A m, n \in 1 .. N : m < n => SortsBefore(raws, order[m], order[n])
    BY <1>2, HistoryInOrder DEF raws
<1>5. N \in Nat /\ DOMAIN raws = 1 .. N
    BY <1>3
<1>6. Len(AllRecords) = N /\ DOMAIN AllRecords = 1 .. N
    BY <1>4, <1>5
<1>7. ASSUME NEW n \in 1 .. N
      PROVE  /\ order[n] \in DOMAIN raws
             /\ AllRecords[n].fixture = raws[order[n]].fixture
             /\ AllRecords[n].sequence = raws[order[n]].sequence
             /\ raws[order[n]].sequence \in Nat
             /\ AllRecords[n].lifecycle \in Lifecycles
             /\ AllRecords[n].goals \in Int
             /\ AllRecords[n].isFinal => SaysFinal(AllRecords[n])
    <2>1. order[n] \in 1 .. N
        OBVIOUS
    <2>2. raws[order[n]] \in RawRecords /\ IsScoreRecord(raws[order[n]])
        BY <1>2, <1>3, <1>5, <2>1 DEF IsCollection, raws
    <2>3. AllRecords[n] = NormalizeScore(raws[order[n]])
        BY <1>4
    <2> DEFINE r == raws[order[n]]
    <2>4. r.sequence \in Nat
        <3>1. r.sequence \in Int
            BY <2>2 DEF RawRecords
        <3>2. r.sequence >= 0
            BY <2>2 DEF IsScoreRecord
        <3> QED
            BY <3>1, <3>2
    <2>7. r.goals \in Int
        BY <2>2 DEF RawRecords
    <2> HIDE DEF r
    <2>8. NormalizeScore(r).goals = r.goals
        BY DEF NormalizeScore
    <2>9. NormalizeScore(r).lifecycle \in Lifecycles
        BY DEF NormalizeScore, ScoreLifecycle, Lifecycles
    <2>5. /\ NormalizeScore(r).fixture = r.fixture
          /\ NormalizeScore(r).sequence = r.sequence
        BY DEF NormalizeScore
    <2>6. NormalizeScore(r).isFinal => SaysFinal(NormalizeScore(r))
        BY DEF NormalizeScore, SaysFinal, EndsTheMatch
    <2> QED
        BY <1>5, <2>1, <2>3, <2>4, <2>5, <2>6, <2>7, <2>8, <2>9 DEF r
<1>8. ASSUME NEW m \in 1 .. N, NEW n \in 1 .. N, m < n
      PROVE  AllRecords[m].sequence < AllRecords[n].sequence
    <2>1. AllRecords[m].fixture = AllRecords[n].fixture
          /\ AllRecords[m].sequence # AllRecords[n].sequence
        BY <1>6, <1>8 DEF IsPrepared
    <2>2. SortsBefore(raws, order[m], order[n])
        BY <1>4, <1>8
    <2>3. /\ raws[order[m]].fixture = raws[order[n]].fixture
          /\ raws[order[m]].sequence \in Nat /\ raws[order[n]].sequence \in Nat
          /\ raws[order[m]].sequence # raws[order[n]].sequence
        BY <1>7, <2>1
    <2>4. raws[order[n]].fixture \in Int
        <3>1. raws[order[n]] \in RawRecords
            BY <1>3, <1>5
        <3> QED
            BY <3>1 DEF RawRecords
    <2>5. raws[order[m]].sequence < raws[order[n]].sequence
        BY <2>2, <2>3, <2>4 DEF SortsBefore, ComesFirst
    <2> QED
        BY <1>7, <2>5
<1> QED
    BY <1>5, <1>6, <1>7, <1>8 DEF Ascends

\* Records up to a sequence are the first ones.
LEMMA FirstOnes ==
    ASSUME NEW records, Ascends(records), NEW c \in Int
    PROVE  /\ Reached(records, c) \in 0 .. Len(records)
           /\ \A i \in 1 .. Len(records) :
                 records[i].sequence <= c <=> i <= Reached(records, c)
<1> DEFINE N == Len(records)
           D == {i \in DOMAIN records : records[i].sequence <= c}
           others == {i \in Nat : i \in 1 .. N + 1 /\ i \notin D}
<1>1. N \in Nat /\ DOMAIN records = 1 .. N
    BY DEF Ascends
<1>2. N + 1 \in others
    BY <1>1
<1>3. PICK m \in others : \A n \in others : m <= n
    BY <1>2, LeastOfNaturals
<1>4. m \in 1 .. N + 1 /\ m \notin D
    OBVIOUS
<1>5. ASSUME NEW i \in 1 .. N
      PROVE  i \in D <=> i <= m - 1
    <2>1. CASE i < m
        BY <1>1, <1>3, <1>4, <2>1
    <2>2. CASE i >= m
        <3>1. i = m \/ records[m].sequence < records[i].sequence
            BY <1>1, <1>4, <2>2 DEF Ascends
        <3>2. m \in 1 .. N
            BY <1>1, <1>4, <2>2
        <3>3. records[m].sequence \in Nat /\ records[i].sequence \in Nat
            BY <1>1, <3>2 DEF Ascends
        <3>4. ~(records[m].sequence <= c)
            BY <1>1, <1>4, <3>2
        <3>5. i \notin D
            BY <3>1, <3>3, <3>4
        <3> QED
            BY <1>4, <2>2, <3>5
    <2> QED
        BY <1>1, <1>4, <2>1, <2>2
<1>6. D = 1 .. m - 1
    BY <1>1, <1>4, <1>5
<1>7. Reached(records, c) = m - 1
    <2>1. m - 1 \in Int /\ 1 \in Int
        BY <1>1, <1>4
    <2>2. Cardinality(1 .. m - 1) = IF 1 > m - 1 THEN 0 ELSE (m - 1) - 1 + 1
        BY <2>1, FS_Interval
    <2>3. Cardinality(1 .. m - 1) = m - 1
        BY <1>1, <1>4, <2>2
    <2>4. Reached(records, c) = Cardinality(D)
        BY DEF Reached
    <2> HIDE DEF D
    <2> QED
        BY <1>6, <2>3, <2>4
<1> QED
    BY <1>1, <1>4, <1>5, <1>7

\* A later cursor has reached no fewer records.
LEMMA ReachedGrows ==
    ASSUME NEW records, Ascends(records), NEW c \in Int, NEW d \in Int, c <= d
    PROVE  Reached(records, c) <= Reached(records, d)
<1>1. Reached(records, c) \in 0 .. Len(records) /\ Reached(records, d) \in 0 .. Len(records)
      /\ Len(records) \in Nat
    BY FirstOnes DEF Ascends
<1>2. CASE Reached(records, c) = 0
    BY <1>1, <1>2
<1>3. CASE Reached(records, c) # 0
    <2> DEFINE i == Reached(records, c)
    <2>1. i \in 1 .. Len(records)
        BY <1>1, <1>3
    <2>2. records[i].sequence <= c
        <3>1. \A j \in 1 .. Len(records) : records[j].sequence <= c <=> j <= i
            BY FirstOnes
        <3>2. i <= i
            BY <2>1
        <3> HIDE DEF i
        <3> QED
            BY <2>1, <3>1, <3>2
    <2>3. records[i].sequence \in Nat
        BY <2>1 DEF Ascends
    <2>4. records[i].sequence <= d
        BY <2>2, <2>3
    <2> QED
        BY <2>1, <2>4, FirstOnes
<1> QED
    BY <1>2, <1>3

\* The cursor of a record has reached that record and those before it.
LEMMA ReachedByItself ==
    ASSUME NEW records, Ascends(records), NEW i \in 1 .. Len(records)
    PROVE  Reached(records, records[i].sequence) = i
<1> DEFINE k == Reached(records, records[i].sequence)
<1>1. /\ Len(records) \in Nat /\ DOMAIN records = 1 .. Len(records)
      /\ records[i].sequence \in Nat
    BY DEF Ascends
<1>2. /\ k \in 0 .. Len(records)
      /\ \A j \in 1 .. Len(records) : records[j].sequence <= records[i].sequence <=> j <= k
    <2> DEFINE c == records[i].sequence
    <2>1. c \in Int
        BY <1>1
    <2> HIDE DEF c
    <2>2. /\ Reached(records, c) \in 0 .. Len(records)
          /\ \A j \in 1 .. Len(records) :
                records[j].sequence <= c <=> j <= Reached(records, c)
        BY <2>1, FirstOnes
    <2> QED
        BY <2>2 DEF c
<1>3. i <= k
    BY <1>1, <1>2
<1>4. CASE i < k
    <2>1. k \in 1 .. Len(records)
        BY <1>1, <1>2, <1>4
    <2>2. records[i].sequence < records[k].sequence
        BY <1>1, <1>4, <2>1 DEF Ascends
    <2>3. records[k].sequence <= records[i].sequence /\ records[k].sequence \in Nat
        BY <1>1, <1>2, <2>1 DEF Ascends
    <2> QED
        BY <1>1, <2>2, <2>3
<1> QED
    BY <1>1, <1>2, <1>3, <1>4

\* What a connection sends are the records from the first one it was not told of.
LEMMA SentRecords ==
    ASSUME Ascends(AllRecords), NEW c \in Int
    PROVE  LET from == Reached(AllRecords, c) IN
           RecordsAfter(c) = [n \in 1 .. Len(AllRecords) - from |-> AllRecords[from + n]]
<1> DEFINE from == Reached(AllRecords, c)
           N == Len(AllRecords)
           places == {i \in DOMAIN AllRecords : AllRecords[i].sequence > c}
<1>1. /\ N \in Nat /\ DOMAIN AllRecords = 1 .. N
      /\ \A i \in 1 .. N : AllRecords[i].sequence \in Nat
    BY DEF Ascends
<1>2. /\ from \in 0 .. N
      /\ \A i \in 1 .. N : AllRecords[i].sequence <= c <=> i <= from
    BY FirstOnes
<1>3. places = from + 1 .. from + (N - from)
    BY <1>1, <1>2
<1>4. RecordsAfter(c) = Kept(AllRecords, places)
    BY DEF RecordsAfter
<1>5. from \in Int /\ N - from \in Nat
    BY <1>1, <1>2
<1> HIDE DEF places, from
<1>6. Kept(AllRecords, from + 1 .. from + (N - from))
         = [n \in 1 .. N - from |-> AllRecords[from + n]]
    <2>1. \A k \in Nat :
             Kept(AllRecords, from + 1 .. from + k) = [n \in 1 .. k |-> AllRecords[from + n]]
        BY <1>5, KeptInterval, Zenon
    <2> QED
        BY <1>5, <2>1, Zenon
<1> QED
    BY <1>3, <1>4, <1>6 DEF from

-----------------------------------------------------------------------------
(* The reducer                                                             *)

\* Two states that differ in their status, or in what is still to come.
SameView(state, other) ==
    /\ state.current = other.current
    /\ state.processed = other.processed
    /\ state.lifecycle = other.lifecycle
    /\ state.goals = other.goals
    /\ state.timeline = other.timeline

\* A change of status leaves the view as it is.
LEMMA StatusKeepsView ==
    ASSUME NEW state \in ReplayStates, NEW status \in Statuses
    PROVE  /\ WithStatus(state, status) \in ReplayStates
           /\ SameView(WithStatus(state, status), state)
BY DEF ReplayStates, Statuses, WithStatus, SameView

\* A state with the same view follows the same records.
LEMMA SameViewFollows ==
    ASSUME NEW state, NEW other, NEW records, SameView(state, other), Follows(other, records)
    PROVE  Follows(state, records)
BY DEF SameView, Follows, Position

\* The last items of a list.
LEMMA LastOfIs ==
    ASSUME NEW S, NEW items \in Seq(S)
    PROVE  LET from == IF Len(items) > TimelineLimit THEN Len(items) - TimelineLimit ELSE 0 IN
           /\ LastOf(items) \in Seq(S)
           /\ Len(LastOf(items)) = Len(items) - from
           /\ \A i \in 1 .. Len(items) - from : LastOf(items)[i] = items[from + i]
<1> DEFINE from == IF Len(items) > TimelineLimit THEN Len(items) - TimelineLimit ELSE 0
<1>1. TimelineLimit \in Nat /\ TimelineLimit > 0 /\ Len(items) \in Nat
    BY TimelineAssumption
<1>2. from \in 0 .. Len(items)
    BY <1>1
<1>3. LastOf(items) = SubSeq(items, from + 1, Len(items))
    BY <1>1 DEF LastOf
<1>4. \A i \in from + 1 .. Len(items) : i \in 1 .. Len(items)
    BY <1>1, <1>2
<1> HIDE DEF from
<1>5. SubSeq(items, from + 1, Len(items)) \in Seq(S)
      /\ Len(SubSeq(items, from + 1, Len(items))) =
            IF from + 1 <= Len(items) THEN Len(items) - (from + 1) + 1 ELSE 0
    BY <1>1, <1>2, <1>4, SubSeqProperties
<1>6. \A i \in 1 .. Len(items) - from :
         SubSeq(items, from + 1, Len(items))[i] = items[from + i]
    BY <1>1, <1>2, <1>4, SubSeqProperties
<1> QED
    BY <1>1, <1>2, <1>3, <1>5, <1>6, SMTT(20) DEF from

\* The last items of a list and one more are the last of them with that one.
LEMMA LastOfAppend ==
    ASSUME NEW S, NEW items \in Seq(S), NEW e \in S
    PROVE  LastOf(Append(LastOf(items), e)) = LastOf(Append(items, e))
<1> DEFINE L == TimelineLimit
           N == Len(items)
           shown == LastOf(items)
           before == IF N > L THEN N - L ELSE 0
           a == Append(shown, e)
           b == Append(items, e)
           froma == IF Len(a) > L THEN Len(a) - L ELSE 0
           fromb == IF Len(b) > L THEN Len(b) - L ELSE 0
<1>1. L \in Nat /\ L > 0 /\ N \in Nat
    BY TimelineAssumption
<1>2. /\ shown \in Seq(S) /\ Len(shown) = N - before
      /\ \A i \in 1 .. N - before : shown[i] = items[before + i]
    BY LastOfIs
<1>3. before \in 0 .. N
    BY <1>1
<1> HIDE DEF shown
<1>4. /\ a \in Seq(S) /\ Len(a) = N - before + 1
      /\ \A i \in 1 .. N - before : a[i] = shown[i]
      /\ a[N - before + 1] = e
    BY <1>2, AppendProperties
<1>5. /\ b \in Seq(S) /\ Len(b) = N + 1
      /\ \A i \in 1 .. N : b[i] = items[i]
      /\ b[N + 1] = e
    BY AppendProperties
<1> HIDE DEF a, b
<1>6. before + froma = fromb /\ Len(a) - froma = Len(b) - fromb
      /\ froma \in Nat /\ fromb \in Nat
    <2> HIDE DEF N, L
    <2>1. CASE N > L
        <3>1. before = N - L /\ Len(a) = L + 1 /\ Len(b) = N + 1
            BY <1>1, <1>4, <1>5, <2>1
        <3>2. froma = 1 /\ fromb = N + 1 - L
            BY <1>1, <2>1, <3>1
        <3> HIDE DEF before, froma, fromb
        <3> QED
            BY <1>1, <2>1, <3>1, <3>2
    <2>2. CASE N <= L
        <3>1. before = 0 /\ Len(a) = N + 1 /\ Len(b) = N + 1
            BY <1>1, <1>4, <1>5, <2>2
        <3>2. froma = fromb /\ froma \in Nat
            BY <1>1, <3>1
        <3> HIDE DEF before, froma, fromb
        <3> QED
            BY <1>1, <3>1, <3>2
    <2> HIDE DEF before, froma, fromb
    <2> QED
        BY <1>1, <2>1, <2>2
<1> HIDE DEF before, froma, fromb, N, L
<1>7. \A i \in 1 .. Len(a) : a[i] = b[before + i]
    <2> TAKE i \in 1 .. Len(a)
    <2>1. CASE i <= N - before
        <3>1. i \in 1 .. N - before /\ before + i \in 1 .. N
            BY <1>1, <1>3, <1>4, <2>1
        <3> QED
            BY <1>2, <1>4, <1>5, <3>1
    <2>2. CASE i > N - before
        <3>1. i = N - before + 1 /\ before + i = N + 1
            BY <1>1, <1>3, <1>4, <2>2
        <3> QED
            BY <1>4, <1>5, <3>1
    <2> QED
        BY <1>1, <1>3, <1>4, <2>1, <2>2
<1>8. /\ LastOf(a) \in Seq(S) /\ Len(LastOf(a)) = Len(a) - froma
      /\ \A i \in 1 .. Len(a) - froma : LastOf(a)[i] = a[froma + i]
    BY <1>4, LastOfIs DEF froma, L
<1>9. /\ LastOf(b) \in Seq(S) /\ Len(LastOf(b)) = Len(b) - fromb
      /\ \A i \in 1 .. Len(b) - fromb : LastOf(b)[i] = b[fromb + i]
    BY <1>5, LastOfIs DEF fromb, L
<1>10. \A i \in 1 .. Len(LastOf(a)) : LastOf(a)[i] = LastOf(b)[i]
    <2> TAKE i \in 1 .. Len(LastOf(a))
    <2>1. /\ i \in 1 .. Len(a) - froma /\ i \in 1 .. Len(b) - fromb
          /\ froma + i \in 1 .. Len(a)
          /\ before + (froma + i) = fromb + i
        BY <1>1, <1>3, <1>4, <1>5, <1>6, <1>8
    <2>2. LastOf(a)[i] = b[before + (froma + i)]
        BY <1>7, <1>8, <2>1
    <2>3. LastOf(b)[i] = b[fromb + i]
        BY <1>9, <2>1
    <2> QED
        BY <2>1, <2>2, <2>3
<1>11. LastOf(a) = LastOf(b)
    BY <1>6, <1>8, <1>9, <1>10, SeqEqual
<1> QED
    BY <1>11 DEF a, b, shown

\* The position is a cursor, not behind the current record.
LEMMA Positions ==
    ASSUME NEW state \in ReplayStates
    PROVE  /\ Position(state) \in Nat
           /\ state.current \in Nat \cup {Nothing}
           /\ state.current <= Position(state)
           /\ state.current # Nothing => Position(state) = state.current
BY DEF ReplayStates, Position, Nothing

\* The initial state follows any history: it has taken nothing of it.
LEMMA InitialStateFollows ==
    /\ InitialReplayState \in ReplayStates
    /\ \A records : Ascends(records) => Follows(InitialReplayState, records)
<1>1. InitialReplayState \in ReplayStates
    BY DEF InitialReplayState, ReplayStates, Statuses, Lifecycles, NotGiven, Unreadable, Nothing
<1>2. ASSUME NEW records, Ascends(records)
      PROVE  Follows(InitialReplayState, records)
    <2> DEFINE first == Reached(records, 0)
               items == [n \in 1 .. first - first |-> records[first + n].sequence]
    <2>1. first \in Nat
        <3>1. 0 \in Int /\ Len(records) \in Nat
            BY <1>2 DEF Ascends
        <3>2. first \in 0 .. Len(records)
            BY <1>2, <3>1, FirstOnes
        <3> QED
            BY <3>1, <3>2
    <2> HIDE DEF first
    <2>2. items = <<>>
        BY <2>1
    <2>3. /\ LastOf(<<>>) \in Seq(Nat)
          /\ Len(LastOf(<<>>)) = 0
        <3> DEFINE none == <<>>
        <3>1. none \in Seq(Nat) /\ Len(none) = 0
            OBVIOUS
        <3>2. ~(0 > TimelineLimit)
            BY TimelineAssumption
        <3> HIDE DEF none
        <3>3. LastOf(none) \in Seq(Nat) /\ Len(LastOf(none)) = Len(none) - 0
            BY <3>1, <3>2, LastOfIs
        <3> QED
            BY <3>1, <3>3 DEF none
    <2>4. LastOf(items) = <<>>
        <3>1. LastOf(<<>>) = <<>>
            BY <2>3, EmptySeq
        <3> QED
            BY <2>2, <3>1, Zenon
    <2>5. Position(InitialReplayState) = 0 /\ InitialReplayState.current = Nothing
          /\ InitialReplayState.processed = 0 /\ InitialReplayState.timeline = <<>>
        BY DEF Position, InitialReplayState
    <2> QED
        BY <2>1, <2>4, <2>5 DEF Follows, first
<1> QED
    BY <1>1, <1>2

\* The state after a record was taken.
LEMMA TakenIsState ==
    ASSUME NEW state \in ReplayStates, NEW record,
           record.sequence \in Nat, record.lifecycle \in Lifecycles, record.goals \in Int
    PROVE  /\ Taken(state, record) \in ReplayStates
           /\ Taken(state, record).current = record.sequence
           /\ Taken(state, record).processed = state.processed + 1
           /\ Taken(state, record).lifecycle = record.lifecycle
           /\ Taken(state, record).goals = record.goals
           /\ Taken(state, record).timeline = LastOf(Append(state.timeline, record.sequence))
<1>1. state.timeline \in Seq(Nat)
    BY DEF ReplayStates
<1>2. Append(state.timeline, record.sequence) \in Seq(Nat)
    BY <1>1, AppendProperties
<1>3. LastOf(Append(state.timeline, record.sequence)) \in Seq(Nat)
    BY <1>2, LastOfIs
<1>4. state.processed + 1 \in Nat
    BY DEF ReplayStates
<1> QED
    BY <1>3, <1>4 DEF Taken, ReplayStates, Statuses

\* The next record, taken, is followed.
LEMMA TakenFollows ==
    ASSUME NEW records, Ascends(records),
           NEW state \in ReplayStates, Follows(state, records),
           Reached(records, Position(state)) + 1 <= Len(records)
    PROVE  LET next == Reached(records, Position(state)) + 1
               taken == Taken(state, records[next])
           IN  /\ next \in 1 .. Len(records)
               /\ taken \in ReplayStates
               /\ taken.current = records[next].sequence
               /\ taken.current > Position(state)
               /\ Position(taken) = taken.current
               /\ Reached(records, Position(taken)) = next
               /\ Follows(taken, records)
<1> DEFINE first == Reached(records, 0)
           last == Reached(records, Position(state))
           next == last + 1
           taken == Taken(state, records[next])
           items == [n \in 1 .. last - first |-> records[first + n].sequence]
           more == [n \in 1 .. next - first |-> records[first + n].sequence]
<1>1. Len(records) \in Nat /\ DOMAIN records = 1 .. Len(records) /\ Position(state) \in Nat
    BY Positions DEF Ascends
<1>2. /\ first \in 0 .. Len(records) /\ last \in 0 .. Len(records) /\ first <= last
      /\ \A i \in 1 .. Len(records) : records[i].sequence <= Position(state) <=> i <= last
    <2>1. 0 \in Int /\ Position(state) \in Int /\ 0 <= Position(state)
        BY <1>1
    <2> QED
        BY <2>1, FirstOnes, ReachedGrows
<1>3. next \in 1 .. Len(records)
    BY <1>1, <1>2
<1> HIDE DEF first, last
<1>4. /\ \A i \in 1 .. Len(records) : records[i].sequence \in Nat
      /\ records[next].sequence \in Nat /\ records[next].lifecycle \in Lifecycles
      /\ records[next].goals \in Int
    BY <1>1, <1>3 DEF Ascends
<1> HIDE DEF next
<1>5. /\ taken \in ReplayStates
      /\ taken.current = records[next].sequence
      /\ taken.processed = state.processed + 1
      /\ taken.lifecycle = records[next].lifecycle
      /\ taken.goals = records[next].goals
      /\ taken.timeline = LastOf(Append(state.timeline, records[next].sequence))
    BY <1>4, TakenIsState
<1> HIDE DEF taken
<1>6. taken.current # Nothing /\ Position(taken) = taken.current
    BY <1>4, <1>5 DEF Nothing, Position
<1>7. taken.current > Position(state)
    BY <1>1, <1>2, <1>3, <1>4, <1>5 DEF next
<1>8. Reached(records, Position(taken)) = next
    BY <1>3, <1>5, <1>6, ReachedByItself
<1>9. state.processed = last - first /\ state.timeline = LastOf(items)
    BY DEF Follows, first, last
<1>10. items \in Seq(Nat) /\ Len(items) = last - first
    <2>1. \A n \in 1 .. last - first : first + n \in 1 .. Len(records)
        BY <1>1, <1>2
    <2> QED
        BY <1>2, <1>4, <2>1
<1>11. more = Append(items, records[next].sequence)
    <2>1. \A n \in 1 .. next - first : first + n \in 1 .. Len(records)
        BY <1>1, <1>2, <1>3 DEF next
    <2>2. more \in Seq(Nat) /\ Len(more) = next - first
        BY <1>2, <1>3, <1>4, <2>1 DEF next
    <2>3. /\ Append(items, records[next].sequence) \in Seq(Nat)
          /\ Len(Append(items, records[next].sequence)) = last - first + 1
          /\ \A i \in 1 .. last - first : Append(items, records[next].sequence)[i] = items[i]
          /\ Append(items, records[next].sequence)[last - first + 1] = records[next].sequence
        <3> HIDE DEF items
        <3>1. items \in Seq(Nat) /\ Len(items) = last - first
            BY <1>10
        <3> QED
            BY <1>4, <3>1, AppendProperties
    <2>4. \A i \in 1 .. Len(more) : more[i] = Append(items, records[next].sequence)[i]
        <3> TAKE i \in 1 .. Len(more)
        <3>1. i \in 1 .. next - first /\ more[i] = records[first + i].sequence
            BY <2>2
        <3> HIDE DEF items, more
        <3>4. last - first \in Int /\ i \in Int
            BY <1>1, <1>2, <3>1
        <3>2. CASE i <= last - first
            <4>1. i \in 1 .. last - first
                BY <1>2, <3>1, <3>2
            <4>2. items[i] = records[first + i].sequence
                BY <4>1 DEF items
            <4> QED
                BY <2>3, <3>1, <4>1, <4>2
        <3>3. CASE i > last - first
            <4>1. i = last - first + 1 /\ first + i = next
                BY <1>2, <3>1, <3>3 DEF next
            <4> QED
                BY <2>3, <3>1, <4>1
        <3>5. i <= last - first \/ i > last - first
            BY <3>4
        <3> QED
            BY <3>2, <3>3, <3>5, Zenon
    <2> HIDE DEF items, more
    <2>5. Len(more) = Len(Append(items, records[next].sequence))
        BY <1>2, <2>2, <2>3 DEF next
    <2> QED
        BY <2>2, <2>3, <2>4, <2>5, SeqEqual
<1>12. taken.timeline = LastOf(more)
    <2> HIDE DEF items, more
    <2>1. LastOf(Append(LastOf(items), records[next].sequence))
             = LastOf(Append(items, records[next].sequence))
        BY <1>4, <1>10, LastOfAppend
    <2> QED
        BY <1>5, <1>9, <1>11, <2>1
<1>13. next > first /\ taken.processed = next - first
    BY <1>1, <1>2, <1>5, <1>9 DEF next
<1>14. Follows(taken, records)
    BY <1>5, <1>8, <1>12, <1>13 DEF Follows, first
<1> QED
    BY <1>3, <1>5, <1>6, <1>7, <1>8, <1>14 DEF taken, next, last

-----------------------------------------------------------------------------
(* The player                                                              *)

PlayerInv ==
    /\ answer \in {Read(raw) : raw \in Answers}
    /\ player \in ReplayStates /\ rendered \in ReplayStates
    /\ source \in SourceStates
    /\ PlayerFollows
    /\ SourceFollows

\* The player's invariant holds when it is mounted.
LEMMA PlayerStarts ==
    ASSUME PlayerInit
    PROVE  PlayerInv
<1>1. /\ answer \in {Read(raw) : raw \in Answers}
      /\ player = InitialReplayState /\ rendered = InitialReplayState
      /\ source = NoSource
    BY DEF PlayerInit
<1>2. InitialReplayState.current = Nothing
    BY DEF InitialReplayState
<1>3. PlayerFollows
    BY <1>1, <1>2, HistoryAscends, InitialStateFollows DEF PlayerFollows
<1>4. SourceFollows /\ source \in SourceStates
    BY <1>1, <1>2 DEF SourceFollows, SourceStates, NoSource, Position
<1> QED
    BY <1>1, <1>3, <1>4, InitialStateFollows DEF PlayerInv

\* A player that is new, or restarts.
LEMMA PlayerAnew ==
    ASSUME PlayerInv, answer' = answer,
           player' \in ReplayStates, SameView(player', InitialReplayState), rendered' = player',
           source' \in {NoSource, [phase |-> "connecting", after |-> 0, heard |-> 0]}
    PROVE  PlayerInv'
<1>1. InitialReplayState.current = Nothing
    BY DEF InitialReplayState
<1>2. answer \in {Read(raw) : raw \in Answers} /\ IsPrepared' = IsPrepared
      /\ AllRecords' = AllRecords
    BY DEF PlayerInv, IsPrepared, AllRecords
<1>3. PlayerFollows'
    <2>1. player'.current = Nothing
        BY <1>1 DEF SameView
    <2>2. ASSUME IsPrepared
          PROVE  Follows(player', AllRecords)
        BY <1>2, <2>2, HistoryAscends, InitialStateFollows, SameViewFollows
    <2>3. IsPrepared' => Follows(player', AllRecords')
        BY <1>2, <2>2
    <2> QED
        BY <2>1, <2>3 DEF PlayerFollows
<1>4. SourceFollows' /\ source' \in SourceStates
    BY <1>1 DEF SourceFollows, SourceStates, NoSource, Position, SameView
<1> QED
    BY <1>2, <1>3, <1>4 DEF PlayerInv

\* Where a connection may stand.
SourceIsBehind(connection) ==
    /\ connection.after <= Position(player)
    /\ connection.phase = "connecting" => connection.heard = 0
    /\ connection.phase = "streaming" =>
          /\ IsPrepared
          /\ Reached(AllRecords, connection.after) + connection.heard
                <= Reached(AllRecords, Position(player)) + 1

\* A step that takes no record.
LEMMA PlayerShowsTheSame ==
    ASSUME PlayerInv, answer' = answer,
           player' \in ReplayStates, SameView(player', player),
           rendered' \in {rendered, player'},
           source' \in SourceStates, SourceIsBehind(source')
    PROVE  PlayerInv'
<1>1. Position(player') = Position(player) /\ player'.current = player.current
    BY DEF SameView, Position
<1>2. answer \in {Read(raw) : raw \in Answers} /\ IsPrepared' = IsPrepared
      /\ AllRecords' = AllRecords
    BY DEF PlayerInv, IsPrepared, AllRecords
<1>3. PlayerFollows'
    <2>1. IsPrepared => Follows(player', AllRecords)
        BY SameViewFollows DEF PlayerInv, PlayerFollows
    <2> QED
        BY <1>1, <1>2, <2>1 DEF PlayerInv, PlayerFollows
<1>4. rendered' \in ReplayStates
    BY DEF PlayerInv
<1>5. rendered'.current # Nothing =>
         player'.current # Nothing /\ rendered'.current \in 1 .. player'.current
    <2>1. CASE rendered' = rendered
        BY <1>1, <2>1 DEF PlayerInv, SourceFollows
    <2>2. CASE rendered' = player'
        <3>1. player.current # Nothing => player.current > 0 /\ player.current \in Nat
            BY DEF PlayerInv, PlayerFollows, ReplayStates
        <3> QED
            BY <1>1, <2>2, <3>1
    <2> QED
        BY <2>1, <2>2
<1>6. SourceFollows'
    BY <1>1, <1>2, <1>5 DEF SourceIsBehind, SourceFollows
<1> QED
    BY <1>2, <1>3, <1>4, <1>6 DEF PlayerInv

\* What it says of the connection and the position.
LEMMA Connections ==
    ASSUME PlayerInv
    PROVE  /\ NoSource \in SourceStates /\ SourceIsBehind(NoSource)
           /\ source \in SourceStates /\ SourceIsBehind(source)
           /\ Position(player) \in Nat
           /\ player.current \in Nat \cup {Nothing} /\ player.current <= Position(player)
           /\ IsPrepared => Ascends(AllRecords)
<1>1. Position(player) \in Nat /\ player.current \in Nat \cup {Nothing}
      /\ player.current <= Position(player)
    BY Positions DEF PlayerInv
<1>2. NoSource \in SourceStates /\ SourceIsBehind(NoSource)
    BY <1>1 DEF NoSource, SourceStates, SourceIsBehind
<1> QED
    BY <1>1, <1>2, HistoryAscends DEF PlayerInv, SourceFollows, SourceIsBehind

\* A cursor up to the position has reached no more than the position has.
LEMMA ReachedSoFar ==
    ASSUME PlayerInv, IsPrepared, NEW c \in Nat, c <= Position(player)
    PROVE  LET from == Reached(AllRecords, c)
               last == Reached(AllRecords, Position(player))
           IN  /\ from \in 0 .. Len(AllRecords) /\ last \in 0 .. Len(AllRecords)
               /\ from <= last
<1>1. Ascends(AllRecords) /\ Position(player) \in Nat
    BY Connections
<1>2. c \in Int /\ Position(player) \in Int
    BY <1>1
<1> QED
    BY <1>1, <1>2, FirstOnes, ReachedGrows

\* A click.
LEMMA PlayerIsClicked ==
    ASSUME PlayerInv, StartOrResume \/ Pause \/ ChangeSpeed \/ Restart
    PROVE  PlayerInv'
<1>1. CASE StartOrResume
    <2> DEFINE after == IF rendered.current = Nothing THEN 0 ELSE rendered.current
    <2>1. /\ answer' = answer
          /\ player' = WithStatus(player, "running") /\ rendered' = player'
          /\ source' = [phase |-> "connecting", after |-> after, heard |-> 0]
        BY <1>1 DEF StartOrResume, Connected, Shows
    <2>2. player' \in ReplayStates /\ SameView(player', player)
        BY <2>1, StatusKeepsView DEF PlayerInv, Statuses
    <2>3. after \in 0 .. Position(player)
        BY Connections DEF PlayerInv, SourceFollows, Position
    <2>4. source' \in SourceStates /\ SourceIsBehind(source')
        BY <2>1, <2>3, Connections DEF SourceStates, SourceIsBehind
    <2> QED
        BY <2>1, <2>2, <2>4, PlayerShowsTheSame
<1>2. CASE Pause
    <2>1. /\ answer' = answer /\ source' = NoSource
          /\ player' = WithStatus(player, "paused") /\ rendered' = player'
        BY <1>2 DEF Pause, Shows
    <2>2. player' \in ReplayStates /\ SameView(player', player)
        BY <2>1, StatusKeepsView DEF PlayerInv, Statuses
    <2> QED
        BY <2>1, <2>2, Connections, PlayerShowsTheSame
<1>3. CASE ChangeSpeed
    <2>1. /\ answer' = answer /\ source' = NoSource /\ rendered' = player'
          /\ player' \in {player, WithStatus(player, "paused")}
        BY <1>3 DEF ChangeSpeed, Shows
    <2>2. player' \in ReplayStates /\ SameView(player', player)
        BY <2>1, StatusKeepsView DEF PlayerInv, Statuses, SameView
    <2> QED
        BY <2>1, <2>2, Connections, PlayerShowsTheSame
<1>4. CASE Restart
    <2>1. /\ answer' = answer
          /\ player' = WithStatus(InitialReplayState, "running") /\ rendered' = player'
          /\ source' = [phase |-> "connecting", after |-> 0, heard |-> 0]
        BY <1>4 DEF Restart, Connected, Shows
    <2>2. player' \in ReplayStates /\ SameView(player', InitialReplayState)
        BY <2>1, InitialStateFollows, StatusKeepsView DEF Statuses
    <2> QED
        BY <2>1, <2>2, PlayerAnew
<1> QED
    BY <1>1, <1>2, <1>3, <1>4

\* Leaving the player keeps its invariant ...
LEMMA PlayerUnmounts ==
    ASSUME PlayerInv, Unmounts, answer' = answer
    PROVE  PlayerInv'
<1>1. player' \in ReplayStates /\ SameView(player', InitialReplayState)
      /\ rendered' = player' /\ source' = NoSource
    BY InitialStateFollows DEF Unmounts, SameView
<1> QED
    BY <1>1, PlayerAnew

\* ... and so does a rendering.
LEMMA PlayerRendersIt ==
    ASSUME PlayerInv, Render
    PROVE  PlayerInv'
<1>1. answer' = answer /\ player' = player /\ rendered' = player' /\ source' = source
    BY DEF Render
<1>2. player' \in ReplayStates /\ SameView(player', player)
    BY <1>1 DEF PlayerInv, SameView
<1> QED
    BY <1>1, <1>2, Connections, PlayerShowsTheSame

\* What a connection does that brings no record.
LEMMA PlayerIsConnected ==
    ASSUME PlayerInv,
           StreamOpens \/ StreamIsRefused \/ ConnectionBreaks \/ HearMeta \/ HearEnd
    PROVE  PlayerInv'
<1>1. CASE StreamOpens
    <2>1. /\ answer' = answer /\ player' = player /\ rendered' = rendered
          /\ source' = [source EXCEPT !.phase = "streaming"]
          /\ source.phase = "connecting" /\ IsPrepared
        BY <1>1 DEF StreamOpens
    <2>2. player' \in ReplayStates /\ SameView(player', player)
        BY <2>1 DEF PlayerInv, SameView
    <2>3. source' \in SourceStates /\ source'.after = source.after /\ source'.heard = 0
          /\ source.after \in Nat
        BY <2>1, Connections DEF SourceStates, SourceIsBehind
    <2>4. source.after <= Position(player) /\ Ascends(AllRecords)
        BY <2>1, Connections DEF SourceIsBehind
    <2>5. Reached(AllRecords, source.after) \in Int /\ Reached(AllRecords, Position(player)) \in Int
          /\ Reached(AllRecords, source.after) <= Reached(AllRecords, Position(player))
        BY <2>1, <2>3, <2>4, ReachedSoFar
    <2>6. SourceIsBehind(source')
        BY <2>1, <2>3, <2>4, <2>5 DEF SourceIsBehind
    <2> QED
        BY <2>1, <2>2, <2>3, <2>6, PlayerShowsTheSame
<1>2. CASE StreamIsRefused
    <2>1. /\ answer' = answer /\ rendered' = rendered /\ source' = NoSource
          /\ player' \in {player, WithStatus(player, "error")}
        BY <1>2 DEF StreamIsRefused
    <2>2. player' \in ReplayStates /\ SameView(player', player)
        BY <2>1, StatusKeepsView DEF PlayerInv, Statuses, SameView
    <2> QED
        BY <2>1, <2>2, Connections, PlayerShowsTheSame
<1>3. CASE ConnectionBreaks
    <2>1. /\ answer' = answer /\ player' = player /\ rendered' = rendered
          /\ source' = [source EXCEPT !.phase = "connecting", !.heard = 0]
        BY <1>3 DEF ConnectionBreaks
    <2>2. player' \in ReplayStates /\ SameView(player', player)
        BY <2>1 DEF PlayerInv, SameView
    <2>3. source' \in SourceStates /\ source'.phase = "connecting"
          /\ source'.after = source.after /\ source'.heard = 0
        BY <2>1, Connections DEF SourceStates
    <2>4. SourceIsBehind(source')
        BY <2>3, Connections DEF SourceIsBehind
    <2> QED
        BY <2>1, <2>2, <2>3, <2>4, PlayerShowsTheSame
<1>4. CASE HearMeta
    <2>1. /\ answer' = answer /\ rendered' = rendered
          /\ player' = [player EXCEPT !.total = Len(AllRecords)]
          /\ source.phase = "streaming" /\ source.heard = 0
          /\ source' = [source EXCEPT !.heard = 1]
        BY <1>4 DEF HearMeta, MetaIsNext
    <2>2. /\ IsPrepared /\ source.after <= Position(player) /\ source.after \in Nat
          /\ Ascends(AllRecords) /\ Len(AllRecords) \in Nat
        BY <2>1, Connections DEF SourceIsBehind, SourceStates, Ascends
    <2>3. player' \in ReplayStates /\ SameView(player', player)
        BY <2>1, <2>2 DEF PlayerInv, SameView, ReplayStates
    <2>4. source' \in SourceStates /\ source'.after = source.after /\ source'.heard = 1
        BY <2>1, Connections DEF SourceStates
    <2>5. Reached(AllRecords, source.after) \in Int /\ Reached(AllRecords, Position(player)) \in Int
          /\ Reached(AllRecords, source.after) <= Reached(AllRecords, Position(player))
        BY <2>2, ReachedSoFar
    <2>6. source'.phase = "streaming"
        BY <2>1, Connections DEF SourceStates
    <2>7. SourceIsBehind(source')
        BY <2>2, <2>4, <2>5, <2>6 DEF SourceIsBehind
    <2> QED
        BY <2>1, <2>3, <2>4, <2>7, PlayerShowsTheSame
<1>5. CASE HearEnd
    <2>1. /\ answer' = answer /\ rendered' = rendered /\ source' = NoSource
          /\ player' = WithStatus(player, StatusAtEnd(player))
        BY <1>5 DEF HearEnd
    <2>2. StatusAtEnd(player) \in Statuses
        BY DEF PlayerInv, ReplayStates, StatusAtEnd, Statuses
    <2>3. player' \in ReplayStates /\ SameView(player', player)
        BY <2>1, <2>2, StatusKeepsView DEF PlayerInv
    <2> QED
        BY <2>1, <2>3, Connections, PlayerShowsTheSame
<1> QED
    BY <1>1, <1>2, <1>3, <1>4, <1>5

\* The record a connection brings next is one the player has taken, or the one
\* after those.
LEMMA NextIsKnownOrNext ==
    ASSUME PlayerInv, ScoreIsNext
    PROVE  LET first == Reached(AllRecords, 0)
               last == Reached(AllRecords, Position(player))
           IN  /\ IsPrepared /\ first \in Nat /\ last \in Nat /\ Len(AllRecords) \in Nat
               /\ last <= Len(AllRecords) /\ first <= last
               /\ \E i \in first + 1 .. last + 1 :
                     /\ i <= Len(AllRecords)
                     /\ i = Reached(AllRecords, source.after) + source.heard
                     /\ NextRecord = AllRecords[i]
<1> DEFINE from == Reached(AllRecords, source.after)
           first == Reached(AllRecords, 0)
           last == Reached(AllRecords, Position(player))
           N == Len(AllRecords)
           i == from + source.heard
<1>1. /\ source.phase = "streaming" /\ source.heard \in DOMAIN RecordsAfter(source.after)
      /\ source.after \in Nat /\ source.heard \in Nat
    BY Connections DEF ScoreIsNext, SourceStates
<1>2. /\ IsPrepared /\ source.after <= Position(player) /\ i <= last + 1
      /\ Ascends(AllRecords) /\ N \in Nat
    BY <1>1, Connections DEF SourceIsBehind, Ascends
<1>3. from \in 0 .. N /\ last \in 0 .. N /\ from <= last
    BY <1>1, <1>2, ReachedSoFar
<1>4. first \in 0 .. N /\ first <= from
    <2>1. 0 \in Int /\ source.after \in Int /\ 0 <= source.after
        BY <1>1
    <2> QED
        BY <1>2, <2>1, FirstOnes, ReachedGrows
<1>5. RecordsAfter(source.after) = [n \in 1 .. N - from |-> AllRecords[from + n]]
    <2>1. source.after \in Int
        BY <1>1
    <2> QED
        BY <1>2, <2>1, SentRecords
<1> HIDE DEF from, first, last, N
<1>6. source.heard \in 1 .. N - from
    BY <1>1, <1>5
<1>7. NextRecord = AllRecords[i]
    BY <1>5, <1>6 DEF NextRecord
<1>8. i \in first + 1 .. last + 1 /\ i <= N
    BY <1>2, <1>3, <1>4, <1>6
<1>9. first \in Nat /\ last \in Nat /\ last <= N /\ first <= last
    BY <1>2, <1>3, <1>4
<1> QED
    BY <1>2, <1>7, <1>8, <1>9 DEF from, first, last, N

\* A known one changes nothing; the next one is taken.
LEMMA PlayerHearsIt ==
    ASSUME PlayerInv, HearScore
    PROVE  /\ PlayerInv'
           /\ Reached(AllRecords, Position(player)) <= Reached(AllRecords, Position(player'))
           /\ \A n \in Reached(AllRecords, Position(player)) + 1 ..
                          Reached(AllRecords, Position(player')) :
                 AllRecords[n] = NextRecord
<1> DEFINE first == Reached(AllRecords, 0)
           last == Reached(AllRecords, Position(player))
           N == Len(AllRecords)
<1>1. /\ answer' = answer /\ rendered' = rendered /\ ScoreIsNext
      /\ source' = [source EXCEPT !.heard = @ + 1]
      /\ player' = Reduced(player, NextRecord)
    BY DEF HearScore
<1>2. /\ IsPrepared /\ first \in Nat /\ last \in Nat /\ N \in Nat /\ last <= N /\ first <= last
      /\ \E i \in first + 1 .. last + 1 :
            /\ i <= N
            /\ i = Reached(AllRecords, source.after) + source.heard
            /\ NextRecord = AllRecords[i]
    BY <1>1, NextIsKnownOrNext
<1>3. PICK i \in first + 1 .. last + 1 :
         /\ i <= N
         /\ i = Reached(AllRecords, source.after) + source.heard
         /\ NextRecord = AllRecords[i]
    BY <1>2
<1>4. /\ Ascends(AllRecords) /\ Position(player) \in Nat
      /\ player.current \in Nat \cup {Nothing} /\ player.current <= Position(player)
      /\ source \in SourceStates /\ SourceIsBehind(source)
    BY <1>2, Connections
<1>5. i \in 1 .. N /\ AllRecords[i].sequence \in Nat
    BY <1>2, <1>3, <1>4 DEF Ascends
<1>6. /\ 0 \in Int /\ Position(player) \in Int
      /\ \A n \in 1 .. N : AllRecords[n].sequence <= 0 <=> n <= first
      /\ \A n \in 1 .. N : AllRecords[n].sequence <= Position(player) <=> n <= last
    <2>1. 0 \in Int /\ Position(player) \in Int
        BY <1>4
    <2> QED
        BY <1>4, <2>1, FirstOnes
<1>7. /\ source'.after = source.after /\ source'.phase = source.phase
      /\ source'.heard = source.heard + 1 /\ source' \in SourceStates
      /\ source.phase = "streaming"
    BY <1>1, <1>4 DEF SourceStates, ScoreIsNext
<1>8. Reached(AllRecords, source'.after) + source'.heard = i + 1
    <2>1. Reached(AllRecords, source.after) \in 0 .. N
        <3>1. source.after \in Int
            BY <1>4 DEF SourceStates
        <3> QED
            BY <1>4, <3>1, FirstOnes
    <2>2. source.heard \in Nat
        BY <1>4 DEF SourceStates
    <2> HIDE DEF first, last, N
    <2> QED
        BY <1>2, <1>3, <1>7, <2>1, <2>2
<1>9. CASE i <= last
    <2>1. AllRecords[i].sequence <= player.current
        <3>1. AllRecords[i].sequence <= Position(player) /\ ~(AllRecords[i].sequence <= 0)
            BY <1>2, <1>3, <1>5, <1>6, <1>9
        <3>2. Position(player) # 0
            BY <1>5, <3>1
        <3>3. player.current = Position(player)
            BY <3>2, Positions DEF PlayerInv, Position
        <3> QED
            BY <3>1, <3>3
    <2>2. player' = player
        BY <1>1, <1>3, <2>1 DEF Reduced
    <2>3. player' \in ReplayStates /\ SameView(player', player)
        BY <2>2 DEF PlayerInv, SameView
    <2>4. SourceIsBehind(source')
        <3> HIDE DEF first, last, N
        <3>1. i + 1 <= last + 1
            BY <1>2, <1>3, <1>9
        <3> QED
            BY <1>2, <1>4, <1>7, <1>8, <3>1 DEF SourceIsBehind, last
    <2>5. PlayerInv'
        BY <1>1, <1>7, <2>3, <2>4, PlayerShowsTheSame
    <2> HIDE DEF first, N
    <2> QED
        BY <1>2, <2>2, <2>5
<1>10. CASE i = last + 1
    <2> DEFINE taken == Taken(player, AllRecords[i])
    <2>1. ~(AllRecords[i].sequence <= Position(player))
        BY <1>2, <1>5, <1>6, <1>10
    <2>2. ~(AllRecords[i].sequence <= player.current)
        <3>1. player.current \in Int
            BY <1>4 DEF Nothing
        <3> QED
            BY <1>4, <1>5, <2>1, <3>1
    <2>3. player' = taken
        BY <1>1, <1>3, <2>2 DEF Reduced
    <2>4. Follows(player, AllRecords) /\ player \in ReplayStates
        BY <1>2 DEF PlayerInv, PlayerFollows
    <2>5. /\ taken \in ReplayStates
          /\ taken.current = AllRecords[i].sequence
          /\ taken.current > Position(player)
          /\ Position(taken) = taken.current
          /\ Reached(AllRecords, Position(taken)) = i
          /\ Follows(taken, AllRecords)
        BY <1>2, <1>3, <1>4, <1>10, <2>4, TakenFollows
    <2> HIDE DEF taken
    <2>6. IsPrepared' = IsPrepared /\ AllRecords' = AllRecords
        BY <1>1 DEF IsPrepared, AllRecords
    <2>7. PlayerFollows'
        <3>1. player'.current > 0
            BY <1>4, <1>5, <2>3, <2>5
        <3>2. Follows(player', AllRecords')
            BY <2>3, <2>5, <2>6
        <3> QED
            BY <1>2, <2>6, <3>1, <3>2 DEF PlayerFollows
    <2>8. rendered'.current # Nothing =>
             player'.current # Nothing /\ rendered'.current \in 1 .. player'.current
        <3>1. rendered.current # Nothing =>
                 player.current # Nothing /\ rendered.current \in 1 .. player.current
            BY DEF PlayerInv, SourceFollows
        <3>2. player'.current \in Nat /\ player'.current > player.current
            BY <1>4, <1>5, <2>3, <2>5 DEF Nothing
        <3>3. player'.current # Nothing
            BY <3>2 DEF Nothing
        <3>4. player.current \in Int
            BY <1>4 DEF Nothing
        <3> QED
            BY <1>1, <3>1, <3>2, <3>3, <3>4
    <2>9. SourceFollows'
        <3>1. source'.after <= Position(player')
            <4>1. source.after \in Nat /\ source.after <= Position(player)
                BY <1>4 DEF SourceStates, SourceIsBehind
            <4>2. Position(player') > Position(player) /\ Position(player') \in Nat
                BY <1>5, <2>3, <2>5
            <4> QED
                BY <1>4, <1>7, <4>1, <4>2
        <3>2. Reached(AllRecords, source'.after) + source'.heard
                 <= Reached(AllRecords, Position(player')) + 1
            BY <1>5, <1>8, <2>3, <2>5
        <3> QED
            BY <1>2, <1>7, <2>6, <2>8, <3>1, <3>2 DEF SourceFollows
    <2>10. PlayerInv'
        BY <1>1, <1>7, <2>3, <2>5, <2>7, <2>9 DEF PlayerInv
    <2>11. Reached(AllRecords, Position(player')) = i
        BY <2>3, <2>5
    <2> HIDE DEF first, N
    <2>12. last <= i /\ \A n \in last + 1 .. i : n = i
        BY <1>2, <1>10
    <2> QED
        BY <1>3, <2>10, <2>11, <2>12
<1> HIDE DEF first, last, N
<1>11. i <= last \/ i = last + 1
    BY <1>2, <1>3
<1> QED
    BY <1>9, <1>10, <1>11 DEF last

\* Only a record takes the player on.
LEMMA StaysOrStarts ==
    ASSUME PlayerInv,
           \/ StartOrResume \/ Pause \/ ChangeSpeed \/ Restart \/ Unmounts \/ Render
           \/ StreamOpens \/ StreamIsRefused \/ ConnectionBreaks \/ HearMeta \/ HearEnd
    PROVE  Position(player') \in {Position(player), 0}
<1>1. player \in ReplayStates
    BY DEF PlayerInv
<1>2. \A status : WithStatus(player, status).current = player.current
    BY <1>1 DEF WithStatus, ReplayStates
<1>3. \A status : WithStatus(InitialReplayState, status).current = Nothing
    BY DEF WithStatus, InitialReplayState
<1>4. [player EXCEPT !.total = Len(AllRecords)].current = player.current
    BY <1>1 DEF ReplayStates
<1>5. player'.current \in {player.current, Nothing}
    <2>1. CASE StartOrResume \/ Pause \/ ChangeSpeed
        BY <1>2, <2>1 DEF StartOrResume, Pause, ChangeSpeed, Connected, Shows
    <2>2. CASE Restart \/ Unmounts
        <3>1. InitialReplayState.current = Nothing
            BY DEF InitialReplayState
        <3> QED
            BY <1>3, <2>2, <3>1 DEF Restart, Unmounts, Connected, Shows
    <2>3. CASE Render \/ StreamOpens \/ ConnectionBreaks
        BY <2>3 DEF Render, StreamOpens, ConnectionBreaks
    <2>4. CASE StreamIsRefused \/ HearMeta \/ HearEnd
        BY <1>2, <1>4, <2>4 DEF StreamIsRefused, HearMeta, HearEnd
    <2> QED
        BY <2>1, <2>2, <2>3, <2>4
<1> QED
    BY <1>5 DEF Position

-----------------------------------------------------------------------------
(* The demo                                                                *)

DemoPart ==
    /\ demo \in DemoStates
    /\ page \in {"demo", "match"}
    /\ DemoFollows

\* No record lies between a cursor and itself.
LEMMA NothingBeforeTheFirst ==
    ASSUME PlayerInv, IsPrepared, NEW n \in Reached(AllRecords, 0) + 1 .. Reached(AllRecords, 0)
    PROVE  FALSE
<1>1. Ascends(AllRecords)
    BY Connections
<1>2. 0 \in Int
    OBVIOUS
<1>3. Reached(AllRecords, 0) \in 0 .. Len(AllRecords)
    BY <1>1, <1>2, FirstOnes
<1> QED
    BY <1>3

\* A step of the demo in which no record is heard.
LEMMA DemoHearsNothing ==
    ASSUME PlayerInv, DemoPart, page = "demo", page' = page, answer' = answer,
           Position(player') \in {Position(player), 0},
           heard' = heard, failed => failed', unavailable' => failed',
           demo' \in DemoStates,
           demo'.replayComplete => demo.replayComplete \/ failed',
           demo'.stage = "settlement" => demo'.replayComplete
    PROVE  DemoPart'
<1>1. IsPrepared' = IsPrepared /\ AllRecords' = AllRecords
    BY DEF IsPrepared, AllRecords
<1>2. ASSUME IsPrepared,
             NEW n \in Reached(AllRecords, 0) + 1 .. Reached(AllRecords, Position(player'))
      PROVE  AllRecords[n] \in heard
    <2>1. CASE Position(player') = Position(player)
        BY <1>2, <2>1 DEF DemoPart, DemoFollows
    <2>2. CASE Position(player') = 0
        BY <1>2, <2>2, NothingBeforeTheFirst
    <2> QED
        BY <2>1, <2>2
<1>3. demo'.replayComplete => failed' \/ IsOver(heard, AllRecords)
    BY DEF DemoPart, DemoFollows
<1> QED
    BY <1>1, <1>2, <1>3 DEF DemoPart, DemoFollows

\* The records that say a match is over go on saying it.
LEMMA IsOverForGood ==
    ASSUME NEW known, NEW more, NEW records, known \subseteq more, IsOver(known, records)
    PROVE  IsOver(more, records)
BY DEF IsOver

\* The demo keeps its part when the player hears an event ...
LEMMA DemoHearsIt ==
    ASSUME PlayerInv, DemoPart, page = "demo", page' = page, PlayerHears
    PROVE  PlayerInv' /\ DemoPart'
<1> DEFINE first == Reached(AllRecords, 0)
           last == Reached(AllRecords, Position(player))
           N == Len(AllRecords)
<1>1. /\ HearScore /\ ScoreIsNext /\ answer' = answer
      /\ demo' = IF CallsOnComplete THEN Completed(demo) ELSE demo
      /\ heard' = heard \cup {NextRecord}
      /\ unavailable' = unavailable /\ failed' = failed
      /\ demo.stage = "replay"
    BY DEF PlayerHears, HearScore, At
<1>2. /\ PlayerInv'
      /\ last <= Reached(AllRecords, Position(player'))
      /\ \A n \in last + 1 .. Reached(AllRecords, Position(player')) :
            AllRecords[n] = NextRecord
    BY <1>1, PlayerHearsIt
<1>3. /\ IsPrepared /\ first \in Nat /\ last \in Nat /\ N \in Nat /\ last <= N /\ first <= last
      /\ \E i \in first + 1 .. last + 1 :
            /\ i <= N
            /\ i = Reached(AllRecords, source.after) + source.heard
            /\ NextRecord = AllRecords[i]
    BY <1>1, NextIsKnownOrNext
<1>4. PICK i \in first + 1 .. last + 1 : i <= N /\ NextRecord = AllRecords[i]
    BY <1>3
<1>5. \A n \in first + 1 .. last : AllRecords[n] \in heard
    BY <1>3 DEF DemoPart, DemoFollows
<1>6. IsPrepared' = IsPrepared /\ AllRecords' = AllRecords
    BY <1>1 DEF IsPrepared, AllRecords
<1>7. Ascends(AllRecords)
    BY <1>3, Connections
<1>8. /\ \A n \in 1 .. N : AllRecords[n].sequence <= 0 <=> n <= first
      /\ \A n \in 1 .. N : AllRecords[n].sequence \in Nat
      /\ DOMAIN AllRecords = 1 .. N
    <2>1. 0 \in Int
        OBVIOUS
    <2> QED
        BY <1>7, <2>1, FirstOnes DEF Ascends
<1>9. Reached(AllRecords, Position(player')) \in Nat
    <2>1. Position(player') \in Nat
        BY <1>2, Positions DEF PlayerInv
    <2>2. Position(player') \in Int
        BY <2>1
    <2>3. Reached(AllRecords, Position(player')) \in 0 .. N
        BY <1>7, <2>2, FirstOnes
    <2> QED
        BY <1>3, <2>3
<1> HIDE DEF first, last, N
<1>10. \A n \in first + 1 .. Reached(AllRecords, Position(player')) : AllRecords[n] \in heard'
    <2> TAKE n \in first + 1 .. Reached(AllRecords, Position(player'))
    <2>1. n \in first + 1 .. last \/ n \in last + 1 .. Reached(AllRecords, Position(player'))
        BY <1>3, <1>9
    <2> QED
        BY <1>1, <1>2, <1>5, <2>1
<1>11. demo' \in DemoStates /\ demo'.stage = "replay"
    BY <1>1 DEF DemoPart, DemoStates, Completed
<1>12. ASSUME CallsOnComplete
       PROVE  IsOver(heard', AllRecords)
    <2>1. NextRecord.isFinal
        BY <1>12 DEF CallsOnComplete
    <2>2. i \in 1 .. N
        BY <1>3, <1>4
    <2>3. SaysFinal(NextRecord)
        BY <1>4, <1>7, <1>8, <2>1, <2>2 DEF Ascends
    <2>4. ASSUME NEW n \in 1 .. N, AllRecords[n].sequence \in 1 .. NextRecord.sequence
          PROVE  AllRecords[n] \in heard'
        <3>1. AllRecords[n].sequence \in Nat /\ AllRecords[i].sequence \in Nat
              /\ AllRecords[n].sequence <= AllRecords[i].sequence
            BY <1>4, <1>8, <2>2, <2>4
        <3>2. ~(n <= first)
            BY <1>8, <2>4, <3>1
        <3>3. ~(i < n)
            <4>1. i < n => AllRecords[i].sequence < AllRecords[n].sequence
                BY <1>7, <1>8, <2>2 DEF Ascends
            <4> QED
                BY <3>1, <4>1
        <3>4. n \in first + 1 .. last \/ n = i
            BY <1>3, <1>4, <3>2, <3>3
        <3> QED
            BY <1>1, <1>4, <1>5, <3>4
    <2>5. NextRecord \in heard'
        BY <1>1
    <2> QED
        BY <1>8, <2>3, <2>4, <2>5 DEF IsOver
<1>13. demo'.replayComplete => failed' \/ IsOver(heard', AllRecords)
    <2>1. CASE CallsOnComplete
        BY <1>12, <2>1
    <2>2. CASE ~CallsOnComplete
        <3>1. demo' = demo /\ heard \subseteq heard'
            BY <1>1, <2>2
        <3>2. demo.replayComplete => failed \/ IsOver(heard, AllRecords)
            BY DEF DemoPart, DemoFollows
        <3> QED
            BY <1>1, <3>1, <3>2, IsOverForGood
    <2> QED
        BY <2>1, <2>2
<1>14. unavailable' => failed'
    BY <1>1 DEF DemoPart, DemoFollows
<1>15. DemoPart'
    BY <1>6, <1>10, <1>11, <1>13, <1>14 DEF DemoPart, DemoFollows, first
<1> QED
    BY <1>2, <1>15

\* The player as it was.
LEMMA PlayerIsLeftAlone ==
    ASSUME PlayerInv, answer' = answer, playerVars' = playerVars
    PROVE  PlayerInv' /\ Position(player') \in {Position(player), 0}
<1>1. player' = player /\ rendered' = rendered /\ source' = source
    BY DEF playerVars
<1>2. player' \in ReplayStates /\ SameView(player', player)
    BY <1>1 DEF PlayerInv, SameView
<1> QED
    BY <1>1, <1>2, Connections, PlayerShowsTheSame

\* ... and in every step of the demo's page.
LEMMA DemoStep ==
    ASSUME PlayerInv, DemoPart, page = "demo", page' = page, Next
    PROVE  PlayerInv' /\ DemoPart' /\ answer' = answer
<1>1. CASE SelectFixture
    <2>1. PlayerInv' /\ Position(player') \in {Position(player), 0}
        BY <1>1, PlayerIsLeftAlone DEF SelectFixture, Stays
    <2>2. demo' = [demo EXCEPT !.stage = "build", !.fixture = Fixture]
        BY <1>1 DEF SelectFixture
    <2>3. /\ answer' = answer /\ heard' = heard /\ failed' = failed
          /\ unavailable' = unavailable
        BY <1>1 DEF SelectFixture, Stays, history
    <2>4. demo' \in DemoStates /\ demo'.replayComplete = demo.replayComplete
          /\ demo'.stage = "build"
        BY <2>2 DEF DemoPart, DemoStates
    <2> QED
        BY <2>1, <2>3, <2>4, DemoHearsNothing DEF DemoPart, DemoFollows
<1>2. ASSUME NEW c \in Conditions, Confirm(c)
      PROVE  PlayerInv' /\ DemoPart' /\ answer' = answer
    <2>1. PlayerInv' /\ Position(player') \in {Position(player), 0}
        BY <1>2, PlayerIsLeftAlone DEF Confirm, Stays
    <2>2. demo' = [demo EXCEPT !.stage = "join", !.commitment = c]
        BY <1>2 DEF Confirm
    <2>3. /\ answer' = answer /\ heard' = heard /\ failed' = failed
          /\ unavailable' = unavailable
        BY <1>2 DEF Confirm, Stays, history
    <2>4. demo' \in DemoStates /\ demo'.replayComplete = demo.replayComplete
          /\ demo'.stage = "join"
        BY <2>2 DEF DemoPart, DemoStates
    <2> QED
        BY <2>1, <2>3, <2>4, DemoHearsNothing DEF DemoPart, DemoFollows
<1>3. ASSUME NEW s \in {"yes", "no"}, PickSide(s)
      PROVE  PlayerInv' /\ DemoPart' /\ answer' = answer
    <2>1. PlayerInv' /\ Position(player') \in {Position(player), 0}
        BY <1>3, PlayerIsLeftAlone DEF PickSide, Stays
    <2>2. /\ answer' = answer /\ heard' = heard /\ failed' = failed
          /\ unavailable' = unavailable /\ demo' = demo
        BY <1>3 DEF PickSide, Stays, history
    <2> QED
        BY <2>1, <2>2, DemoHearsNothing DEF DemoPart, DemoFollows
<1>4. CASE JoinPool
    <2>1. PlayerInv' /\ Position(player') \in {Position(player), 0}
        BY <1>4, PlayerIsLeftAlone DEF JoinPool, Stays
    <2>2. demo' = [demo EXCEPT !.stage = "replay", !.side = "yes"]
        BY <1>4 DEF JoinPool
    <2>3. /\ answer' = answer /\ heard' = heard /\ failed' = failed
          /\ unavailable' = unavailable
        BY <1>4 DEF JoinPool, Stays, history
    <2>4. demo' \in DemoStates /\ demo'.replayComplete = demo.replayComplete
          /\ demo'.stage = "replay"
        BY <2>2 DEF DemoPart, DemoStates
    <2> QED
        BY <2>1, <2>3, <2>4, DemoHearsNothing DEF DemoPart, DemoFollows
<1>5. CASE UseFallback
    <2>1. PlayerInv' /\ Position(player') \in {Position(player), 0}
        BY <1>5, PlayerIsLeftAlone DEF UseFallback, Stays
    <2>2. demo' = [demo EXCEPT !.replayComplete = TRUE] /\ demo.stage = "replay"
        BY <1>5 DEF UseFallback, Completed, At
    <2>3. /\ answer' = answer /\ heard' = heard /\ failed' = failed
          /\ unavailable' = unavailable /\ unavailable
        BY <1>5 DEF UseFallback, Stays, history
    <2>4. demo' \in DemoStates /\ demo'.stage = "replay"
        BY <2>2 DEF DemoPart, DemoStates
    <2>5. failed
        BY <2>3 DEF DemoPart, DemoFollows
    <2> QED
        BY <2>1, <2>3, <2>4, <2>5, DemoHearsNothing
<1>6. CASE OpenSettlement
    <2>1. /\ answer' = answer /\ heard' = heard /\ failed' = failed
          /\ unavailable' = unavailable /\ demo.replayComplete /\ Unmounts
          /\ demo' = [demo EXCEPT !.stage = "settlement"]
        BY <1>6 DEF OpenSettlement, history
    <2>2. PlayerInv' /\ Position(player') \in {Position(player), 0}
        BY <2>1, PlayerUnmounts, StaysOrStarts
    <2>3. demo' \in DemoStates /\ demo'.replayComplete = demo.replayComplete
        BY <2>1 DEF DemoPart, DemoStates
    <2> QED
        BY <2>1, <2>2, <2>3, DemoHearsNothing DEF DemoPart, DemoFollows
<1>7. CASE Back
    <2>1. /\ answer' = answer /\ heard' = heard /\ failed' = failed
          /\ unavailable' = unavailable /\ Unmounts /\ demo.stage # "select"
          /\ demo' = [demo EXCEPT !.stage = PreviousStage(@)]
        BY <1>7 DEF Back, history, At
    <2>2. PlayerInv' /\ Position(player') \in {Position(player), 0}
        BY <2>1, PlayerUnmounts, StaysOrStarts
    <2>3. PreviousStage(demo.stage) \in {"select", "build", "join", "replay"}
        BY <2>1 DEF PreviousStage, DemoPart, DemoStates
    <2>4. demo' \in DemoStates /\ demo'.replayComplete = demo.replayComplete
          /\ demo'.stage # "settlement"
        BY <2>1, <2>3 DEF DemoPart, DemoStates
    <2> QED
        BY <2>1, <2>2, <2>4, DemoHearsNothing DEF DemoPart, DemoFollows
<1>8. CASE Reset
    <2>1. /\ answer' = answer /\ Unmounts /\ demo' = InitialDemoState
          /\ heard' = {} /\ failed' = FALSE /\ unavailable' = FALSE
        BY <1>8 DEF Reset, UnavailableAfterReset
    <2>2. PlayerInv' /\ Position(player') = 0
        BY <2>1, PlayerUnmounts DEF Unmounts, InitialReplayState, Position
    <2>3. demo' \in DemoStates /\ demo'.replayComplete = FALSE /\ demo'.stage = "select"
        BY <2>1 DEF InitialDemoState, DemoStates
    <2>4. IsPrepared' = IsPrepared /\ AllRecords' = AllRecords
        BY <2>1 DEF IsPrepared, AllRecords
    <2>5. ASSUME IsPrepared,
                 NEW n \in Reached(AllRecords, 0) + 1 .. Reached(AllRecords, 0)
          PROVE  AllRecords[n] \in heard'
        BY <2>5, NothingBeforeTheFirst
    <2>6. DemoPart'
        BY <2>1, <2>2, <2>3, <2>4, <2>5 DEF DemoPart, DemoFollows
    <2> QED
        BY <2>1, <2>2, <2>6
<1>9. CASE PlayerIsUsed \/ PlayerRestarts \/ PlayerRenders \/ PlayerListens \/ PlayerLosesStream
    <2>1. PlayerAlone
        BY <1>9 DEF PlayerIsUsed, PlayerRestarts, PlayerRenders, PlayerListens, PlayerLosesStream
    <2>2. \/ StartOrResume \/ Pause \/ ChangeSpeed \/ Restart \/ Render
          \/ StreamOpens \/ ConnectionBreaks \/ HearMeta \/ HearEnd
        BY <1>9 DEF PlayerIsUsed, PlayerRestarts, PlayerRenders, PlayerListens, PlayerLosesStream
    <2>3. /\ heard' = heard /\ failed' = failed /\ unavailable' = unavailable /\ demo' = demo
        BY <2>1 DEF PlayerAlone, demoVars, history
    <2>4. PlayerInv' /\ Position(player') \in {Position(player), 0}
        BY <2>2, StaysOrStarts, PlayerIsClicked, PlayerRendersIt, PlayerIsConnected
    <2>5. answer' = answer
        BY <2>2 DEF StartOrResume, Pause, ChangeSpeed, Restart, Render,
                    StreamOpens, ConnectionBreaks, HearMeta, HearEnd
    <2> QED
        BY <2>3, <2>4, <2>5, DemoHearsNothing DEF DemoPart, DemoFollows
<1>10. CASE PlayerFails
    <2>1. /\ StreamIsRefused /\ heard' = heard /\ failed' = TRUE /\ demo' = demo
          /\ answer' = answer
        BY <1>10 DEF PlayerFails, StreamIsRefused
    <2>2. PlayerInv' /\ Position(player') \in {Position(player), 0}
        BY <2>1, StaysOrStarts, PlayerIsConnected
    <2> QED
        BY <2>1, <2>2, DemoHearsNothing DEF DemoPart, DemoFollows
<1>11. CASE PlayerHears
    BY <1>11, DemoHearsIt DEF PlayerHears, HearScore
<1> QED
    BY <1>1, <1>2, <1>3, <1>4, <1>5, <1>6, <1>7, <1>8, <1>9, <1>10, <1>11 DEF Next

-----------------------------------------------------------------------------
(* The live monitor                                                        *)

LivePart ==
    /\ monitor \in ReplayStates
    /\ live \in LiveStates
    /\ published \in 0 .. Len(Feed)
    /\ MonitorFollows

\* The live feed has ascending records.
LEMMA FeedRecords ==
    ASSUME PlayerInv
    PROVE  /\ Len(Feed) \in Nat
           /\ \A i \in 1 .. Len(Feed) :
                 /\ Feed[i].sequence \in Nat
                 /\ Feed[i].lifecycle \in Lifecycles
                 /\ Feed[i].goals \in Int
           /\ \A i, j \in 1 .. Len(Feed) : i < j => Feed[i].sequence < Feed[j].sequence
<1>1. CASE IsPrepared
    <2>1. Feed = AllRecords /\ Ascends(AllRecords)
        BY <1>1, Connections DEF Feed
    <2> QED
        BY <2>1 DEF Ascends
<1>2. CASE ~IsPrepared
    BY <1>2 DEF Feed
<1> QED
    BY <1>1, <1>2

\* It is that of the answer.
LEMMA FeedIsKept ==
    ASSUME answer' = answer
    PROVE  Feed' = Feed
BY DEF Feed, IsPrepared, AllRecords

\* The live monitor's part holds while its variables do not change ...
LEMMA MonitorIsKept ==
    ASSUME LivePart, answer' = answer, liveVars' = liveVars
    PROVE  LivePart'
<1>1. /\ published' = published /\ monitor' = monitor /\ banner' = banner
      /\ staleTimer' = staleTimer /\ live' = live
    BY DEF liveVars
<1> QED
    BY <1>1, FeedIsKept DEF LivePart, MonitorFollows

\* ... and when it is mounted or left ...
LEMMA MonitorIsNew ==
    ASSUME LivePart, answer' = answer, Mounts \/ Leaves
    PROVE  LivePart'
<1>1. /\ published' = published /\ monitor' = InitialReplayState
      /\ banner' = "connecting" /\ staleTimer' = FALSE
      /\ live' \in {NotConnected, [phase |-> "connecting", next |-> 0]}
    BY DEF Mounts, Leaves, Unmonitored
<1>2. live'.phase # "open" /\ live' \in LiveStates
    BY <1>1 DEF NotConnected, LiveStates
<1>3. MonitorFollows'
    BY <1>1, <1>2 DEF MonitorFollows
<1> QED
    BY <1>1, <1>2, <1>3, FeedIsKept, InitialStateFollows DEF LivePart

\* ... and in each of its steps.
LEMMA MonitorSteps ==
    ASSUME PlayerInv, LivePart, answer' = answer,
           \/ \E next \in 1 .. published + 1 : LiveOpens(next)
           \/ LiveHears \/ LiveBreaks \/ LiveIsRefused \/ GetsStale \/ Retry \/ Publish
    PROVE  LivePart'
<1>1. Feed' = Feed /\ Len(Feed) \in Nat /\ published \in 0 .. Len(Feed)
      /\ monitor \in ReplayStates
      /\ live \in LiveStates
    BY FeedIsKept, FeedRecords DEF LivePart
<1>2. ASSUME NEW next \in 1 .. published + 1, LiveOpens(next)
      PROVE  LivePart'
    <2>1. /\ published' = published /\ monitor' = WithStatus(monitor, "running")
          /\ banner' = "connected" /\ staleTimer' = TRUE
          /\ live' = [phase |-> "open", next |-> next]
        BY <1>2 DEF LiveOpens, MarkActive
    <2>2. monitor' \in ReplayStates
        BY <1>1, <2>1, StatusKeepsView DEF Statuses
    <2>3. MonitorFollows' /\ live' \in LiveStates
        BY <1>1, <2>1 DEF MonitorFollows, LiveStates
    <2> QED
        BY <1>1, <2>1, <2>2, <2>3 DEF LivePart
<1>3. CASE LiveHears
    <2> DEFINE record == Feed[live.next]
    <2>1. /\ published' = published /\ monitor' = Reduced(monitor, record)
          /\ banner' = "connected" /\ live.phase = "open" /\ live.next <= published
          /\ live' = [live EXCEPT !.next = @ + 1]
        BY <1>3 DEF LiveHears, MarkActive
    <2>2. live.next \in 1 .. published /\ live.next \in 1 .. Len(Feed)
        BY <1>1, <2>1 DEF LivePart, MonitorFollows
    <2>3. /\ record.sequence \in Nat /\ record.lifecycle \in Lifecycles /\ record.goals \in Int
        BY <2>2, FeedRecords
    <2> HIDE DEF record
    <2>4. /\ Taken(monitor, record) \in ReplayStates
          /\ Taken(monitor, record).current = record.sequence
        BY <1>1, <2>3, TakenIsState
    <2>5. monitor' \in ReplayStates /\ record.sequence <= monitor'.current
        BY <1>1, <2>1, <2>3, <2>4 DEF Reduced
    <2>6. /\ live' \in LiveStates
          /\ live'.phase = "open" /\ live'.next = live.next + 1
        BY <1>1, <2>1 DEF LiveStates
    <2>7. live'.next - 1 = live.next /\ live'.next > 1 /\ live'.next \in 1 .. published + 1
        BY <1>1, <2>2, <2>6
    <2>8. Feed'[live'.next - 1] = record
        BY <1>1, <2>7 DEF record
    <2>9. MonitorFollows'
        BY <2>1, <2>5, <2>6, <2>7, <2>8 DEF MonitorFollows
    <2> QED
        BY <1>1, <2>1, <2>5, <2>6, <2>9 DEF LivePart
<1>4. CASE LiveBreaks \/ LiveIsRefused \/ Retry
    <2>1. /\ published' = published /\ monitor' = monitor
          /\ banner' # "connected"
          /\ live' \in {NotConnected, [phase |-> "connecting", next |-> 0]}
        BY <1>4 DEF LiveBreaks, LiveIsRefused, Retry
    <2>2. live'.phase # "open"
          /\ live' \in LiveStates
        BY <2>1 DEF NotConnected, LiveStates
    <2> QED
        BY <1>1, <2>1, <2>2 DEF LivePart, MonitorFollows
<1>5. CASE GetsStale
    <2>1. /\ published' = published /\ monitor' = monitor /\ live' = live /\ banner' = "stale"
        BY <1>5 DEF GetsStale
    <2> QED
        BY <1>1, <2>1 DEF LivePart, MonitorFollows
<1>6. CASE Publish
    <2>1. /\ published < Len(Feed) /\ published' = published + 1 /\ monitor' = monitor
          /\ banner' = banner /\ staleTimer' = staleTimer /\ live' = live
        BY <1>6 DEF Publish
    <2>2. published' \in 0 .. Len(Feed)
        BY <1>1, <2>1
    <2>3. live.next \in 1 .. published + 1 => live.next \in 1 .. published' + 1
        BY <1>1, <2>1
    <2> QED
        BY <1>1, <2>1, <2>2, <2>3 DEF LivePart, MonitorFollows
<1> QED
    BY <1>2, <1>3, <1>4, <1>5, <1>6

-----------------------------------------------------------------------------
(* The pages                                                               *)

\* The invariant is that of the player, the demo and the monitor.
LEMMA InvariantParts ==
    /\ IInv <=> PlayerInv /\ DemoPart /\ LivePart
    /\ IInv' <=> PlayerInv' /\ DemoPart' /\ LivePart'
BY DEF IInv, TypeOK, PlayerInv, DemoPart, LivePart

\* It holds when a page is opened.
LEMMA PagesStart ==
    ASSUME PagesInit
    PROVE  IInv
<1>1. PlayerInv
    BY PlayerStarts DEF PagesInit, Init
<1>2. player = InitialReplayState /\ Position(player) = 0
    BY DEF PagesInit, Init, PlayerInit, InitialReplayState, Position
<1>3. DemoPart
    <2>1. demo = InitialDemoState /\ unavailable = FALSE /\ page \in {"demo", "match"}
        BY DEF PagesInit, Init
    <2>2. demo \in DemoStates /\ demo.replayComplete = FALSE /\ demo.stage = "select"
        BY <2>1 DEF InitialDemoState, DemoStates
    <2>3. ASSUME IsPrepared,
                 NEW n \in Reached(AllRecords, 0) + 1 .. Reached(AllRecords, 0)
          PROVE  AllRecords[n] \in heard
        BY <1>1, <2>3, NothingBeforeTheFirst
    <2> QED
        BY <1>2, <2>1, <2>2, <2>3 DEF DemoPart, DemoFollows
<1>4. LivePart
    <2>1. /\ published = 0 /\ monitor = InitialReplayState /\ banner = "connecting"
          /\ staleTimer = FALSE /\ live = NotConnected
        BY DEF PagesInit, LiveInit
    <2>2. Len(Feed) \in Nat
        BY <1>1, FeedRecords
    <2>3. MonitorFollows
        BY <2>1 DEF MonitorFollows, NotConnected
    <2> QED
        BY <2>1, <2>2, <2>3, InitialStateFollows DEF LivePart, LiveStates, NotConnected
<1> QED
    BY <1>1, <1>3, <1>4, InvariantParts

\* What the match center does leaves the demo as it is.
LEMMA DemoIsNotShown ==
    ASSUME DemoPart, page = "match", page' = page, demoVars' = demoVars, history' = history,
           answer' = answer
    PROVE  DemoPart'
<1>1. /\ demo' = demo /\ unavailable' = unavailable /\ heard' = heard /\ failed' = failed
    BY DEF demoVars, history
<1>2. IsPrepared' = IsPrepared /\ AllRecords' = AllRecords
    BY DEF IsPrepared, AllRecords
<1> QED
    BY <1>1, <1>2 DEF DemoPart, DemoFollows

\* Every step of the pages keeps it ...
LEMMA PagesStep ==
    ASSUME IInv, PagesNext
    PROVE  IInv'
<1> USE InvariantParts
<1>0. PlayerInv /\ DemoPart /\ LivePart
    OBVIOUS
<1>1. CASE Demo
    <2>1. page = "demo" /\ page' = page /\ Next /\ liveVars' = liveVars
        BY <1>1 DEF Demo
    <2>2. PlayerInv' /\ DemoPart' /\ answer' = answer
        BY <1>0, <2>1, DemoStep
    <2>3. LivePart'
        BY <1>0, <2>1, <2>2, MonitorIsKept
    <2> QED
        BY <2>2, <2>3
<1>2. ASSUME NEW m, InMode(m)
      PROVE  DemoPart' /\ answer' = answer
    BY <1>0, <1>2, DemoIsNotShown DEF InMode
<1>3. CASE WatchLive \/ WatchReplay
    <2>1. DemoPart' /\ answer' = answer
        BY <1>2, <1>3 DEF WatchLive, WatchReplay
    <2>2. Mounts \/ Leaves
        BY <1>3 DEF WatchLive, WatchReplay
    <2>3. Unmounts \/ playerVars' = playerVars
        BY <1>3 DEF WatchLive, WatchReplay
    <2>4. PlayerInv'
        BY <1>0, <2>1, <2>3, PlayerUnmounts, PlayerIsLeftAlone
    <2> QED
        BY <1>0, <2>1, <2>2, <2>4, MonitorIsNew
<1>4. CASE ReplayIsUsed \/ ReplayRestarts \/ ReplayRenders \/ ReplayListens \/ ReplayLosesStream
    <2>1. Replaying
        BY <1>4 DEF ReplayIsUsed, ReplayRestarts, ReplayRenders, ReplayListens, ReplayLosesStream
    <2>2. \/ StartOrResume \/ Pause \/ ChangeSpeed \/ Restart \/ Render \/ HearScore
          \/ StreamOpens \/ StreamIsRefused \/ ConnectionBreaks \/ HearMeta \/ HearEnd
        BY <1>4 DEF ReplayIsUsed, ReplayRestarts, ReplayRenders, ReplayListens, ReplayLosesStream
    <2>3. DemoPart' /\ answer' = answer /\ liveVars' = liveVars
        BY <1>2, <2>1 DEF Replaying
    <2>4. PlayerInv'
        BY <1>0, <2>2, PlayerIsClicked, PlayerRendersIt, PlayerIsConnected, PlayerHearsIt
    <2> QED
        BY <1>0, <2>3, <2>4, MonitorIsKept
<1>5. CASE MonitorOpens \/ MonitorHears \/ MonitorFails \/ MonitorWaits
    <2>1. Watching
        BY <1>5 DEF MonitorOpens, MonitorHears, MonitorFails, MonitorWaits
    <2>2. \/ \E next \in 1 .. published + 1 : LiveOpens(next)
          \/ LiveHears \/ LiveBreaks \/ LiveIsRefused \/ GetsStale \/ Retry
        BY <1>5 DEF MonitorOpens, MonitorHears, MonitorFails, MonitorWaits
    <2>3. DemoPart' /\ answer' = answer /\ playerVars' = playerVars
        BY <1>2, <2>1 DEF Watching
    <2> QED
        BY <1>0, <2>2, <2>3, MonitorSteps, PlayerIsLeftAlone
<1>6. CASE MatchGoesOn
    <2>1. /\ page = "match" /\ page' = page /\ Publish /\ answer' = answer
          /\ playerVars' = playerVars /\ demoVars' = demoVars /\ history' = history
        BY <1>6 DEF MatchGoesOn, vars
    <2> QED
        BY <1>0, <2>1, MonitorSteps, PlayerIsLeftAlone, DemoIsNotShown
<1> QED
    BY <1>1, <1>3, <1>4, <1>5, <1>6 DEF PagesNext

\* ... and so does a stutter.
LEMMA PagesStutter ==
    ASSUME IInv, pagesVars' = pagesVars
    PROVE  IInv'
<1>1. /\ answer' = answer /\ player' = player /\ rendered' = rendered /\ source' = source
      /\ demo' = demo /\ unavailable' = unavailable /\ heard' = heard /\ failed' = failed
      /\ published' = published /\ monitor' = monitor /\ banner' = banner
      /\ staleTimer' = staleTimer /\ live' = live /\ page' = page
    BY DEF pagesVars, vars, liveVars, playerVars, demoVars, history
<1> QED
    BY <1>1 DEF IInv, TypeOK, PlayerFollows, SourceFollows, DemoFollows, MonitorFollows,
                IsPrepared, AllRecords, Feed

\* However the judge and the network behave, the player shows what its records
\* make, no connection is ahead of it, the demo knows what it was sent, and a
\* monitor without a running timer is as far as its connection.
THEOREM Invariant == PagesSpec => []IInv
<1>1. PagesInit => IInv
    BY PagesStart
<1>2. IInv /\ [PagesNext]_pagesVars => IInv'
    BY PagesStep, PagesStutter
<1> QED
    BY <1>1, <1>2, PTL DEF PagesSpec

-----------------------------------------------------------------------------
(* What the pages show                                                     *)

\* A monitor that says it is connected, with no timer running, has shown or will
\* be sent everything the feed has carried beyond what it shows.
THEOREM ConnectedIsCurrent == PagesSpec => []ConnectedMeansCurrent
<1>1. ASSUME IInv
      PROVE  ConnectedMeansCurrent
    <2> SUFFICES ASSUME banner = "connected", ~staleTimer
                 PROVE  /\ live.phase = "open"
                        /\ \A i \in 1 .. published :
                              Feed[i].sequence > monitor.current => i >= live.next
        BY DEF ConnectedMeansCurrent
    <2>1. /\ live.phase = "open" /\ live.next \in 1 .. published + 1 /\ live.next > 1
          /\ Feed[live.next - 1].sequence <= monitor.current
        BY <1>1 DEF IInv, MonitorFollows
    <2>2. /\ Len(Feed) \in Nat
          /\ \A i \in 1 .. Len(Feed) : Feed[i].sequence \in Nat
          /\ \A i, j \in 1 .. Len(Feed) : i < j => Feed[i].sequence < Feed[j].sequence
        BY <1>1, InvariantParts, FeedRecords
    <2>3. published \in 0 .. Len(Feed) /\ monitor \in ReplayStates
        BY <1>1 DEF IInv, TypeOK
    <2>4. monitor.current \in Int
        BY <2>3 DEF ReplayStates, Nothing
    <2>5. ASSUME NEW i \in 1 .. published, i < live.next
          PROVE  Feed[i].sequence <= monitor.current
        <3>1. i \in 1 .. Len(Feed) /\ live.next - 1 \in 1 .. Len(Feed)
              /\ (i = live.next - 1 \/ i < live.next - 1)
            BY <2>1, <2>2, <2>3, <2>5
        <3>2. Feed[i].sequence \in Nat /\ Feed[live.next - 1].sequence \in Nat
            BY <2>2, <3>1
        <3>3. Feed[i].sequence <= Feed[live.next - 1].sequence
            BY <2>2, <3>1, <3>2
        <3> QED
            BY <2>1, <2>4, <3>2, <3>3
    <2>6. ASSUME NEW i \in 1 .. published, Feed[i].sequence > monitor.current
          PROVE  i >= live.next
        <3>1. Feed[i].sequence \in Nat
            BY <2>2, <2>3
        <3> QED
            BY <2>1, <2>4, <2>5, <2>6, <3>1
    <2> QED
        BY <2>1, <2>6
<1> QED
    BY <1>1, Invariant, PTL

\* Settlement opens after a failure of the replay, or after a final record and
\* every record before it.
THEOREM SettlementIsEarned == PagesSpec => []SettlementFollowsFinal
<1>1. IInv => SettlementFollowsFinal
    BY DEF IInv, DemoFollows, IsOver, SettlementFollowsFinal, At
<1> QED
    BY <1>1, Invariant, PTL

\* The last sequence numbers are those of the last records.
LEMMA LastSequences ==
    ASSUME NEW S, NEW taken \in Seq(S), NEW items \in Seq(Nat), Len(items) = Len(taken),
           \A i \in 1 .. Len(taken) : items[i] = taken[i].sequence
    PROVE  LastOf(items) = [i \in DOMAIN LastOf(taken) |-> LastOf(taken)[i].sequence]
<1> DEFINE N == Len(taken)
           from == IF N > TimelineLimit THEN N - TimelineLimit ELSE 0
<1>1. TimelineLimit \in Nat /\ TimelineLimit > 0 /\ N \in Nat
    BY TimelineAssumption
<1>2. from \in 0 .. N
    BY <1>1
<1>3. /\ LastOf(taken) \in Seq(S) /\ Len(LastOf(taken)) = N - from
      /\ \A i \in 1 .. N - from : LastOf(taken)[i] = taken[from + i]
    BY LastOfIs
<1>4. /\ LastOf(items) \in Seq(Nat) /\ Len(LastOf(items)) = N - from
      /\ \A i \in 1 .. N - from : LastOf(items)[i] = items[from + i]
    BY LastOfIs
<1> HIDE DEF from
<1>5. DOMAIN LastOf(items) = 1 .. N - from /\ DOMAIN LastOf(taken) = 1 .. N - from
    BY <1>1, <1>2, <1>3, <1>4, LenProperties
<1>6. \A i \in 1 .. N - from : LastOf(items)[i] = LastOf(taken)[i].sequence
    <2> TAKE i \in 1 .. N - from
    <2>1. from + i \in 1 .. N
        BY <1>1, <1>2
    <2> QED
        BY <1>3, <1>4, <2>1
<1>7. LastOf(items) = [i \in DOMAIN LastOf(items) |-> LastOf(items)[i]]
    BY <1>4
<1> QED
    BY <1>5, <1>6, <1>7

\* However often a connection sends a record, the player has taken it once and
\* in order, and shows the last one.
THEOREM EachRecordOnce == PagesSpec => []CountsEachRecordOnce
<1>1. ASSUME IInv
      PROVE  CountsEachRecordOnce
    <2> DEFINE first == Reached(AllRecords, 0)
               last == Reached(AllRecords, player.current)
               N == Len(AllRecords)
               places == {i \in DOMAIN AllRecords :
                             AllRecords[i].sequence \in 1 .. player.current}
               taken == Kept(AllRecords, places)
               final == taken[Len(taken)]
               items == [n \in 1 .. last - first |-> AllRecords[first + n].sequence]
    <2> SUFFICES ASSUME player.current # Nothing
                 PROVE  /\ player.processed = Len(taken)
                        /\ player.timeline =
                              [i \in DOMAIN LastOf(taken) |-> LastOf(taken)[i].sequence]
                        /\ player.current = final.sequence
                        /\ player.lifecycle = final.lifecycle /\ player.goals = final.goals
        BY DEF CountsEachRecordOnce
    <2>1. PlayerInv
        BY <1>1, InvariantParts
    <2>2. /\ IsPrepared /\ Follows(player, AllRecords) /\ Ascends(AllRecords)
          /\ player.current \in Nat /\ Position(player) = player.current
        BY <2>1, Connections DEF PlayerInv, PlayerFollows, Position
    <2>3. /\ last > first
          /\ player.current = AllRecords[last].sequence
          /\ player.lifecycle = AllRecords[last].lifecycle
          /\ player.goals = AllRecords[last].goals
          /\ player.processed = last - first
          /\ player.timeline = LastOf(items)
        BY <2>2 DEF Follows
    <2>4. /\ first \in 0 .. N /\ last \in 0 .. N /\ N \in Nat /\ DOMAIN AllRecords = 1 .. N
          /\ \A i \in 1 .. N : AllRecords[i].sequence \in Nat
          /\ \A i \in 1 .. N : AllRecords[i].sequence <= 0 <=> i <= first
          /\ \A i \in 1 .. N : AllRecords[i].sequence <= player.current <=> i <= last
        <3>1. 0 \in Int /\ player.current \in Int
            BY <2>2
        <3> QED
            BY <2>2, <3>1, FirstOnes DEF Ascends
    <2> HIDE DEF first, last, N
    <2>5. places = first + 1 .. first + (last - first)
        BY <2>2, <2>3, <2>4
    <2> HIDE DEF places
    <2>6. taken = [n \in 1 .. last - first |-> AllRecords[first + n]]
        <3>1. first \in Int /\ last - first \in Nat
            BY <2>3, <2>4
        <3>2. Kept(AllRecords, first + 1 .. first + (last - first))
                 = [n \in 1 .. last - first |-> AllRecords[first + n]]
            BY <3>1, KeptInterval
        <3> QED
            BY <2>5, <3>2
    <2> HIDE DEF taken
    <2>7. \A n \in 1 .. last - first : first + n \in 1 .. N
        BY <2>3, <2>4
    <2> DEFINE S == {AllRecords[i] : i \in 1 .. N}
    <2>8. first \in Int /\ last \in Int /\ last - first \in Nat \ {0}
        BY <2>3, <2>4
    <2>9. taken \in Seq(S) /\ Len(taken) = last - first
        <3>1. \A n \in 1 .. last - first : AllRecords[first + n] \in S
            BY <2>7
        <3> HIDE DEF S
        <3> QED
            BY <2>6, <2>8, <3>1
    <2>10. final = AllRecords[last]
        <3>1. last - first \in 1 .. last - first /\ first + (last - first) = last
            BY <2>8
        <3> QED
            BY <2>6, <2>9, <3>1
    <2>11. items \in Seq(Nat) /\ Len(items) = last - first
        BY <2>3, <2>4, <2>7
    <2>12. \A i \in 1 .. Len(taken) : items[i] = taken[i].sequence
        BY <2>6, <2>9
    <2> HIDE DEF S, items
    <2>13. LastOf(items) = [i \in DOMAIN LastOf(taken) |-> LastOf(taken)[i].sequence]
        BY <2>9, <2>11, <2>12, LastSequences
    <2> QED
        BY <2>3, <2>9, <2>10, <2>13
<1> QED
    BY <1>1, Invariant, PTL
=============================================================================
