-------------------------- MODULE PoolEscrowProofs --------------------------
(***************************************************************************)
(* Theorems about PoolEscrow for every set of owners, every endowment and   *)
(* every bound, checked by TLAPS.                                           *)
(***************************************************************************)
EXTENDS PoolEscrowRefinement, FiniteSetTheorems, TLAPS

-----------------------------------------------------------------------------
(* Arithmetic                                                               *)

\* Integer division by a positive number, as two inequalities.
LEMMA DivBounds ==
    ASSUME NEW x \in Nat, NEW y \in Nat \ {0}
    PROVE  /\ x \div y \in Nat
           /\ (x \div y) * y <= x
           /\ x < (x \div y + 1) * y
  OBVIOUS

\* A product of natural numbers is one.
LEMMA ProductIsNat ==
    ASSUME NEW x \in Nat, NEW y \in Nat
    PROVE  x * y \in Nat
  OBVIOUS

\* Multiplication by a natural number is monotonic.
LEMMA ProductMonotonic ==
    ASSUME NEW x \in Nat, NEW y \in Nat, NEW z \in Nat, x <= y
    PROVE  x * z <= y * z
  OBVIOUS

\* A payout is a natural number.
LEMMA PayoutIsNat ==
    ASSUME NEW p, NEW a \in Nat, p.remainingPool \in Nat,
           p.remainingWinning \in Nat, p.remainingWinning >= a, a > 0
    PROVE  Payout(p, a) \in Nat
  <1>1. p.remainingPool * a \in Nat
    BY ProductIsNat
  <1>2. (p.remainingPool * a) \div p.remainingWinning \in Nat
    BY <1>1, DivBounds
  <1> QED
    BY <1>2 DEF Payout


\* What a winner who is not the last is paid: at least the stake, at most the
\* pot, and never so much that the rest cannot be returned their stakes.
LEMMA PayoutLeavesEnough ==
    ASSUME NEW R \in Nat, NEW W \in Nat, NEW a \in Nat,
           a > 0, a < W, W <= R
    PROVE  LET n == (R * a) \div W
           IN  n \in Nat /\ a <= n /\ n <= R /\ W - a <= R - n
  <1> DEFINE n == (R * a) \div W
  <1>1. n \in Nat /\ n * W <= R * a /\ R * a < (n + 1) * W
    BY ProductIsNat, DivBounds
  <1>2. a <= n
    <2>1. W * a <= R * a
      BY ProductMonotonic
    <2>2. SUFFICES ASSUME n + 1 <= a PROVE FALSE
      BY <1>1
    <2>3. (n + 1) * W <= a * W
      BY <1>1, <2>2, ProductMonotonic
    <2>4. a * W = W * a
      OBVIOUS
    <2> QED
      BY <1>1, <2>1, <2>3, <2>4
  <1>3. W - a <= R - n
    <2> DEFINE d == R - W
               e == W - a
    <2>1. d \in Nat /\ e \in Nat /\ R = d + W /\ a = W - e
      OBVIOUS
    <2>2. SUFFICES ASSUME d + a + 1 <= n PROVE FALSE
      BY <1>1
    <2>3. (d + a + 1) * W <= n * W
      BY <1>1, <2>1, <2>2, ProductMonotonic
    <2>4. (d + a + 1) * W = d * W + a * W + W
      BY <2>1
    <2>5. R * a = d * a + W * a
      BY <2>1
    <2>6. d * a <= d * W
      BY <2>1
    <2>7. a * W = W * a
      OBVIOUS
    <2>8. d * W \in Nat /\ d * a \in Nat /\ a * W \in Nat
      BY <2>1, ProductIsNat
    <2> HIDE DEF d, e, n
    <2> QED
      BY <1>1, <2>3, <2>4, <2>5, <2>6, <2>7, <2>8
  <1> QED
    BY <1>1, <1>2, <1>3

\* A factor of a comparison can be cancelled.
LEMMA CancelFactor ==
    ASSUME NEW x \in Nat, NEW y \in Nat, NEW z \in Nat \ {0}, x * z <= y * z
    PROVE  x <= y
  <1> SUFFICES ASSUME y + 1 <= x PROVE FALSE
    OBVIOUS
  <1>1. (y + 1) * z <= x * z
    BY ProductMonotonic
  <1>2. (y + 1) * z = y * z + z
    OBVIOUS
  <1>3. x * z \in Nat /\ y * z \in Nat
    BY ProductIsNat
  <1> QED
    BY <1>1, <1>2, <1>3

\* Products of three can be rearranged.
LEMMA ProductSwap ==
    ASSUME NEW x \in Nat, NEW y \in Nat, NEW z \in Nat
    PROVE  (x * y) * z = (x * z) * y /\ (x * y) * z \in Nat
  OBVIOUS

(* In the following lemmas R is what the pool holds and W the unclaimed     *)
(* winning stake, a or b the stake of a claim and n or m what it is paid;   *)
(* pot and winning are R and W as they were when the pool was settled.      *)

\* A payout is the share a / W of R, rounded down, for the last winner too.
LEMMA PayoutIsTheShare ==
    ASSUME NEW p, NEW a \in Nat, p.remainingPool \in Nat, p.remainingWinning \in Nat,
           a > 0, a <= p.remainingWinning
    PROVE  LET n == Payout(p, a)
               R == p.remainingPool
               W == p.remainingWinning
           IN  n \in Nat /\ n * W <= R * a /\ R * a < (n + 1) * W
  <1> DEFINE R == p.remainingPool
             W == p.remainingWinning
  <1>1. R \in Nat /\ W \in Nat \ {0} /\ R * a \in Nat
    BY ProductIsNat
  <1>2. CASE a = W
    <2>1. Payout(p, a) = R
      BY <1>2 DEF Payout
    <2>2. (R + 1) * W = R * W + W
      BY <1>1
    <2> HIDE DEF R, W
    <2> QED
      BY <1>1, <1>2, <2>1, <2>2 DEF R, W
  <1>3. CASE a # W
    <2>1. Payout(p, a) = (R * a) \div W
      BY <1>3 DEF Payout
    <2> HIDE DEF R, W
    <2>2. /\ (R * a) \div W \in Nat
          /\ ((R * a) \div W) * W <= R * a
          /\ R * a < ((R * a) \div W + 1) * W
      BY <1>1, DivBounds
    <2> QED
      BY <2>1, <2>2 DEF R, W
  <1> QED
    BY <1>2, <1>3

\* What a claim leaves is at least the share of the stakes it leaves.
LEMMA RestKeepsShare ==
    ASSUME NEW R \in Nat, NEW W \in Nat, NEW b \in Nat, NEW m \in Nat,
           m <= R, b <= W, m * W <= R * b
    PROVE  R * (W - b) <= (R - m) * W
  <1>1. R * (W - b) = R * W - R * b /\ (R - m) * W = R * W - m * W
    OBVIOUS
  <1>2. R * W \in Nat /\ R * b \in Nat /\ m * W \in Nat
    BY ProductIsNat
  <1> QED
    BY <1>1, <1>2

\* While the rate is kept, a payout is at least the share of the whole pot.
LEMMA PaysTheShareOfThePot ==
    ASSUME NEW R \in Nat, NEW W \in Nat \ {0}, NEW a \in Nat, NEW n \in Nat,
           NEW pot \in Nat, NEW winning \in Nat \ {0},
           R * a < (n + 1) * W, pot * W <= R * winning
    PROVE  pot * a < (n + 1) * winning
  <1>1. (R * a) * winning < ((n + 1) * W) * winning
    <2>1. (R * a + 1) * winning <= ((n + 1) * W) * winning
      BY ProductIsNat, ProductMonotonic
    <2>2. (R * a + 1) * winning = (R * a) * winning + winning
      BY ProductIsNat
    <2>3. (R * a) * winning \in Nat /\ ((n + 1) * W) * winning \in Nat
      BY ProductSwap
    <2> QED
      BY <2>1, <2>2, <2>3
  <1>2. (pot * W) * a <= (R * winning) * a
    BY ProductIsNat, ProductMonotonic
  <1>3. (pot * a) * W < ((n + 1) * winning) * W
    <2>1. (pot * W) * a = (pot * a) * W /\ (pot * W) * a \in Nat
      BY ProductSwap
    <2>2. (R * winning) * a = (R * a) * winning /\ (R * winning) * a \in Nat
      BY ProductSwap
    <2>3. ((n + 1) * W) * winning = ((n + 1) * winning) * W
          /\ ((n + 1) * W) * winning \in Nat
      BY ProductSwap
    <2> QED
      BY <1>1, <1>2, <2>1, <2>2, <2>3
  <1>4. SUFFICES ASSUME (n + 1) * winning <= pot * a PROVE FALSE
    BY ProductIsNat
  <1>5. ((n + 1) * winning) * W <= (pot * a) * W
    BY <1>4, ProductIsNat, ProductMonotonic
  <1> QED
    BY <1>3, <1>5, ProductSwap

\* With a surplus of at most k units per winning unit, a payout exceeds the
\* share of the whole pot by at most k.
LEMMA PaysTheSurplusAtMost ==
    ASSUME NEW R \in Nat, NEW W \in Nat \ {0}, NEW a \in Nat, NEW n \in Nat,
           NEW pot \in Nat, NEW winning \in Nat, NEW k \in Nat,
           a <= W, n * W <= R * a,
           R * winning <= pot * W + k * winning
    PROVE  n * winning <= pot * a + k * winning
  <1>1. (n * W) * winning <= (R * a) * winning
    BY ProductIsNat, ProductMonotonic
  <1>2. (R * winning) * a <= (pot * W + k * winning) * a
    BY ProductIsNat, ProductMonotonic
  <1>3. (pot * W + k * winning) * a = (pot * W) * a + (k * winning) * a
    OBVIOUS
  <1>4. a * (k * winning) <= W * (k * winning)
    BY ProductIsNat, ProductMonotonic
  <1>5. (pot * a + k * winning) * W = (pot * a) * W + (k * winning) * W
    OBVIOUS
  <1>6. a * (k * winning) = (k * winning) * a /\ W * (k * winning) = (k * winning) * W
    OBVIOUS
  <1>7. (n * winning) * W <= (pot * a + k * winning) * W
    <2>1. (n * W) * winning = (n * winning) * W /\ (n * W) * winning \in Nat
      BY ProductSwap
    <2>2. (R * winning) * a = (R * a) * winning /\ (R * winning) * a \in Nat
      BY ProductSwap
    <2>3. (pot * W) * a = (pot * a) * W /\ (pot * W) * a \in Nat
      BY ProductSwap
    <2>4. (k * winning) * a \in Nat /\ (k * winning) * W \in Nat
      BY ProductSwap
    <2> QED
      BY <1>1, <1>2, <1>3, <1>4, <1>5, <1>6, <2>1, <2>2, <2>3, <2>4
  <1> QED
    BY <1>7, ProductIsNat, CancelFactor

\* A claim keeps the rate.
LEMMA RateDoesNotFall ==
    ASSUME NEW R \in Nat, NEW W \in Nat \ {0}, NEW a \in Nat, NEW n \in Nat,
           NEW pot \in Nat, NEW winning \in Nat,
           a <= W, n <= R, n * W <= R * a, pot * W <= R * winning
    PROVE  pot * (W - a) <= (R - n) * winning
  <1> DEFINE d == R - n
             e == W - a
  <1>1. d \in Nat /\ e \in Nat
    OBVIOUS
  <1>2. R * e <= d * W
    BY RestKeepsShare
  <1> HIDE DEF d, e
  <1>3. (R * e) * winning <= (d * W) * winning
    BY <1>1, <1>2, ProductIsNat, ProductMonotonic
  <1>4. (pot * W) * e <= (R * winning) * e
    BY <1>1, ProductIsNat, ProductMonotonic
  <1>5. (pot * e) * W <= (d * winning) * W
    <2>1. (pot * W) * e = (pot * e) * W /\ (pot * W) * e \in Nat
      BY <1>1, ProductSwap
    <2>2. (R * winning) * e = (R * e) * winning /\ (R * winning) * e \in Nat
      BY <1>1, ProductSwap
    <2>3. (d * W) * winning = (d * winning) * W /\ (d * W) * winning \in Nat
      BY <1>1, ProductSwap
    <2> QED
      BY <1>3, <1>4, <2>1, <2>2, <2>3
  <1>6. pot * e <= d * winning
    BY <1>1, <1>5, ProductIsNat, CancelFactor
  <1> QED
    BY <1>6 DEF d, e

\* A claim adds at most one unit per winning unit to the surplus.
LEMMA SurplusGrowsByOne ==
    ASSUME NEW R \in Nat, NEW W \in Nat, NEW a \in Nat, NEW n \in Nat,
           NEW pot \in Nat, NEW winning \in Nat, NEW k \in Nat,
           a <= W, n <= R, pot * a < (n + 1) * winning,
           R * winning <= pot * W + k * winning
    PROVE  (R - n) * winning <= pot * (W - a) + (k + 1) * winning
  <1>1. /\ (R - n) * winning = R * winning - n * winning
        /\ pot * (W - a) = pot * W - pot * a
        /\ (k + 1) * winning = k * winning + winning
        /\ (n + 1) * winning = n * winning + winning
    OBVIOUS
  <1>2. /\ R * winning \in Nat /\ n * winning \in Nat /\ pot * W \in Nat
        /\ pot * a \in Nat /\ k * winning \in Nat
    BY ProductIsNat
  <1> QED
    BY <1>1, <1>2

\* A claim of b in between costs a later claim of a nothing.
LEMMA WaitingCostsNothing ==
    ASSUME NEW R \in Nat, NEW W \in Nat, NEW a \in Nat, NEW n \in Nat,
           NEW b \in Nat, NEW m \in Nat,
           a > 0, a + b <= W, m <= R, m * W <= R * b, n * W <= R * a
    PROVE  n * (W - b) <= (R - m) * a
  <1> DEFINE d == R - m
             e == W - b
  <1>1. d \in Nat /\ e \in Nat /\ W \in Nat \ {0}
    OBVIOUS
  <1>2. R * e <= d * W
    BY RestKeepsShare
  <1> HIDE DEF d, e
  <1>3. (n * W) * e <= (R * a) * e
    BY <1>1, ProductIsNat, ProductMonotonic
  <1>4. (R * e) * a <= (d * W) * a
    BY <1>1, <1>2, ProductIsNat, ProductMonotonic
  <1>5. (n * e) * W <= (d * a) * W
    <2>1. (n * W) * e = (n * e) * W /\ (n * W) * e \in Nat
      BY <1>1, ProductSwap
    <2>2. (R * a) * e = (R * e) * a /\ (R * a) * e \in Nat
      BY <1>1, ProductSwap
    <2>3. (d * W) * a = (d * a) * W /\ (d * W) * a \in Nat
      BY <1>1, ProductSwap
    <2> QED
      BY <1>3, <1>4, <2>1, <2>2, <2>3
  <1>6. n * e <= d * a
    BY <1>1, <1>5, ProductIsNat, CancelFactor
  <1> QED
    BY <1>6 DEF d, e

-----------------------------------------------------------------------------
(* Counting stakes                                                          *)

\* The set of accounts an owner of a position can have.
Positions == [Owners -> PositionAccounts]

\* What a set of owners staked is a natural number.
LEMMA StakedIsNat ==
    ASSUME NEW f \in Positions, NEW S \in SUBSET Owners
    PROVE  IsFiniteSet(StakeUnits(f, S)) /\ StakedBy(f, S) \in Nat
  <1>1. IsFiniteSet(S)
    BY OwnersAssumption, FS_Subset
  <1>2. IsFiniteSet(1 .. MaxU64)
    BY NumbersAssumption, FS_Interval
  <1>3. IsFiniteSet(S \X (1 .. MaxU64))
    BY <1>1, <1>2, FS_Product
  <1>4. IsFiniteSet(StakeUnits(f, S))
    BY <1>3, FS_Subset DEF StakeUnits
  <1> QED
    BY <1>4, FS_CardinalityType DEF StakedBy

\* Nobody has staked nothing.
LEMMA StakedByNobody ==
    ASSUME NEW f PROVE StakedBy(f, {}) = 0
  <1>1. StakeUnits(f, {}) = {}
    BY DEF StakeUnits
  <1> QED
    BY <1>1, FS_EmptySet DEF StakedBy

\* The stakes of disjoint sets of owners add up.
LEMMA StakedByUnion ==
    ASSUME NEW f \in Positions, NEW S \in SUBSET Owners, NEW T \in SUBSET Owners,
           S \cap T = {}
    PROVE  StakedBy(f, S \cup T) = StakedBy(f, S) + StakedBy(f, T)
  <1>1. StakeUnits(f, S \cup T) = StakeUnits(f, S) \cup StakeUnits(f, T)
    BY DEF StakeUnits
  <1>2. StakeUnits(f, S) \cap StakeUnits(f, T) = {}
    BY DEF StakeUnits
  <1>3. Cardinality(StakeUnits(f, S) \cap StakeUnits(f, T)) = 0
    BY <1>2, FS_EmptySet
  <1>4. /\ IsFiniteSet(StakeUnits(f, S)) /\ Cardinality(StakeUnits(f, S)) \in Nat
        /\ IsFiniteSet(StakeUnits(f, T)) /\ Cardinality(StakeUnits(f, T)) \in Nat
    BY StakedIsNat DEF StakedBy
  <1>5. Cardinality(StakeUnits(f, S) \cup StakeUnits(f, T)) =
           Cardinality(StakeUnits(f, S)) + Cardinality(StakeUnits(f, T))
              - Cardinality(StakeUnits(f, S) \cap StakeUnits(f, T))
    BY <1>4, FS_Union, Zenon
  <1>6. Cardinality(StakeUnits(f, S) \cup StakeUnits(f, T)) =
           Cardinality(StakeUnits(f, S)) + Cardinality(StakeUnits(f, T))
    BY <1>3, <1>4, <1>5
  <1>7. Cardinality(StakeUnits(f, S \cup T)) =
           Cardinality(StakeUnits(f, S)) + Cardinality(StakeUnits(f, T))
    BY <1>1, <1>6, Zenon
  <1> QED
    BY <1>7, Zenon DEF StakedBy

\* One owner has staked the amount of its position.
LEMMA StakedByOne ==
    ASSUME NEW f \in Positions, NEW o \in Owners
    PROVE  StakedBy(f, {o}) = f[o].amount
  <1> DEFINE n == f[o].amount
  <1>1. n \in Nat /\ n <= MaxU64
    BY NumbersAssumption DEF Positions, PositionAccounts, Amounts
  <1>2. StakeUnits(f, {o}) = {o} \X (1 .. n)
    <2>1. ASSUME NEW u
          PROVE  u \in StakeUnits(f, {o}) <=> u \in {o} \X (1 .. n)
      <3>1. u \in StakeUnits(f, {o}) <=>
               u \in {o} \X (1 .. MaxU64) /\ u[2] <= f[u[1]].amount
        BY DEF StakeUnits
      <3>2. u \in {o} \X (1 .. MaxU64) => u[1] = o /\ u[2] \in 1 .. MaxU64
        OBVIOUS
      <3>3. \A k \in 1 .. MaxU64 : k <= n <=> k \in 1 .. n
        BY <1>1, NumbersAssumption
      <3>4. \A k \in 1 .. n : k \in 1 .. MaxU64
        BY <1>1, NumbersAssumption
      <3> HIDE DEF n
      <3>5. u \in {o} \X (1 .. n) =>
               u[1] = o /\ u[2] \in 1 .. n /\ u = <<u[1], u[2]>>
        OBVIOUS
      <3>6. u \in {o} \X (1 .. MaxU64) => u = <<u[1], u[2]>>
        OBVIOUS
      <3> QED
        BY <3>1, <3>2, <3>3, <3>4, <3>5, <3>6 DEF n
    <2> QED
      BY <2>1
  <1>3. Cardinality({o} \X (1 .. n)) = n
    <2> HIDE DEF n
    <2>1. IsFiniteSet({o}) /\ Cardinality({o}) = 1
      BY FS_Singleton
    <2>2. IsFiniteSet(1 .. n) /\ Cardinality(1 .. n) = IF 1 > n THEN 0 ELSE n - 1 + 1
      BY <1>1, FS_Interval
    <2>3. Cardinality(1 .. n) = n
      BY <1>1, <2>2
    <2>4. Cardinality({o} \X (1 .. n)) = Cardinality({o}) * Cardinality(1 .. n)
      BY <2>1, <2>2, FS_Product, Zenon
    <2> QED
      BY <1>1, <2>1, <2>3, <2>4
  <1> QED
    BY <1>2, <1>3, Zenon DEF StakedBy

\* Taking one owner out of a set takes out its stake.
LEMMA StakedWithout ==
    ASSUME NEW f \in Positions, NEW S \in SUBSET Owners, NEW o \in S
    PROVE  StakedBy(f, S) = StakedBy(f, S \ {o}) + f[o].amount
  <1>1. S = (S \ {o}) \cup {o} /\ (S \ {o}) \cap {o} = {}
    OBVIOUS
  <1>2. S \ {o} \in SUBSET Owners /\ {o} \in SUBSET Owners
    OBVIOUS
  <1>3. StakedBy(f, (S \ {o}) \cup {o}) = StakedBy(f, S \ {o}) + StakedBy(f, {o})
    BY <1>1, <1>2, StakedByUnion
  <1> QED
    BY <1>1, <1>3, StakedByOne

\* Only the amounts count.
LEMMA StakedSame ==
    ASSUME NEW f \in Positions, NEW g \in Positions, NEW S \in SUBSET Owners,
           \A o \in S : f[o].amount = g[o].amount
    PROVE  StakedBy(f, S) = StakedBy(g, S)
  <1>1. StakeUnits(f, S) = StakeUnits(g, S)
    BY DEF StakeUnits
  <1> QED
    BY <1>1 DEF StakedBy

\* Nobody in a set that has staked nothing has staked anything.
LEMMA StakedZero ==
    ASSUME NEW f \in Positions, NEW S \in SUBSET Owners, StakedBy(f, S) = 0,
           NEW o \in S
    PROVE  f[o].amount = 0
  <1>1. StakedBy(f, S \ {o}) \in Nat /\ f[o].amount \in Nat
    BY StakedIsNat, NumbersAssumption DEF Positions, PositionAccounts, Amounts
  <1> QED
    BY <1>1, StakedWithout

\* Owners of empty positions have staked nothing together.
LEMMA StakedByUnstaked ==
    ASSUME NEW f, NEW S, \A o \in S : f[o].amount = 0
    PROVE  StakedBy(f, S) = 0
  <1>1. StakeUnits(f, S) = {}
    BY NumbersAssumption DEF StakeUnits
  <1> QED
    BY <1>1, FS_EmptySet DEF StakedBy

-----------------------------------------------------------------------------
(* Type correctness                                                         *)

\* The type invariant is inductive.
LEMMA TypeInduction == TypeOK /\ [Next]_vars => TypeOK'
  <1> SUFFICES ASSUME TypeOK, [Next]_vars
               PROVE  TypeOK'
    OBVIOUS
  <1> USE NumbersAssumption
      DEF TypeOK, PoolAccounts, PositionAccounts, Amounts, Timestamps, Sides, None
  <1>1. ASSUME NEW cutoff \in Timestamps, NEW refundAfter \in Timestamps,
               NEW demoMode \in BOOLEAN, CreatePool(cutoff, refundAfter, demoMode)
        PROVE  TypeOK'
    BY <1>1 DEF CreatePool, PoolStates, Unresolved
  <1>2. ASSUME NEW o \in Owners, NEW side \in Sides, NEW amount \in Amounts,
               JoinPool(o, side, amount)
        PROVE  TypeOK'
    BY <1>2 DEF JoinPool, JoinAccepted
  <1>3. CASE LockPool
    BY <1>3 DEF LockPool, PoolStates, Unresolved
  <1>4. ASSUME NEW side \in Sides, NEW sequence \in Sequences
        PROVE  OutcomeRecorded(pool, side, sequence) \in PoolAccounts
    BY ZenonT(30) DEF OutcomeRecorded, OutcomeState, SettledFor, PoolStates, Settled
  <1>5. ASSUME NEW side \in Sides, NEW sequence \in Sequences,
               RecordDemoOutcome(side, sequence)
        PROVE  TypeOK'
    BY <1>4, <1>5 DEF RecordDemoOutcome
  <1>6. ASSUME NEW side \in Sides, NEW sequence \in Sequences,
               SettlePool(side, sequence)
        PROVE  TypeOK'
    BY <1>4, <1>6 DEF SettlePool
  <1>7. ASSUME NEW authority \in Callers, CancelPool(authority)
        PROVE  TypeOK'
    <2>1. ASSUME NEW st \in PoolStates, NEW w \in Sides \cup {None}, NEW n \in Amounts
          PROVE  [pool EXCEPT !.winningSide = w, !.remainingWinning = n,
                              !.state = st] \in PoolAccounts
      OBVIOUS
    <2>2. /\ (IF pool.remainingPool = 0 THEN "Closed" ELSE "Cancelled") \in PoolStates
          /\ None \in Sides \cup {None}
          /\ 0 \in Amounts
      BY DEF PoolStates
    <2>3. pool' \in PoolAccounts
      BY <1>7, <2>1, <2>2, Zenon DEF CancelPool
    <2> QED
      BY <1>7, <2>3 DEF CancelPool
  <1>8. ASSUME NEW o \in Owners, Claim(o)
        PROVE  TypeOK'
    <2> DEFINE amount == position[o].amount
               payout == Payout(pool, amount)
    <2>1. amount \in Amounts /\ payout \in Nat
      BY <1>8, PayoutIsNat DEF Claim, ClaimAccepted, Claimable
    <2>2. pool' \in PoolAccounts
      <3>1. pool.remainingPool - payout \in Amounts
        BY <1>8, <2>1 DEF Claim, ClaimAccepted
      <3>2. pool.remainingWinning - amount \in Amounts
        BY <1>8, <2>1 DEF Claim, ClaimAccepted, Claimable
      <3> HIDE DEF payout
      <3>3. ClaimRecorded(pool, amount, payout) \in PoolAccounts
        BY <3>1, <3>2 DEF ClaimRecorded, PoolStates
      <3> QED
        BY <1>8, <3>3 DEF Claim, ClaimAccepted, payout
    <2>3. position' \in [Owners -> PositionAccounts]
      BY <1>8, ZenonT(30) DEF Claim, ClaimAccepted
    <2>4. wallet' \in [Owners -> Nat] /\ vault' \in Nat
      BY <1>8, <2>1 DEF Claim, ClaimAccepted
    <2> QED
      BY <1>8, <2>2, <2>3, <2>4 DEF Claim, ClaimAccepted
  <1>9. ASSUME NEW o \in Owners, Refund(o)
        PROVE  TypeOK'
    <2> DEFINE amount == position[o].amount
    <2>1. pool.remainingPool - amount \in Amounts
      BY <1>9 DEF Refund, RefundAccepted, Refundable
    <2>2. pool' \in PoolAccounts
      BY <1>9, <2>1 DEF Refund, RefundAccepted, RefundRecorded, PoolStates
    <2>3. position' \in [Owners -> PositionAccounts]
      BY <1>9, ZenonT(30) DEF Refund, RefundAccepted
    <2> QED
      BY <1>9, <2>2, <2>3 DEF Refund, RefundAccepted
  <1>10. ASSUME NEW gift \in Gifts, DirectTransfer(gift)
         PROVE  TypeOK'
    BY <1>10 DEF DirectTransfer
  <1>11. CASE Tick
    BY <1>11 DEF Tick
  <1>12. CASE UNCHANGED vars
    BY <1>12 DEF vars
  <1> QED
    BY <1>1, <1>2, <1>3, <1>5, <1>6, <1>7, <1>8, <1>9, <1>10, <1>11, <1>12 DEF Next

\* Before the first instruction every counter is a u64.
LEMMA InitTypeOK == Init => TypeOK
  BY NumbersAssumption
  DEF Init, TypeOK, PoolAccounts, PositionAccounts, Amounts, Timestamps,
      PoolStates, NoPosition, NoRecord

\* No counter of the program leaves u64, and no balance becomes negative.
THEOREM TypeCorrect == Spec => []TypeOK
  BY InitTypeOK, TypeInduction, PTL DEF Spec

-----------------------------------------------------------------------------
(* Coherence                                                                *)

\* Every stake is on one of the two sides: before a resolution the pot is what
\* all owners together have staked.
LEMMA PotIsAllStakes ==
    ASSUME TypeOK, BooksBalance, PositionsCoherent
    PROVE  StakeOf(Owners) = Pot(pool)
  <1> DEFINE Idle == {o \in Owners : position[o].side = None}
  <1>1. position \in Positions
    BY DEF TypeOK, Positions
  <1>2. /\ Owners = (Backers("Yes") \cup Backers("No")) \cup Idle
        /\ Backers("Yes") \cap Backers("No") = {}
        /\ (Backers("Yes") \cup Backers("No")) \cap Idle = {}
    BY DEF TypeOK, PositionAccounts, Backers, Sides, None
  <1>3. StakedBy(position, Idle) = 0
    <2>1. \A o \in Idle : position[o].amount = 0
      BY DEF PositionsCoherent
    <2>2. StakeUnits(position, Idle) = {}
      BY <2>1 DEF StakeUnits
    <2> QED
      BY <2>2, FS_EmptySet DEF StakedBy
  <1>4. StakedBy(position, Owners) =
           StakedBy(position, Backers("Yes") \cup Backers("No")) + StakedBy(position, Idle)
    <2>1. /\ Backers("Yes") \cup Backers("No") \in SUBSET Owners
          /\ Idle \in SUBSET Owners
      BY DEF Backers
    <2> HIDE DEF Idle
    <2> QED
      BY <1>1, <1>2, <2>1, StakedByUnion
  <1>5. StakedBy(position, Backers("Yes") \cup Backers("No")) =
           StakedBy(position, Backers("Yes")) + StakedBy(position, Backers("No"))
    <2>1. Backers("Yes") \in SUBSET Owners /\ Backers("No") \in SUBSET Owners
      BY DEF Backers
    <2> QED
      BY <1>1, <1>2, <2>1, StakedByUnion
  <1>6. /\ StakedBy(position, Backers("Yes")) = pool.sideAmount["Yes"]
        /\ StakedBy(position, Backers("No")) = pool.sideAmount["No"]
    BY DEF BooksBalance, StakeOf, Sides
  <1>7. pool.sideAmount["Yes"] \in Nat /\ pool.sideAmount["No"] \in Nat
    BY NumbersAssumption DEF TypeOK, PoolAccounts, Amounts, Sides
  <1> QED
    BY <1>3, <1>4, <1>5, <1>6, <1>7 DEF StakeOf, Pot

\* The pool's first state satisfies the invariant.
LEMMA InvInit == Init => Coherent
  <1> SUFFICES ASSUME Init PROVE Coherent
    OBVIOUS
  <1>1. TypeOK
    BY NumbersAssumption
    DEF Init, TypeOK, PoolAccounts, PositionAccounts, Amounts, Timestamps,
        PoolStates, NoPosition, NoRecord
  <1>2. \A side \in Sides : Backers(side) = {}
    BY DEF Init, Backers, NoPosition, Sides, None
  <1>3. \A side \in Sides : StakeOf(Backers(side)) = 0
    BY <1>2, StakedByNobody DEF StakeOf
  <1>4. BooksBalance
    BY <1>3 DEF Init, BooksBalance, Pot, Sides, SettledFor, Unresolved
  <1>5. PositionsCoherent
    BY DEF Init, PositionsCoherent, NoPosition, None
  <1>6. StageCoherent
    BY DEF Init, StageCoherent, NoPosition, Claimed, Unrefunded, Pot, Unresolved,
           SettledFor, Sides
  <1>7. ClosedLeavesNobodyUnpaid /\ VaultCovers(pool)
    BY DEF Init, ClosedLeavesNobodyUnpaid, VaultCovers
  <1> QED
    BY <1>1, <1>4, <1>5, <1>6, <1>7 DEF Coherent

\* Steps that leave the accounts alone: time, gifts and stuttering.
LEMMA InvIdle ==
    ASSUME Coherent, TypeOK', UNCHANGED <<pool, position>>, vault' >= vault
    PROVE  Coherent'
  <1>1. BooksBalance'
    BY DEF Coherent, BooksBalance, StakeOf, Backers, UnpaidBackers, Unrefunded
  <1>2. PositionsCoherent'
    BY DEF Coherent, PositionsCoherent
  <1>3. StageCoherent'
    BY DEF Coherent, StageCoherent, Claimed, Unrefunded
  <1>4. ClosedLeavesNobodyUnpaid'
    BY DEF Coherent, ClosedLeavesNobodyUnpaid, Claimed
  <1>5. VaultCovers(pool)'
    BY NumbersAssumption DEF Coherent, VaultCovers, TypeOK, PoolAccounts, Amounts
  <1> QED
    BY <1>1, <1>2, <1>3, <1>4, <1>5 DEF Coherent

\* Opening and locking a pool.
LEMMA InvOpenLock ==
    ASSUME Coherent, TypeOK', UNCHANGED <<position, vault>>,
           pool.state \in {"Absent", "Open"}, pool'.state \in Unresolved,
           pool'.sideAmount = pool.sideAmount, pool'.winningSide = pool.winningSide,
           pool'.remainingPool = pool.remainingPool
    PROVE  Coherent'
  <1>1. BooksBalance'
    BY DEF Coherent, BooksBalance, StageCoherent, StakeOf, Backers, UnpaidBackers,
           Unrefunded, Pot, Unresolved, SettledFor, Sides
  <1>2. PositionsCoherent'
    BY DEF Coherent, PositionsCoherent
  <1>3. StageCoherent'
    BY DEF Coherent, StageCoherent, Claimed, Unrefunded, Pot, Unresolved, SettledFor
  <1>4. ClosedLeavesNobodyUnpaid'
    BY DEF Unresolved, ClosedLeavesNobodyUnpaid
  <1>5. VaultCovers(pool)'
    BY DEF Coherent, VaultCovers
  <1> QED
    BY <1>1, <1>2, <1>3, <1>4, <1>5 DEF Coherent

\* Staking: one position and one side grow by the same amount.
LEMMA InvJoin ==
    ASSUME Coherent, TypeOK', NEW o \in Owners, NEW side \in Sides,
           NEW n \in Amounts, JoinPool(o, side, n)
    PROVE  Coherent'
  <1>1. /\ position \in Positions /\ position' \in Positions
        /\ n \in Nat /\ n > 0
        /\ position[o].amount \in Nat
        /\ pool.sideAmount[side] \in Nat
    BY NumbersAssumption
    DEF Coherent, TypeOK, Positions, PoolAccounts, PositionAccounts, Amounts,
        JoinPool, JoinAccepted
  <1>2. /\ pool.state = "Open"
        /\ pool' = [pool EXCEPT !.sideAmount[side] = @ + n, !.remainingPool = @ + n]
        /\ position' = [position EXCEPT ![o].side = side, ![o].amount = @ + n]
        /\ vault' = vault + n
        /\ position[o].side \in {None, side}
    BY DEF JoinPool, JoinAccepted, AcceptsDeposits
  <1>3. /\ pool'.state = "Open"
        /\ pool'.winningSide = pool.winningSide
        /\ pool'.sideAmount = [pool.sideAmount EXCEPT ![side] = @ + n]
        /\ pool'.remainingPool = pool.remainingPool + n
    BY <1>2 DEF Coherent, TypeOK, PoolAccounts
  <1>4. /\ position'[o].side = side
        /\ position'[o].amount = position[o].amount + n
        /\ \A x \in Owners \ {o} : position'[x] = position[x]
        /\ \A x \in Owners : /\ position'[x].claimed = position[x].claimed
                             /\ position'[x].refunded = position[x].refunded
    BY <1>2 DEF Coherent, TypeOK, PositionAccounts
  <1>5. \A s \in Sides : pool'.sideAmount[s] = StakeOf(Backers(s))'
    <2> SUFFICES ASSUME NEW s \in Sides
                 PROVE  pool'.sideAmount[s] = StakeOf(Backers(s))'
      OBVIOUS
    <2> DEFINE Before == Backers(s)
               After == Backers(s)'
    <2>1. pool.sideAmount[s] = StakedBy(position, Before)
      BY DEF Coherent, BooksBalance, StakeOf
    <2>2. Before \in SUBSET Owners /\ After \in SUBSET Owners
      BY DEF Backers
    <2>3. StakeOf(Backers(s))' = StakedBy(position', After)
      BY DEF StakeOf, StakedBy, StakeUnits
    <2>4. StakedBy(position, Before \ {o}) = StakedBy(position', Before \ {o})
      <3> HIDE DEF Before
      <3> QED
        BY <1>1, <1>4, <2>2, StakedSame
    <2>5. CASE s = side
      <3>1. After = Before \cup {o} /\ o \in After /\ After \ {o} = Before \ {o}
        BY <1>2, <1>4, <2>5 DEF Backers
      <3>2. StakedBy(position', After) = StakedBy(position', After \ {o}) + position'[o].amount
        <4> HIDE DEF After
        <4> QED
          BY <1>1, <2>2, <3>1, StakedWithout
      <3>3. StakedBy(position, Before) = StakedBy(position, Before \ {o}) + position[o].amount
        <4>1. CASE o \in Before
          <5> HIDE DEF Before
          <5> QED
            BY <1>1, <2>2, <4>1, StakedWithout
        <4>2. CASE o \notin Before
          <5>1. Before \ {o} = Before /\ position[o].amount = 0
            BY <1>2, <2>5, <4>2 DEF Backers, Coherent, PositionsCoherent
          <5> HIDE DEF Before
          <5>2. StakedBy(position, Before) \in Nat
            BY <1>1, <2>2, StakedIsNat
          <5> QED
            BY <5>1, <5>2
        <4> QED
          BY <4>1, <4>2
      <3>4. StakedBy(position, Before \ {o}) \in Nat
        <4> HIDE DEF Before
        <4>1. Before \ {o} \in SUBSET Owners
          BY <2>2
        <4> QED
          BY <1>1, <4>1, StakedIsNat
      <3>5. pool'.sideAmount[s] = pool.sideAmount[s] + n
        BY <1>3, <2>5 DEF Coherent, TypeOK, PoolAccounts
      <3>6. StakedBy(position', After) =
               StakedBy(position, Before \ {o}) + (position[o].amount + n)
        <4> HIDE DEF Before, After
        <4> QED
          BY <1>4, <2>4, <3>1, <3>2, Zenon
      <3>7. StakedBy(position', After) = pool'.sideAmount[s]
        <4> HIDE DEF Before, After
        <4> QED
          BY <1>1, <2>1, <3>3, <3>4, <3>5, <3>6
      <3> QED
        BY <2>3, <3>7, Zenon
    <2>6. CASE s # side
      <3>1. o \notin Before /\ o \notin After
        BY <1>2, <1>4, <2>6 DEF Backers, Sides, None
      <3>2. After = Before
        <4>1. \A x \in Owners \ {o} : position'[x].side = s <=> position[x].side = s
          BY <1>4
        <4>2. \A x \in Owners \ {o} : x \in After <=> x \in Before
          BY <4>1 DEF Backers
        <4> HIDE DEF After, Before
        <4> QED
          BY <2>2, <3>1, <4>2
      <3>3. Before \ {o} = Before
        BY <3>1
      <3>4. pool'.sideAmount[s] = pool.sideAmount[s]
        BY <1>3, <2>6 DEF Coherent, TypeOK, PoolAccounts
      <3> HIDE DEF Before, After
      <3> QED
        BY <2>1, <2>3, <2>4, <3>2, <3>3, <3>4
    <2> QED
      BY <2>5, <2>6
  <1>6. Pot(pool)' = Pot(pool) + n
    BY <1>1, <1>3, NumbersAssumption
    DEF Coherent, TypeOK, PoolAccounts, Amounts, Pot, Sides
  <1>7. BooksBalance'
    BY <1>3, <1>5, <1>6, <1>2 DEF Coherent, BooksBalance, Unresolved, SettledFor
  <1>8. PositionsCoherent'
    <2>1. pool.winningSide = None /\ Claimed = {} /\ Unrefunded = Owners
      BY <1>2 DEF Coherent, StageCoherent, Unresolved
    <2>2. \A x \in Owners : ~position[x].claimed /\ ~position[x].refunded
      BY <2>1 DEF Claimed, Unrefunded
    <2>3. side # None
      BY DEF Sides, None
    <2> QED
      BY <1>1, <1>4, <2>2, <2>3 DEF Coherent, PositionsCoherent
  <1>9. StageCoherent'
    <2>1. pool.remainingPool = Pot(pool) /\ pool.winningSide = None
      BY <1>2 DEF Coherent, StageCoherent, Unresolved
    <2>2. pool'.remainingPool = Pot(pool)' /\ pool'.winningSide = None
      BY <1>3, <1>6, <2>1
    <2>3. Claimed = {} /\ Unrefunded = Owners
      BY <1>2 DEF Coherent, StageCoherent, Unresolved
    <2>4. Claimed' = {} /\ Unrefunded' = Owners
      BY <1>4, <2>3 DEF Claimed, Unrefunded
    <2> QED
      BY <1>3, <2>2, <2>4 DEF StageCoherent, SettledFor
  <1>10. ClosedLeavesNobodyUnpaid'
    BY <1>3 DEF ClosedLeavesNobodyUnpaid
  <1>11. VaultCovers(pool)'
    BY <1>1, <1>2, <1>3, NumbersAssumption
    DEF Coherent, VaultCovers, TypeOK, PoolAccounts, Amounts
  <1> QED
    BY <1>7, <1>8, <1>9, <1>10, <1>11 DEF Coherent

\* Resolving a pool that holds nothing: nobody had staked.
LEMMA EmptyPotNobodyStaked ==
    ASSUME TypeOK, BooksBalance, PositionsCoherent, Pot(pool) = 0
    PROVE  \A o \in Owners : position[o].side = None
  <1>1. position \in Positions
    BY DEF TypeOK, Positions
  <1>2. StakedBy(position, Owners) = 0
    BY PotIsAllStakes DEF StakeOf
  <1>3. \A o \in Owners : position[o].amount = 0
    BY <1>1, <1>2, StakedZero
  <1> QED
    BY <1>3 DEF PositionsCoherent

\* Recording an outcome, proved or declared.
LEMMA InvOutcome ==
    ASSUME Coherent, TypeOK', UNCHANGED <<position, vault>>, NEW side \in Sides,
           NEW sequence \in Nat, pool.state = "Locked",
           pool' = OutcomeRecorded(pool, side, sequence)
    PROVE  Coherent'
  <1>1. /\ pool'.state = OutcomeState(pool, side)
        /\ pool'.winningSide = side
        /\ pool'.sideAmount = pool.sideAmount
        /\ pool'.remainingPool = pool.remainingPool
        /\ pool'.remainingWinning = pool.sideAmount[side]
    BY DEF OutcomeRecorded, Coherent, TypeOK, PoolAccounts
  <1>2. /\ pool.remainingPool = Pot(pool)
        /\ Claimed = {} /\ Unrefunded = Owners
    BY DEF Coherent, StageCoherent, Unresolved
  <1>3. /\ pool.remainingPool \in Nat
        /\ \A s \in Sides : pool.sideAmount[s] \in Nat /\ pool.sideAmount[s] <= Pot(pool)
    BY NumbersAssumption DEF Coherent, TypeOK, PoolAccounts, Amounts, Pot, Sides
  <1>4. \A x \in Owners : ~position[x].claimed /\ ~position[x].refunded
    BY <1>2 DEF Claimed, Unrefunded
  <1>5. \A s \in Sides : UnpaidBackers(s) = Backers(s)
    BY <1>4 DEF UnpaidBackers, Backers
  <1>6. pool.remainingPool = StakeOf(Unrefunded)
    BY <1>2, PotIsAllStakes DEF Coherent
  <1>7. /\ pool'.state \notin Unresolved
        /\ pool'.state \in {"Closed", "Cancelled", SettledFor(side)}
    BY <1>1 DEF OutcomeState, Unresolved, SettledFor
  <1>8. BooksBalance'
    <2>1. \A s \in Sides : pool'.sideAmount[s] = StakeOf(Backers(s))'
      BY <1>1 DEF Coherent, BooksBalance, StakeOf, Backers
    <2>2. (pool.remainingPool = StakeOf(Unrefunded))'
      BY <1>1, <1>6 DEF StakeOf, Unrefunded
    <2>3. ASSUME NEW s \in Sides, pool'.state = SettledFor(s)
          PROVE  (pool.remainingWinning = StakeOf(UnpaidBackers(s)))'
      <3>1. s = side
        BY <1>7, <2>3 DEF SettledFor, Sides
      <3>2. pool.sideAmount[s] = StakeOf(UnpaidBackers(s))
        BY <1>5 DEF Coherent, BooksBalance
      <3>3. UnpaidBackers(s)' = UnpaidBackers(s)
        BY DEF UnpaidBackers, Backers
      <3>4. StakeOf(UnpaidBackers(s))' = StakeOf(UnpaidBackers(s))
        BY <3>3 DEF StakeOf
      <3> QED
        BY <1>1, <3>1, <3>2, <3>4
    <2> QED
      BY <1>7, <2>1, <2>2, <2>3 DEF BooksBalance
  <1>9. PositionsCoherent'
    BY <1>4 DEF Coherent, PositionsCoherent
  <1>10. StageCoherent'
    <2>1. ASSUME NEW s \in Sides, pool'.state = SettledFor(s)
          PROVE  /\ s = side
                 /\ pool'.remainingWinning > 0
                 /\ pool'.remainingPool >= pool'.remainingWinning
      BY <1>1, <1>2, <1>3, <2>1 DEF OutcomeState, SettledFor, Sides
    <2>2. pool'.state = "Cancelled" => pool'.remainingPool > 0
      BY <1>1, <1>3 DEF OutcomeState, SettledFor
    <2>3. Claimed' = {} /\ Unrefunded' = Owners
      BY <1>2 DEF Claimed, Unrefunded
    <2>4. pool'.state # "Absent"
      BY <1>7 DEF SettledFor
    <2> QED
      BY <1>1, <1>7, <2>1, <2>2, <2>3, <2>4 DEF StageCoherent
  <1>11. ClosedLeavesNobodyUnpaid'
    <2>1. SUFFICES ASSUME pool'.state = "Closed"
                   PROVE  pool.remainingPool = 0
      BY <1>1, <1>2, EmptyPotNobodyStaked DEF ClosedLeavesNobodyUnpaid, Coherent
    <2> QED
      BY <1>1, <2>1 DEF OutcomeState, SettledFor
  <1>12. VaultCovers(pool)'
    BY <1>1 DEF Coherent, VaultCovers
  <1> QED
    BY <1>8, <1>9, <1>10, <1>11, <1>12 DEF Coherent

\* Cancelling before a resolution.
LEMMA InvCancel ==
    ASSUME Coherent, TypeOK', NEW authority, CancelPool(authority)
    PROVE  Coherent'
  <1>1. /\ pool.state \in Unresolved
        /\ pool'.state = IF pool.remainingPool = 0 THEN "Closed" ELSE "Cancelled"
        /\ pool'.winningSide = None
        /\ pool'.sideAmount = pool.sideAmount
        /\ pool'.remainingPool = pool.remainingPool
        /\ UNCHANGED <<position, vault>>
    BY DEF CancelPool, AcceptsCancel, Coherent, TypeOK, PoolAccounts
  <1>2. /\ pool.remainingPool = Pot(pool)
        /\ Claimed = {} /\ Unrefunded = Owners
    BY <1>1 DEF Coherent, StageCoherent
  <1>3. \A x \in Owners : ~position[x].claimed /\ ~position[x].refunded
    BY <1>2 DEF Claimed, Unrefunded
  <1>4. pool.remainingPool = StakeOf(Unrefunded)
    BY <1>2, PotIsAllStakes DEF Coherent
  <1>5. pool'.state \in {"Closed", "Cancelled"} /\ pool.remainingPool \in Nat
    BY <1>1, NumbersAssumption DEF Coherent, TypeOK, PoolAccounts, Amounts
  <1>6. BooksBalance'
    <2>1. \A s \in Sides : pool'.sideAmount[s] = StakeOf(Backers(s))'
      BY <1>1 DEF Coherent, BooksBalance, StakeOf, Backers
    <2>2. (pool.remainingPool = StakeOf(Unrefunded))'
      BY <1>1, <1>4 DEF StakeOf, Unrefunded
    <2> QED
      BY <1>5, <2>1, <2>2 DEF BooksBalance, Unresolved, SettledFor
  <1>7. PositionsCoherent'
    BY <1>1, <1>3 DEF Coherent, PositionsCoherent
  <1>8. StageCoherent'
    <2>1. Claimed' = {} /\ (pool'.state = "Cancelled" => pool'.remainingPool > 0)
      BY <1>1, <1>2, <1>5 DEF Claimed
    <2> QED
      BY <1>5, <2>1 DEF StageCoherent, Unresolved, SettledFor
  <1>9. ClosedLeavesNobodyUnpaid'
    <2>1. SUFFICES ASSUME pool'.state = "Closed"
                   PROVE  pool.remainingPool = 0
      BY <1>1, <1>2, EmptyPotNobodyStaked DEF ClosedLeavesNobodyUnpaid, Coherent
    <2> QED
      BY <1>1, <2>1
  <1>10. VaultCovers(pool)'
    BY <1>1 DEF Coherent, VaultCovers
  <1> QED
    BY <1>6, <1>7, <1>8, <1>9, <1>10 DEF Coherent

\* What an unpaid winner is about to be paid.
LEMMA WinnersPayout ==
    ASSUME Coherent, NEW o \in Owners, NEW side \in Sides,
           pool.state = SettledFor(side), position[o].side = side,
           ~position[o].claimed
    PROVE  LET a == position[o].amount
               n == Payout(pool, a)
           IN  /\ a \in Nat /\ a > 0 /\ a <= pool.remainingWinning
               /\ n \in Nat /\ n > 0 /\ n <= pool.remainingPool
               /\ a = pool.remainingWinning => n = pool.remainingPool
               /\ a < pool.remainingWinning =>
                     pool.remainingWinning - a <= pool.remainingPool - n
               /\ StakedBy(position, UnpaidBackers(side) \ {o})
                     = pool.remainingWinning - a
  <1> DEFINE a == position[o].amount
             R == pool.remainingPool
             W == pool.remainingWinning
  <1>1. /\ position \in Positions
        /\ a \in Nat /\ R \in Nat /\ W \in Nat
    BY NumbersAssumption
    DEF Coherent, TypeOK, Positions, PoolAccounts, PositionAccounts, Amounts
  <1>2. /\ W > 0 /\ R >= W
        /\ W = StakedBy(position, UnpaidBackers(side))
    BY DEF Coherent, StageCoherent, BooksBalance, StakeOf
  <1>3. /\ UnpaidBackers(side) \in SUBSET Owners
        /\ UnpaidBackers(side) \ {o} \in SUBSET Owners
        /\ o \in UnpaidBackers(side)
    BY DEF UnpaidBackers, Backers
  <1>4. a > 0
    <2>1. side # None
      BY DEF Sides, None
    <2> QED
      BY <1>1, <2>1 DEF Coherent, PositionsCoherent
  <1>5. W = StakedBy(position, UnpaidBackers(side) \ {o}) + a
    <2>1. StakedBy(position, UnpaidBackers(side)) =
             StakedBy(position, UnpaidBackers(side) \ {o}) + a
      BY <1>1, <1>3, StakedWithout
    <2> QED
      BY <1>2, <2>1
  <1>6. StakedBy(position, UnpaidBackers(side) \ {o}) \in Nat
    BY <1>1, <1>3, StakedIsNat
  <1>7. a <= W /\ StakedBy(position, UnpaidBackers(side) \ {o}) = W - a
    BY <1>1, <1>5, <1>6
  <1>8. CASE a = W
    BY <1>1, <1>2, <1>4, <1>7, <1>8 DEF Payout
  <1>9. CASE a < W
    <2>1. Payout(pool, a) = (R * a) \div W
      BY <1>1, <1>9 DEF Payout
    <2>2. LET n == (R * a) \div W
          IN  n \in Nat /\ a <= n /\ n <= R /\ W - a <= R - n
      BY <1>1, <1>2, <1>4, <1>9, PayoutLeavesEnough
    <2> HIDE DEF a, R, W
    <2>3. /\ Payout(pool, a) \in Nat /\ Payout(pool, a) > 0
          /\ Payout(pool, a) <= R /\ W - a <= R - Payout(pool, a)
      BY <1>1, <1>4, <2>1, <2>2
    <2> QED
      BY <1>1, <1>4, <1>7, <1>9, <2>3 DEF a, R, W
  <1> QED
    BY <1>1, <1>7, <1>8, <1>9

\* Paying a winner.
LEMMA InvClaim ==
    ASSUME Coherent, TypeOK', NEW o \in Owners, Claim(o)
    PROVE  Coherent'
  <1> DEFINE side == position[o].side
             a == position[o].amount
             n == Payout(pool, a)
             R == pool.remainingPool
             W == pool.remainingWinning
             Rest == UnpaidBackers(side) \ {o}
  <1>1. /\ side \in Sides
        /\ pool.state = SettledFor(side)
        /\ ~position[o].claimed
        /\ pool' = ClaimRecorded(pool, a, n)
        /\ position' = [position EXCEPT ![o].claimed = TRUE]
        /\ vault' = vault - n
    BY DEF Claim, ClaimAccepted, Claimable, Coherent, TypeOK, PositionAccounts
  <1>2. /\ a \in Nat /\ a > 0 /\ a <= W
        /\ n \in Nat /\ n > 0 /\ n <= R
        /\ a = W => n = R
        /\ a < W => W - a <= R - n
        /\ StakedBy(position, Rest) = W - a
    BY <1>1, WinnersPayout
  <1>3. /\ pool'.state = IF W = a THEN "Closed" ELSE pool.state
        /\ pool'.winningSide = pool.winningSide
        /\ pool'.sideAmount = pool.sideAmount
        /\ pool'.remainingPool = R - n
        /\ pool'.remainingWinning = W - a
    <2> HIDE DEF n
    <2> QED
      BY <1>1 DEF ClaimRecorded, Coherent, TypeOK, PoolAccounts
  <1>4. /\ pool.winningSide = side /\ Unrefunded = Owners
        /\ R \in Nat /\ W \in Nat /\ side # None
    BY <1>1, NumbersAssumption
    DEF Coherent, TypeOK, PoolAccounts, Amounts, StageCoherent, Sides, None
  <1>5. /\ position'[o].claimed
        /\ \A x \in Owners \ {o} : position'[x] = position[x]
        /\ \A x \in Owners : /\ position'[x].side = position[x].side
                             /\ position'[x].amount = position[x].amount
                             /\ position'[x].refunded = position[x].refunded
    BY <1>1 DEF Coherent, TypeOK, PositionAccounts
  <1>6. /\ position \in Positions /\ position' \in Positions
        /\ Rest \in SUBSET Owners
        /\ \A s \in Sides : Backers(s) \in SUBSET Owners
    BY DEF Coherent, TypeOK, Positions, UnpaidBackers, Backers
  <1>7. \A s \in Sides : Backers(s)' = Backers(s)
    BY <1>5 DEF Backers
  <1>8. UnpaidBackers(side)' = Rest
    <2>1. \A x \in Owners \ {o} : position'[x].claimed = position[x].claimed
      BY <1>5
    <2> QED
      BY <1>1, <1>5, <2>1 DEF UnpaidBackers, Backers
  <1>9. \A s \in Sides : pool'.sideAmount[s] = StakeOf(Backers(s))'
    <2> SUFFICES ASSUME NEW s \in Sides
                 PROVE  pool'.sideAmount[s] = StakeOf(Backers(s))'
      OBVIOUS
    <2>1. pool.sideAmount[s] = StakedBy(position, Backers(s))
      BY DEF Coherent, BooksBalance, StakeOf
    <2>2. StakedBy(position, Backers(s)) = StakedBy(position', Backers(s))
      BY <1>5, <1>6, StakedSame
    <2>3. StakeOf(Backers(s))' = StakedBy(position', Backers(s)')
      BY DEF StakeOf, StakedBy, StakeUnits
    <2> QED
      BY <1>3, <1>7, <2>1, <2>2, <2>3
  <1>10. StakeOf(UnpaidBackers(side))' = W - a
    <2>1. StakedBy(position, Rest) = StakedBy(position', Rest)
      <3> HIDE DEF Rest
      <3> QED
        BY <1>5, <1>6, StakedSame
    <2>2. StakeOf(UnpaidBackers(side))' = StakedBy(position', UnpaidBackers(side)')
      BY DEF StakeOf, StakedBy, StakeUnits
    <2> HIDE DEF Rest
    <2> QED
      BY <1>2, <1>8, <2>1, <2>2
  <1>11. /\ pool'.state \notin Unresolved /\ pool'.state # "Cancelled"
         /\ pool'.state # "Absent"
         /\ \A s \in Sides : pool'.state = SettledFor(s) => s = side /\ W # a
    BY <1>1, <1>3 DEF SettledFor, Sides, Unresolved
  <1>12. BooksBalance'
    <2>1. \A s \in Sides : pool'.state = SettledFor(s) =>
             pool'.remainingWinning = StakeOf(UnpaidBackers(s))'
      <3> SUFFICES ASSUME NEW s \in Sides, pool'.state = SettledFor(s)
                   PROVE  pool'.remainingWinning = StakeOf(UnpaidBackers(s))'
        OBVIOUS
      <3>1. s = side
        BY <1>11
      <3>2. StakeOf(UnpaidBackers(s))' = StakeOf(UnpaidBackers(side))'
        <4>1. side' = side
          BY <1>5
        <4> HIDE DEF side
        <4> QED
          BY <3>1, <4>1 DEF StakeOf, UnpaidBackers, Backers
      <3> QED
        BY <1>3, <1>10, <3>2
    <2> QED
      BY <1>9, <1>11, <2>1 DEF BooksBalance
  <1>13. PositionsCoherent'
    BY <1>3, <1>4, <1>5 DEF Coherent, PositionsCoherent, Unrefunded
  <1>14. StageCoherent'
    <2>1. Unrefunded' = Owners
      BY <1>4, <1>5 DEF Unrefunded
    <2>2. W # a => pool'.remainingWinning > 0 /\ pool'.remainingPool >= pool'.remainingWinning
      BY <1>2, <1>3, <1>4
    <2> QED
      BY <1>3, <1>4, <1>11, <2>1, <2>2 DEF StageCoherent
  <1>15. ClosedLeavesNobodyUnpaid'
    <2>1. SUFFICES ASSUME W = a
                   PROVE  /\ pool'.remainingPool = 0
                          /\ \A x \in Owners :
                                position'[x].side # None =>
                                   IF position'[x].side = pool'.winningSide
                                   THEN position'[x].claimed
                                   ELSE Claimed' # {}
      BY <1>1, <1>3, <1>4 DEF ClosedLeavesNobodyUnpaid, SettledFor
    <2>2. StakedBy(position, Rest) = 0
      BY <1>2, <2>1
    <2>3. Rest = {}
      <3>1. \A x \in Rest : position[x].amount = 0
        <4> HIDE DEF Rest
        <4> QED
          BY <1>6, <2>2, StakedZero
      <3>2. \A x \in Rest : position[x].side = side /\ x \in Owners
        BY DEF UnpaidBackers, Backers
      <3> QED
        BY <1>4, <3>1, <3>2 DEF Coherent, PositionsCoherent
    <2>4. o \in Claimed'
      BY <1>5 DEF Claimed
    <2>5. \A x \in Owners : position'[x].side = side => position'[x].claimed
      BY <1>5, <2>3 DEF UnpaidBackers, Backers
    <2> QED
      BY <1>2, <1>3, <1>4, <2>1, <2>4, <2>5
  <1>16. VaultCovers(pool)'
    BY <1>1, <1>2, <1>3, <1>4 DEF Coherent, VaultCovers, TypeOK
  <1> QED
    BY <1>12, <1>13, <1>14, <1>15, <1>16 DEF Coherent

\* Refunding a position.
LEMMA InvRefund ==
    ASSUME Coherent, TypeOK', NEW o \in Owners, Refund(o)
    PROVE  Coherent'
  <1> DEFINE a == position[o].amount
             R == pool.remainingPool
             Rest == Unrefunded \ {o}
  <1>1. /\ pool.state = "Cancelled"
        /\ ~position[o].refunded /\ ~position[o].claimed
        /\ a > 0 /\ R >= a
        /\ pool' = RefundRecorded(pool, a)
        /\ position' = [position EXCEPT ![o].refunded = TRUE]
        /\ vault' = vault - a
    BY DEF Refund, RefundAccepted, Refundable
  <1>2. /\ position \in Positions /\ position' \in Positions
        /\ a \in Nat /\ R \in Nat /\ vault \in Nat
        /\ Unrefunded \in SUBSET Owners /\ Rest \in SUBSET Owners /\ o \in Unrefunded
        /\ \A s \in Sides : Backers(s) \in SUBSET Owners
    BY <1>1, NumbersAssumption
    DEF Coherent, TypeOK, Positions, PoolAccounts, PositionAccounts, Amounts,
        Unrefunded, Backers
  <1>3. /\ pool'.state = IF R = a THEN "Closed" ELSE "Cancelled"
        /\ pool'.winningSide = pool.winningSide
        /\ pool'.sideAmount = pool.sideAmount
        /\ pool'.remainingPool = R - a
    BY <1>1 DEF RefundRecorded, Coherent, TypeOK, PoolAccounts
  <1>4. /\ position'[o].refunded
        /\ \A x \in Owners \ {o} : position'[x] = position[x]
        /\ \A x \in Owners : /\ position'[x].side = position[x].side
                             /\ position'[x].amount = position[x].amount
                             /\ position'[x].claimed = position[x].claimed
    BY <1>1 DEF Coherent, TypeOK, PositionAccounts
  <1>5. Claimed = {}
    BY <1>1 DEF Coherent, StageCoherent
  <1>6. Unrefunded' = Rest
    <2>1. \A x \in Owners \ {o} : position'[x].refunded = position[x].refunded
      BY <1>4
    <2> QED
      BY <1>1, <1>4, <2>1 DEF Unrefunded
  <1>7. StakedBy(position, Rest) = R - a
    <2>1. R = StakedBy(position, Unrefunded)
      BY <1>1 DEF Coherent, BooksBalance, StakeOf
    <2>2. StakedBy(position, Unrefunded) = StakedBy(position, Rest) + a
      BY <1>2, StakedWithout
    <2>3. StakedBy(position, Rest) \in Nat
      <3> HIDE DEF Rest
      <3> QED
        BY <1>2, StakedIsNat
    <2> HIDE DEF Rest
    <2> QED
      BY <1>2, <2>1, <2>2, <2>3
  <1>8. StakeOf(Unrefunded)' = R - a
    <2>1. StakedBy(position, Rest) = StakedBy(position', Rest)
      <3> HIDE DEF Rest
      <3> QED
        BY <1>2, <1>4, StakedSame
    <2>2. StakeOf(Unrefunded)' = StakedBy(position', Unrefunded')
      BY DEF StakeOf, StakedBy, StakeUnits
    <2> HIDE DEF Rest
    <2> QED
      BY <1>6, <1>7, <2>1, <2>2
  <1>9. \A s \in Sides : pool'.sideAmount[s] = StakeOf(Backers(s))'
    <2> SUFFICES ASSUME NEW s \in Sides
                 PROVE  pool'.sideAmount[s] = StakeOf(Backers(s))'
      OBVIOUS
    <2>1. pool.sideAmount[s] = StakedBy(position, Backers(s))
      BY DEF Coherent, BooksBalance, StakeOf
    <2>2. StakedBy(position, Backers(s)) = StakedBy(position', Backers(s))
      BY <1>2, <1>4, StakedSame
    <2>3. StakeOf(Backers(s))' = StakedBy(position', Backers(s)')
      BY DEF StakeOf, StakedBy, StakeUnits
    <2>4. Backers(s)' = Backers(s)
      BY <1>4 DEF Backers
    <2> QED
      BY <1>3, <2>1, <2>2, <2>3, <2>4
  <1>10. pool'.state \in {"Closed", "Cancelled"}
    BY <1>3
  <1>11. BooksBalance'
    BY <1>3, <1>8, <1>9, <1>10 DEF BooksBalance, Unresolved, SettledFor
  <1>12. PositionsCoherent'
    <2>1. \A x \in Owners : ~position'[x].claimed
      BY <1>4, <1>5 DEF Claimed
    <2>2. position[o].side # None
      BY <1>1, <1>2 DEF Coherent, PositionsCoherent
    <2> QED
      BY <1>4, <2>1, <2>2 DEF Coherent, PositionsCoherent
  <1>13. StageCoherent'
    <2>1. Claimed' = {}
      BY <1>4, <1>5 DEF Claimed
    <2>2. pool'.state = "Cancelled" => pool'.remainingPool > 0
      BY <1>1, <1>2, <1>3
    <2> QED
      BY <1>10, <2>1, <2>2 DEF StageCoherent, Unresolved, SettledFor
  <1>14. ClosedLeavesNobodyUnpaid'
    <2>1. SUFFICES ASSUME R = a
                   PROVE  \A x \in Owners :
                             position'[x].side # None => position'[x].refunded
      BY <1>2, <1>3 DEF ClosedLeavesNobodyUnpaid
    <2>2. \A x \in Rest : position[x].amount = 0
      <3>1. StakedBy(position, Rest) = 0
        BY <1>2, <1>7, <2>1
      <3> HIDE DEF Rest
      <3> QED
        BY <1>2, <3>1, StakedZero
    <2>3. \A x \in Rest : position[x].side = None
      BY <2>2 DEF Coherent, PositionsCoherent, Unrefunded
    <2> QED
      BY <1>4, <2>3 DEF Unrefunded
  <1>15. VaultCovers(pool)'
    BY <1>1, <1>2, <1>3 DEF Coherent, VaultCovers
  <1> QED
    BY <1>11, <1>12, <1>13, <1>14, <1>15 DEF Coherent

\* Every step preserves the invariant.
LEMMA InvInduction == Coherent /\ [Next]_vars => Coherent'
  <1> SUFFICES ASSUME Coherent, [Next]_vars
               PROVE  Coherent'
    OBVIOUS
  <1>0. TypeOK'
    BY TypeInduction DEF Coherent
  <1>1. ASSUME NEW cutoff \in Timestamps, NEW refundAfter \in Timestamps,
               NEW demoMode \in BOOLEAN, CreatePool(cutoff, refundAfter, demoMode)
        PROVE  Coherent'
    <2>1. /\ UNCHANGED <<position, vault>>
          /\ pool.state = "Absent" /\ pool'.state = "Open"
          /\ pool'.sideAmount = pool.sideAmount
          /\ pool'.winningSide = pool.winningSide
          /\ pool'.remainingPool = pool.remainingPool
      BY <1>1 DEF CreatePool, Coherent, TypeOK, PoolAccounts
    <2> QED
      BY <1>0, <2>1, InvOpenLock DEF Unresolved
  <1>2. ASSUME NEW o \in Owners, NEW side \in Sides, NEW amount \in Amounts,
               JoinPool(o, side, amount)
        PROVE  Coherent'
    BY <1>0, <1>2, InvJoin
  <1>3. CASE LockPool
    <2>1. /\ UNCHANGED <<position, vault>>
          /\ pool.state = "Open" /\ pool'.state = "Locked"
          /\ pool'.sideAmount = pool.sideAmount
          /\ pool'.winningSide = pool.winningSide
          /\ pool'.remainingPool = pool.remainingPool
      BY <1>3 DEF LockPool, Coherent, TypeOK, PoolAccounts
    <2> QED
      BY <1>0, <2>1, InvOpenLock DEF Unresolved
  <1>4. ASSUME NEW side \in Sides, NEW sequence \in Sequences,
               RecordDemoOutcome(side, sequence) \/ SettlePool(side, sequence)
        PROVE  Coherent'
    <2>1. /\ UNCHANGED <<position, vault>>
          /\ sequence \in Nat /\ pool.state = "Locked"
          /\ pool' = OutcomeRecorded(pool, side, sequence)
      BY <1>4, NumbersAssumption DEF RecordDemoOutcome, SettlePool, AcceptsOutcome
    <2> QED
      BY <1>0, <2>1, InvOutcome
  <1>5. ASSUME NEW authority \in Callers, CancelPool(authority)
        PROVE  Coherent'
    BY <1>0, <1>5, InvCancel
  <1>6. ASSUME NEW o \in Owners, Claim(o)
        PROVE  Coherent'
    BY <1>0, <1>6, InvClaim
  <1>7. ASSUME NEW o \in Owners, Refund(o)
        PROVE  Coherent'
    BY <1>0, <1>7, InvRefund
  <1>8. ASSUME NEW gift \in Gifts, DirectTransfer(gift)
        PROVE  Coherent'
    <2>1. UNCHANGED <<pool, position>> /\ vault' >= vault
      BY <1>8, NumbersAssumption DEF DirectTransfer, Coherent, TypeOK
    <2> QED
      BY <1>0, <2>1, InvIdle
  <1>9. CASE Tick \/ UNCHANGED vars
    <2>1. UNCHANGED <<pool, position>> /\ vault' >= vault
      BY <1>9 DEF Tick, vars, Coherent, TypeOK
    <2> QED
      BY <1>0, <2>1, InvIdle
  <1> QED
    BY <1>1, <1>2, <1>3, <1>4, <1>5, <1>6, <1>7, <1>8, <1>9 DEF Next

-----------------------------------------------------------------------------
(* What follows for every behaviour                                         *)

\* Counters, positions and state fit together throughout.
THEOREM Coherence == Spec => []Coherent
  BY InvInit, InvInduction, PTL DEF Spec

\* The pool's counters always agree with the positions.
THEOREM BooksAlwaysBalance == Spec => []BooksBalance
  <1>1. Coherent => BooksBalance
    BY DEF Coherent
  <1> QED
    BY <1>1, Coherence, PTL

\* The vault always covers what the pool owes.
THEOREM AlwaysSolvent == Spec => []VaultCovers(pool)
  <1>1. Coherent => VaultCovers(pool)
    BY DEF Coherent
  <1> QED
    BY <1>1, Coherence, PTL

\* A pool closes only when everyone entitled has been paid.
THEOREM ClosedPoolsOweNothing == Spec => []ClosedLeavesNobodyUnpaid
  <1>1. Coherent => ClosedLeavesNobodyUnpaid
    BY DEF Coherent
  <1> QED
    BY <1>1, Coherence, PTL

\* Whoever is entitled passes every check of the instruction that pays it.
LEMMA EntitledPass == Coherent => NobodyStranded
  <1> SUFFICES ASSUME Coherent, NEW o \in Owners
               PROVE  LET q == position[o] IN
                      /\ pool.state \in Settled /\ pool.state = SettledFor(q.side)
                            /\ q.side # None /\ ~q.claimed
                         => /\ Claimable(pool, q)
                            /\ vault >= Payout(pool, q.amount)
                            /\ VaultCovers(pool)
                            /\ pool.remainingWinning = q.amount =>
                                  pool.remainingPool = Payout(pool, q.amount)
                      /\ pool.state = "Cancelled" /\ q.side # None /\ ~q.refunded
                         => Refundable(pool, q) /\ VaultCovers(pool)
    BY DEF NobodyStranded
  <1> DEFINE q == position[o]
  <1>0. /\ q.side \in Sides \cup {None} /\ q.amount \in Nat
        /\ pool.remainingPool \in Nat /\ pool.remainingWinning \in Nat
        /\ vault \in Nat /\ position \in Positions
    BY NumbersAssumption
    DEF Coherent, TypeOK, PoolAccounts, PositionAccounts, Amounts, Positions
  <1>1. ASSUME pool.state = SettledFor(q.side), q.side # None, ~q.claimed
        PROVE  /\ Claimable(pool, q)
               /\ vault >= Payout(pool, q.amount)
               /\ VaultCovers(pool)
               /\ pool.remainingWinning = q.amount =>
                     pool.remainingPool = Payout(pool, q.amount)
    <2>1. q.side \in Sides
      BY <1>0, <1>1
    <2>2. /\ q.amount > 0 /\ q.amount <= pool.remainingWinning
          /\ Payout(pool, q.amount) \in Nat
          /\ Payout(pool, q.amount) > 0
          /\ Payout(pool, q.amount) <= pool.remainingPool
          /\ q.amount = pool.remainingWinning =>
                Payout(pool, q.amount) = pool.remainingPool
      BY <1>1, <2>1, WinnersPayout
    <2>3. /\ Unrefunded = Owners
          /\ pool.remainingPool >= pool.remainingWinning
          /\ VaultCovers(pool)
      BY <1>1, <2>1 DEF Coherent, StageCoherent
    <2>4. ~q.refunded
      BY <2>3 DEF Unrefunded
    <2>5. pool.state \in Settled
      BY <1>1 DEF Settled, SettledFor
    <2>6. vault >= Payout(pool, q.amount)
      BY <1>0, <2>2, <2>3 DEF VaultCovers
    <2>7. Claimable(pool, q)
      BY <1>0, <1>1, <2>2, <2>3, <2>4, <2>5 DEF Claimable
    <2> QED
      BY <2>2, <2>3, <2>6, <2>7
  <1>2. ASSUME pool.state = "Cancelled", q.side # None, ~q.refunded
        PROVE  Refundable(pool, q) /\ VaultCovers(pool)
    <2>1. Claimed = {} /\ VaultCovers(pool)
      BY <1>2 DEF Coherent, StageCoherent
    <2>2. ~q.claimed
      BY <2>1 DEF Claimed
    <2>3. q.amount > 0
      BY <1>0, <1>2 DEF Coherent, PositionsCoherent
    <2>4. pool.remainingPool = StakedBy(position, Unrefunded)
      BY <1>2 DEF Coherent, BooksBalance, StakeOf
    <2>5. /\ Unrefunded \in SUBSET Owners /\ Unrefunded \ {o} \in SUBSET Owners
          /\ o \in Unrefunded
      BY <1>2 DEF Unrefunded
    <2>6. StakedBy(position, Unrefunded)
             = StakedBy(position, Unrefunded \ {o}) + q.amount
      BY <1>0, <2>5, StakedWithout
    <2>7. StakedBy(position, Unrefunded \ {o}) \in Nat
      BY <1>0, <2>5, StakedIsNat
    <2>8. pool.remainingPool >= q.amount
      BY <1>0, <2>4, <2>6, <2>7
    <2> QED
      BY <1>2, <2>1, <2>2, <2>3, <2>8 DEF Refundable
  <1> QED
    BY <1>1, <1>2

\* No order of claims and refunds locks anyone out.
THEOREM NobodyIsStranded == Spec => []NobodyStranded
  BY Coherence, EntitledPass, PTL

\* No instruction moves a resolved pool anywhere but to Closed.
LEMMA FinalStep ==
    ASSUME TypeOK, Next, pool.state \notin Unresolved \cup {"Absent"}
    PROVE  /\ pool'.state \in {pool.state, "Closed"}
           /\ pool'.winningSide = pool.winningSide
           /\ pool'.settledSequence = pool.settledSequence
  <1> USE DEF TypeOK, PoolAccounts, Unresolved
  <1>1. ASSUME NEW o \in Owners, Claim(o)
        PROVE  /\ pool'.state \in {pool.state, "Closed"}
               /\ pool'.winningSide = pool.winningSide
               /\ pool'.settledSequence = pool.settledSequence
    <2> DEFINE a == position[o].amount
               n == Payout(pool, a)
    <2>1. pool' = ClaimRecorded(pool, a, n)
      BY <1>1 DEF Claim, ClaimAccepted
    <2> HIDE DEF a, n
    <2> QED
      BY <2>1 DEF ClaimRecorded
  <1>2. ASSUME NEW o \in Owners, Refund(o)
        PROVE  /\ pool'.state \in {pool.state, "Closed"}
               /\ pool'.winningSide = pool.winningSide
               /\ pool'.settledSequence = pool.settledSequence
    BY <1>2 DEF Refund, RefundAccepted, RefundRecorded
  <1>3. ~ \E cutoff, refundAfter \in Timestamps, demoMode \in BOOLEAN :
             CreatePool(cutoff, refundAfter, demoMode)
    BY DEF CreatePool
  <1>4. ~ \E o \in Owners, side \in Sides, amount \in Amounts : JoinPool(o, side, amount)
    BY DEF JoinPool, JoinAccepted, AcceptsDeposits
  <1>5. ~LockPool
    BY DEF LockPool
  <1>6. ~ \E side \in Sides, sequence \in Sequences :
             RecordDemoOutcome(side, sequence) \/ SettlePool(side, sequence)
    BY DEF RecordDemoOutcome, SettlePool, AcceptsOutcome
  <1>7. ~ \E authority \in Callers : CancelPool(authority)
    BY DEF CancelPool, AcceptsCancel
  <1>8. ASSUME Tick \/ \E gift \in Gifts : DirectTransfer(gift)
        PROVE  pool' = pool
    BY <1>8 DEF Tick, DirectTransfer
  <1> QED
    BY <1>1, <1>2, <1>3, <1>4, <1>5, <1>6, <1>7, <1>8 DEF Next

\* A resolution is final.
THEOREM ResolutionsAreFinal == Spec => ResolutionIsFinal
  <1> DEFINE Final == pool.state \notin Unresolved \cup {"Absent"} =>
                         /\ pool'.state \in {pool.state, "Closed"}
                         /\ pool'.winningSide = pool.winningSide
                         /\ pool'.settledSequence = pool.settledSequence
  <1>1. TypeOK /\ [Next]_vars => [Final]_vars
    BY FinalStep
  <1>2. [Final]_vars => [pool.state \notin Unresolved \cup {"Absent"} =>
                            /\ pool'.state \in {pool.state, "Closed"}
                            /\ pool'.winningSide = pool.winningSide
                            /\ pool'.settledSequence = pool.settledSequence]_vars
    OBVIOUS
  <1> QED
    BY <1>1, <1>2, TypeCorrect, PTL DEF Spec, ResolutionIsFinal

\* From the cutoff on no stake changes, locked or not.
THEOREM StakesFreeze == Spec => StakesFreezeAtCutoff
  <1> DEFINE Frozen == pool.state # "Absent" /\ clock >= pool.cutoff =>
                 /\ pool'.sideAmount = pool.sideAmount
                 /\ \A o \in Owners : position'[o].amount = position[o].amount
                                      /\ position'[o].side = position[o].side
  <1>1. TypeOK /\ [Next]_vars => [Frozen]_vars
    <2> SUFFICES ASSUME TypeOK, Next, pool.state # "Absent", clock >= pool.cutoff
                 PROVE  /\ pool'.sideAmount = pool.sideAmount
                        /\ \A o \in Owners : position'[o].amount = position[o].amount
                                             /\ position'[o].side = position[o].side
      OBVIOUS
    <2>1. ~AcceptsDeposits(pool)
      <3>1. clock \in Nat /\ pool.cutoff \in Nat
        BY NumbersAssumption DEF TypeOK, PoolAccounts, Timestamps
      <3> QED
        BY <3>1 DEF AcceptsDeposits
    <2>2. ~ \E o \in Owners, side \in Sides, amount \in Amounts : JoinPool(o, side, amount)
      BY <2>1 DEF JoinPool, JoinAccepted
    <2>3. pool'.sideAmount = pool.sideAmount
      <3> USE DEF TypeOK, PoolAccounts
      <3>1. ASSUME NEW o \in Owners, Claim(o)
            PROVE  pool'.sideAmount = pool.sideAmount
        <4> DEFINE a == position[o].amount
                   n == Payout(pool, a)
        <4>1. pool' = ClaimRecorded(pool, a, n)
          BY <3>1 DEF Claim, ClaimAccepted
        <4> HIDE DEF a, n
        <4> QED
          BY <4>1 DEF ClaimRecorded
      <3>2. ASSUME NEW o \in Owners, Refund(o)
            PROVE  pool'.sideAmount = pool.sideAmount
        BY <3>2 DEF Refund, RefundAccepted, RefundRecorded
      <3>3. ASSUME NEW side \in Sides, NEW sequence \in Sequences,
                   RecordDemoOutcome(side, sequence) \/ SettlePool(side, sequence)
            PROVE  pool'.sideAmount = pool.sideAmount
        BY <3>3 DEF RecordDemoOutcome, SettlePool, OutcomeRecorded
      <3>4. ASSUME NEW authority \in Callers, CancelPool(authority)
            PROVE  pool'.sideAmount = pool.sideAmount
        BY <3>4 DEF CancelPool
      <3>5. ASSUME LockPool \/ Tick \/ \E gift \in Gifts : DirectTransfer(gift)
            PROVE  pool'.sideAmount = pool.sideAmount
        BY <3>5 DEF LockPool, Tick, DirectTransfer
      <3>6. ~ \E cutoff, refundAfter \in Timestamps, demoMode \in BOOLEAN :
                 CreatePool(cutoff, refundAfter, demoMode)
        BY DEF CreatePool
      <3> QED
        BY <2>2, <3>1, <3>2, <3>3, <3>4, <3>5, <3>6 DEF Next
    <2>4. \A o \in Owners : position'[o].amount = position[o].amount
                            /\ position'[o].side = position[o].side
      <3> USE DEF TypeOK, PositionAccounts
      <3>1. CASE \E o \in Owners : Claim(o) \/ Refund(o)
        BY <3>1 DEF Claim, ClaimAccepted, Refund, RefundAccepted
      <3>2. CASE position' = position
        BY <3>2
      <3> QED
        BY <2>2, <3>1, <3>2
        DEF Next, CreatePool, LockPool, RecordDemoOutcome, SettlePool, CancelPool,
            DirectTransfer, Tick
    <2> QED
      BY <2>3, <2>4
  <1>2. [Frozen]_vars => [pool.state # "Absent" /\ clock >= pool.cutoff =>
                            /\ pool'.sideAmount = pool.sideAmount
                            /\ \A o \in Owners : position'[o].amount = position[o].amount
                                                 /\ position'[o].side = position[o].side]_vars
    OBVIOUS
  <1> QED
    BY <1>1, <1>2, TypeCorrect, PTL DEF Spec, StakesFreezeAtCutoff

(* The program implements the lifecycle its clients are written against.    *)

\* The lifecycle starts where the pool does.
LEMMA LifecycleInit == Init => Lifecycle!Init
  BY DEF Init, Lifecycle!Init

\* Every instruction is a step of the lifecycle, or none.
LEMMA LifecycleStep ==
  ASSUME TypeOK, Next
  PROVE  Lifecycle!Next \/ UNCHANGED Lifecycle!life
  <1> USE DEF TypeOK, PoolAccounts, Lifecycle!life
  <1>1. ASSUME NEW cutoff \in Timestamps, NEW refundAfter \in Timestamps,
               NEW demoMode \in BOOLEAN, CreatePool(cutoff, refundAfter, demoMode)
        PROVE  Lifecycle!Create
    BY <1>1 DEF CreatePool, Lifecycle!Create
  <1>2. ASSUME NEW o \in Owners, NEW side \in Sides, NEW amount \in Amounts,
               JoinPool(o, side, amount)
        PROVE  UNCHANGED Lifecycle!life
    <2> DEFINE sides == [pool.sideAmount EXCEPT ![side] = @ + amount]
               remaining == pool.remainingPool + amount
    <2>1. pool' = [pool EXCEPT !.sideAmount = sides, !.remainingPool = remaining]
      BY <1>2 DEF JoinPool, JoinAccepted
    <2> HIDE DEF sides, remaining
    <2> QED
      BY <2>1
  <1>3. ASSUME LockPool
        PROVE  Lifecycle!Lock
    BY <1>3 DEF LockPool, Lifecycle!Lock
  <1>4. ASSUME NEW side \in Sides, NEW sequence \in Sequences,
               RecordDemoOutcome(side, sequence) \/ SettlePool(side, sequence)
        PROVE  Lifecycle!RecordOutcome
    <2>1. AcceptsOutcome(pool, sequence) /\ pool' = OutcomeRecorded(pool, side, sequence)
      BY <1>4 DEF RecordDemoOutcome, SettlePool
    <2>2. OutcomeState(pool, side) \in Lifecycle!Outcomes
      BY DEF OutcomeState, SettledFor, Lifecycle!Outcomes
    <2>3. pool'.state = OutcomeState(pool, side) /\ pool'.settledSequence = sequence
      BY <2>1 DEF OutcomeRecorded
    <2>4. sequence \in Nat \ {0}
      BY <2>1, NumbersAssumption DEF AcceptsOutcome
    <2> QED
      BY <2>1, <2>2, <2>3, <2>4 DEF AcceptsOutcome, Lifecycle!RecordOutcome
  <1>5. ASSUME NEW authority \in Callers, CancelPool(authority)
        PROVE  Lifecycle!Cancel
    BY <1>5 DEF CancelPool, AcceptsCancel, Unresolved,
                Lifecycle!Cancel, Lifecycle!Unresolved, Lifecycle!Cancellations
  <1>6. ASSUME NEW o \in Owners, Claim(o)
        PROVE  Lifecycle!PayTheLast \/ UNCHANGED Lifecycle!life
    <2> DEFINE a == position[o].amount
               n == Payout(pool, a)
    <2>1. pool' = ClaimRecorded(pool, a, n)
      BY <1>6 DEF Claim, ClaimAccepted
    <2>2. pool.state \in Settled
      BY <1>6 DEF Claim, ClaimAccepted, Claimable
    <2> HIDE DEF a, n
    <2>3. pool'.settledSequence = pool.settledSequence
          /\ pool'.state \in {pool.state, "Closed"}
      BY <2>1 DEF ClaimRecorded
    <2> QED
      BY <2>2, <2>3 DEF Settled, Lifecycle!PayTheLast, Lifecycle!Payable
  <1>7. ASSUME NEW o \in Owners, Refund(o)
        PROVE  Lifecycle!PayTheLast \/ UNCHANGED Lifecycle!life
    <2>1. pool.state = "Cancelled"
      BY <1>7 DEF Refund, RefundAccepted, Refundable
    <2>2. pool'.settledSequence = pool.settledSequence
          /\ pool'.state \in {pool.state, "Closed"}
      BY <1>7 DEF Refund, RefundAccepted, RefundRecorded
    <2> QED
      BY <2>1, <2>2 DEF Lifecycle!PayTheLast, Lifecycle!Payable
  <1>8. ASSUME Tick \/ \E gift \in Gifts : DirectTransfer(gift)
        PROVE  UNCHANGED Lifecycle!life
    BY <1>8 DEF Tick, DirectTransfer
  <1> QED
    BY <1>1, <1>2, <1>3, <1>4, <1>5, <1>6, <1>7, <1>8 DEF Next, Lifecycle!Next

\* Every behaviour of the program is a lifecycle.
THEOREM ImplementsLifecycle == Spec => FollowsLifecycle
  <1>1. TypeOK /\ [Next]_vars => [Lifecycle!Next]_(Lifecycle!life)
    BY LifecycleStep DEF vars, Lifecycle!life
  <1> QED
    BY <1>1, LifecycleInit, TypeCorrect, PTL DEF Spec, FollowsLifecycle, Lifecycle!Spec

-----------------------------------------------------------------------------
(* The steps that matter to payouts                                         *)

\* A step claims, records an outcome, leaves the pool in a state in which
\* nothing can be claimed, or touches neither the pool nor a position.
LEMMA StepKinds ==
    ASSUME TypeOK, [Next]_vars
    PROVE  \/ \E o \in Owners : Claim(o)
           \/ /\ pool.state = "Locked"
              /\ \E side \in Sides, sequence \in Sequences :
                    pool' = OutcomeRecorded(pool, side, sequence)
              /\ UNCHANGED <<position, wallet>>
           \/ pool'.state \notin Settled
           \/ UNCHANGED <<pool, position, wallet>>
  <1> USE DEF TypeOK, PoolAccounts, Settled
  <1>1. ASSUME NEW cutoff \in Timestamps, NEW refundAfter \in Timestamps,
               NEW demoMode \in BOOLEAN, CreatePool(cutoff, refundAfter, demoMode)
        PROVE  pool'.state \notin Settled
    BY <1>1 DEF CreatePool
  <1>2. ASSUME NEW o \in Owners, NEW side \in Sides, NEW amount \in Amounts,
               JoinPool(o, side, amount)
        PROVE  pool'.state \notin Settled
    <2> DEFINE sides == [pool.sideAmount EXCEPT ![side] = @ + amount]
               remaining == pool.remainingPool + amount
    <2>1. pool' = [pool EXCEPT !.sideAmount = sides, !.remainingPool = remaining]
          /\ pool.state = "Open"
      BY <1>2 DEF JoinPool, JoinAccepted, AcceptsDeposits
    <2> HIDE DEF sides, remaining
    <2> QED
      BY <2>1
  <1>3. ASSUME LockPool
        PROVE  pool'.state \notin Settled
    BY <1>3 DEF LockPool
  <1>4. ASSUME NEW side \in Sides, NEW sequence \in Sequences,
               RecordDemoOutcome(side, sequence) \/ SettlePool(side, sequence)
        PROVE  /\ pool.state = "Locked"
               /\ pool' = OutcomeRecorded(pool, side, sequence)
               /\ UNCHANGED <<position, wallet>>
    BY <1>4 DEF RecordDemoOutcome, SettlePool, AcceptsOutcome
  <1>5. ASSUME NEW authority \in Callers, CancelPool(authority)
        PROVE  pool'.state \notin Settled
    BY <1>5 DEF CancelPool
  <1>6. ASSUME NEW o \in Owners, Refund(o)
        PROVE  pool'.state \notin Settled
    BY <1>6 DEF Refund, RefundAccepted, RefundRecorded, Refundable
  <1>7. ASSUME Tick \/ (\E gift \in Gifts : DirectTransfer(gift)) \/ UNCHANGED vars
        PROVE  UNCHANGED <<pool, position, wallet>>
    BY <1>7 DEF Tick, DirectTransfer, vars
  <1> QED
    BY <1>1, <1>2, <1>3, <1>4, <1>5, <1>6, <1>7 DEF Next

\* The owners that have claimed are finitely many, none before a resolution.
LEMMA ClaimedIsFinite == IsFiniteSet(Claimed) /\ Cardinality(Claimed) \in Nat
  <1>1. Claimed \in SUBSET Owners
    BY DEF Claimed
  <1> QED
    BY <1>1, OwnersAssumption, FS_Subset, FS_CardinalityType

\* A settled pool has one winning side, and somebody has backed it.
LEMMA WinnersHaveStakes ==
    ASSUME Coherent, NEW o \in Owners, NEW side \in Sides,
           pool.state = SettledFor(side), position[o].side = side
    PROVE  /\ pool.sideAmount[side] \in Nat \ {0}
           /\ pool.winningSide = side
  <1>1. /\ position \in Positions
        /\ position[o].amount \in Nat /\ position[o].amount > 0
        /\ pool.winningSide = side
    BY NumbersAssumption
    DEF Coherent, TypeOK, Positions, PositionAccounts, Amounts, PositionsCoherent,
        StageCoherent, Sides, None
  <1>2. pool.sideAmount[side] = StakedBy(position, Backers(side))
    BY DEF Coherent, BooksBalance, StakeOf
  <1>3. Backers(side) \in SUBSET Owners /\ o \in Backers(side)
    BY DEF Backers
  <1>4. Backers(side) \ {o} \in SUBSET Owners
    BY <1>3
  <1>5. /\ StakedBy(position, Backers(side)) =
               StakedBy(position, Backers(side) \ {o}) + position[o].amount
        /\ StakedBy(position, Backers(side) \ {o}) \in Nat
    BY <1>1, <1>3, <1>4, StakedWithout, StakedIsNat
  <1> QED
    BY <1>1, <1>2, <1>5

-----------------------------------------------------------------------------
(* One claim                                                                *)

\* What a claim does to the accounts, and what it is worth: at least the floor
\* of the share of the whole pot, and at most one unit more per earlier claim.
LEMMA ClaimIsFair ==
    ASSUME Coherent, SharesKeepRate, NEW o \in Owners, Claim(o)
    PROVE  LET side == position[o].side
               a == position[o].amount
               n == Payout(pool, a)
               R == pool.remainingPool
               W == pool.remainingWinning
               winning == pool.sideAmount[side]
           IN  /\ side \in Sides /\ pool.state = SettledFor(side)
               /\ pool.winningSide = side
               /\ a \in Nat /\ n \in Nat /\ R \in Nat /\ W \in Nat \ {0}
               /\ winning \in Nat \ {0} /\ Pot(pool) \in Nat
               /\ a > 0 /\ a <= W /\ n <= R
               /\ n * W <= R * a /\ R * a < (n + 1) * W
               /\ Pot(pool) * a < (n + 1) * winning
               /\ n * winning <= Pot(pool) * a + Cardinality(Claimed) * winning
  <1> DEFINE side == position[o].side
             a == position[o].amount
             n == Payout(pool, a)
             R == pool.remainingPool
             W == pool.remainingWinning
             winning == pool.sideAmount[side]
             k == Cardinality(Claimed)
  <1>1. side \in Sides /\ pool.state = SettledFor(side) /\ ~position[o].claimed
    BY DEF Claim, ClaimAccepted, Claimable, Coherent, TypeOK, PositionAccounts
  <1>2. /\ a \in Nat /\ R \in Nat /\ W \in Nat /\ Pot(pool) \in Nat
        /\ a > 0 /\ a <= W /\ n \in Nat /\ n <= R
    <2>1. /\ a \in Nat /\ a > 0 /\ a <= W /\ n \in Nat /\ n <= R
      BY <1>1, WinnersPayout
    <2>2. R \in Nat /\ W \in Nat /\ Pot(pool) \in Nat
      BY NumbersAssumption DEF Coherent, TypeOK, PoolAccounts, Amounts, Pot, Sides
    <2> QED
      BY <2>1, <2>2
  <1>3. winning \in Nat \ {0} /\ pool.winningSide = side
    BY <1>1, WinnersHaveStakes
  <1>4. n * W <= R * a /\ R * a < (n + 1) * W
    BY <1>2, PayoutIsTheShare
  <1>5. /\ Pot(pool) * W <= R * winning
        /\ R * winning <= Pot(pool) * W + k * winning
    BY <1>1 DEF SharesKeepRate
  <1>6. k \in Nat
    BY ClaimedIsFinite
  <1> HIDE DEF side, a, n, R, W, winning, k
  <1>7. W \in Nat \ {0}
    BY <1>2
  <1>8. Pot(pool) * a < (n + 1) * winning
    BY <1>2, <1>3, <1>4, <1>5, <1>7, PaysTheShareOfThePot
  <1>9. n * winning <= Pot(pool) * a + k * winning
    BY <1>2, <1>3, <1>4, <1>5, <1>6, <1>7, PaysTheSurplusAtMost
  <1> QED
    BY <1>1, <1>2, <1>3, <1>4, <1>7, <1>8, <1>9 DEF side, a, n, R, W, winning, k

\* What a claim changes.
LEMMA ClaimChanges ==
    ASSUME Coherent, NEW o \in Owners, Claim(o)
    PROVE  LET a == position[o].amount
               n == Payout(pool, a)
           IN  /\ pool'.state = IF pool.remainingWinning = a THEN "Closed" ELSE pool.state
               /\ pool'.winningSide = pool.winningSide
               /\ pool'.sideAmount = pool.sideAmount
               /\ pool'.remainingPool = pool.remainingPool - n
               /\ pool'.remainingWinning = pool.remainingWinning - a
               /\ o \notin Claimed /\ Claimed' = Claimed \cup {o}
               /\ Cardinality(Claimed') = Cardinality(Claimed) + 1
               /\ position'[o].claimed
               /\ wallet'[o] = wallet[o] + n
               /\ \A x \in Owners : /\ position'[x].side = position[x].side
                                    /\ position'[x].amount = position[x].amount
                                    /\ position'[x].refunded = position[x].refunded
               /\ \A x \in Owners \ {o} : /\ position'[x] = position[x]
                                          /\ wallet'[x] = wallet[x]
  <1> DEFINE a == position[o].amount
             n == Payout(pool, a)
  <1>1. /\ pool' = ClaimRecorded(pool, a, n)
        /\ position' = [position EXCEPT ![o].claimed = TRUE]
        /\ wallet' = [wallet EXCEPT ![o] = @ + n]
        /\ ~position[o].claimed
    BY DEF Claim, ClaimAccepted, Claimable
  <1>2. /\ pool'.state = IF pool.remainingWinning = a THEN "Closed" ELSE pool.state
        /\ pool'.winningSide = pool.winningSide
        /\ pool'.sideAmount = pool.sideAmount
        /\ pool'.remainingPool = pool.remainingPool - n
        /\ pool'.remainingWinning = pool.remainingWinning - a
    <2> HIDE DEF n
    <2> QED
      BY <1>1 DEF ClaimRecorded, Coherent, TypeOK, PoolAccounts
  <1>3. /\ position'[o].claimed
        /\ \A x \in Owners : /\ position'[x].side = position[x].side
                             /\ position'[x].amount = position[x].amount
                             /\ position'[x].refunded = position[x].refunded
        /\ \A x \in Owners \ {o} : position'[x] = position[x]
    BY <1>1 DEF Coherent, TypeOK, PositionAccounts
  <1>4. wallet'[o] = wallet[o] + n /\ \A x \in Owners \ {o} : wallet'[x] = wallet[x]
    <2> HIDE DEF n
    <2> QED
      BY <1>1 DEF Coherent, TypeOK
  <1>5. o \notin Claimed /\ Claimed' = Claimed \cup {o}
    <2>1. \A x \in Owners \ {o} : position'[x].claimed = position[x].claimed
      BY <1>3
    <2> QED
      BY <1>1, <1>3, <2>1 DEF Claimed
  <1>6. Cardinality(Claimed') = Cardinality(Claimed) + 1
    BY <1>5, ClaimedIsFinite, FS_AddElement
  <1> QED
    BY <1>2, <1>3, <1>4, <1>5, <1>6

-----------------------------------------------------------------------------
(* The rate                                                                 *)

\* Before the first claim the rate is exact.
LEMMA RateInit == Init => SharesKeepRate
  BY DEF Init, SharesKeepRate, SettledFor

\* Every step keeps the rate, rounding included.
LEMMA RateInduction ==
    ASSUME IInv, [Next]_vars
    PROVE  SharesKeepRate'
  <1> USE DEF IInv
  <1>1. ASSUME NEW o \in Owners, Claim(o)
        PROVE  SharesKeepRate'
    <2> DEFINE side == position[o].side
               a == position[o].amount
               n == Payout(pool, a)
               R == pool.remainingPool
               W == pool.remainingWinning
               winning == pool.sideAmount[side]
               k == Cardinality(Claimed)
    <2>1. /\ side \in Sides /\ pool.state = SettledFor(side)
          /\ a \in Nat /\ n \in Nat /\ R \in Nat /\ W \in Nat \ {0}
          /\ winning \in Nat \ {0} /\ Pot(pool) \in Nat
          /\ a > 0 /\ a <= W /\ n <= R
          /\ n * W <= R * a
          /\ Pot(pool) * a < (n + 1) * winning
      BY <1>1, ClaimIsFair
    <2>2. /\ pool'.state = IF W = a THEN "Closed" ELSE pool.state
          /\ pool'.sideAmount = pool.sideAmount
          /\ pool'.remainingPool = R - n
          /\ pool'.remainingWinning = W - a
          /\ Cardinality(Claimed') = k + 1
      BY <1>1, ClaimChanges
    <2>3. k \in Nat
      BY ClaimedIsFinite
    <2>4. /\ Pot(pool) * W <= R * winning
          /\ R * winning <= Pot(pool) * W + k * winning
      BY <2>1 DEF SharesKeepRate
    <2>5. Pot(pool)' = Pot(pool)
      BY <2>2 DEF Pot
    <2> HIDE DEF a, n, R, W, winning, k
    <2>6. Pot(pool) * (W - a) <= (R - n) * winning
      BY <2>1, <2>4, RateDoesNotFall
    <2>7. (R - n) * winning <= Pot(pool) * (W - a) + (k + 1) * winning
      BY <2>1, <2>3, <2>4, SurplusGrowsByOne
    <2> SUFFICES ASSUME NEW s \in Sides, pool'.state = SettledFor(s)
                 PROVE  /\ Pot(pool)' * pool'.remainingWinning
                              <= pool'.remainingPool * pool'.sideAmount[s]
                        /\ pool'.remainingPool * pool'.sideAmount[s]
                              <= Pot(pool)' * pool'.remainingWinning
                                   + Cardinality(Claimed') * pool'.sideAmount[s]
      BY Zenon DEF SharesKeepRate
    <2>8. s = side
      BY <2>1, <2>2 DEF SettledFor, Sides
    <2>9. pool'.sideAmount[s] = winning
      BY <2>2, <2>8 DEF winning
    <2> QED
      BY <2>2, <2>5, <2>6, <2>7, <2>9
  <1>2. ASSUME pool.state = "Locked", NEW side \in Sides, NEW sequence \in Sequences,
               pool' = OutcomeRecorded(pool, side, sequence), UNCHANGED position
        PROVE  SharesKeepRate'
    <2>1. /\ pool'.state = OutcomeState(pool, side)
          /\ pool'.sideAmount = pool.sideAmount
          /\ pool'.remainingPool = pool.remainingPool
          /\ pool'.remainingWinning = pool.sideAmount[side]
      BY <1>2 DEF OutcomeRecorded, Coherent, TypeOK, PoolAccounts
    <2>2. pool.remainingPool = Pot(pool) /\ Claimed = {}
      BY <1>2 DEF Coherent, StageCoherent, Unresolved
    <2>3. Pot(pool) \in Nat /\ pool.sideAmount[side] \in Nat
      BY NumbersAssumption DEF Coherent, TypeOK, PoolAccounts, Amounts, Pot, Sides
    <2>4. Cardinality(Claimed') = 0 /\ Pot(pool)' = Pot(pool)
      BY <1>2, <2>1, <2>2, FS_EmptySet DEF Claimed, Pot
    <2> SUFFICES ASSUME NEW s \in Sides, pool'.state = SettledFor(s)
                 PROVE  /\ Pot(pool)' * pool'.remainingWinning
                              <= pool'.remainingPool * pool'.sideAmount[s]
                        /\ pool'.remainingPool * pool'.sideAmount[s]
                              <= Pot(pool)' * pool'.remainingWinning
                                   + Cardinality(Claimed') * pool'.sideAmount[s]
      BY Zenon DEF SharesKeepRate
    <2>5. s = side
      BY <2>1 DEF OutcomeState, SettledFor, Sides
    <2>6. Pot(pool) * pool.sideAmount[side] \in Nat
      BY <2>3, ProductIsNat
    <2> QED
      BY <2>1, <2>2, <2>3, <2>4, <2>5, <2>6
  <1>3. CASE pool'.state \notin Settled
    BY <1>3 DEF SharesKeepRate, SettledFor, Settled, Sides
  <1>4. CASE UNCHANGED <<pool, position>>
    BY <1>4 DEF SharesKeepRate, Pot, Claimed
  <1> QED
    BY <1>1, <1>2, <1>3, <1>4, StepKinds DEF Coherent

\* The inductive invariant holds throughout.
THEOREM Invariant == Spec => []IInv
  <1>1. Init => IInv
    BY InvInit, RateInit DEF IInv
  <1>2. IInv /\ [Next]_vars => IInv'
    BY InvInduction, RateInduction DEF IInv
  <1> QED
    BY <1>1, <1>2, PTL DEF Spec

-----------------------------------------------------------------------------
(* What everyone is paid                                                    *)

\* Before a resolution nobody has been paid, and nobody is marked as paid.
LEMMA NobodyPaidBefore ==
    ASSUME Coherent, pool.state \in Unresolved \cup {"Absent"}, NEW o \in Owners
    PROVE  ~position[o].claimed /\ ~position[o].refunded
  <1>1. Claimed = {} /\ Unrefunded = Owners
    BY DEF Coherent, StageCoherent
  <1> QED
    BY <1>1 DEF Claimed, Unrefunded

\* One owner's part of PaidWhatIsOwed.
PaidAsOwed(o) ==
    LET q == position[o]
        winning == pool.sideAmount[q.side]
    IN  /\ ~q.claimed /\ ~q.refunded => Received(o) = 0
        /\ q.refunded => ~q.claimed /\ Received(o) = q.amount
        /\ q.claimed =>
              /\ q.side = pool.winningSide
              /\ (Received(o) + 1) * winning > Pot(pool) * q.amount
              /\ Received(o) * winning
                    <= Pot(pool) * q.amount + (Cardinality(Claimed) - 1) * winning

\* PaidWhatIsOwed says this of every owner.
LEMMA PaidIsPerOwner == PaidWhatIsOwed <=> \A o \in Owners : PaidAsOwed(o)
  BY DEF PaidWhatIsOwed, PaidAsOwed

\* Nobody has received anything when the pool is created.
LEMMA PaidInit == Init => PaidWhatIsOwed
  BY NumbersAssumption DEF Init, PaidWhatIsOwed, NoPosition, Received

\* Staking moves units from the wallet to the position.
LEMMA PaidJoin ==
    ASSUME Coherent, PaidWhatIsOwed, NEW o \in Owners, NEW side \in Sides,
           NEW n \in Amounts, JoinPool(o, side, n)
    PROVE  PaidWhatIsOwed'
  <1>1. pool.state \in Unresolved
    BY DEF JoinPool, JoinAccepted, AcceptsDeposits, Unresolved
  <1>2. \A x \in Owners : ~position[x].claimed /\ ~position[x].refunded /\ Received(x) = 0
    BY <1>1, NobodyPaidBefore DEF PaidWhatIsOwed
  <1>3. /\ position' = [position EXCEPT ![o].side = side, ![o].amount = @ + n]
        /\ wallet' = [wallet EXCEPT ![o] = @ - n]
    BY DEF JoinPool, JoinAccepted
  <1>4. \A x \in Owners : ~position'[x].claimed /\ ~position'[x].refunded
    BY <1>2, <1>3 DEF Coherent, TypeOK, PositionAccounts
  <1>5. Received(o)' = Received(o)
    <2>1. position'[o].amount = position[o].amount + n /\ wallet'[o] = wallet[o] - n
      BY <1>3 DEF Coherent, TypeOK, PositionAccounts
    <2>2. /\ position[o].amount \in Int /\ wallet[o] \in Int /\ n \in Int
          /\ Endowment[o] \in Int
      BY NumbersAssumption DEF Coherent, TypeOK, PositionAccounts, Amounts
    <2> QED
      BY <2>1, <2>2 DEF Received
  <1>6. \A x \in Owners \ {o} : Received(x)' = Received(x)
    BY <1>3 DEF Coherent, TypeOK, PositionAccounts, Received
  <1> QED
    BY <1>2, <1>4, <1>5, <1>6 DEF PaidWhatIsOwed

\* A claim is within the bounds when it is paid, and they only widen.
LEMMA PaidClaim ==
    ASSUME IInv, PaidWhatIsOwed, NEW o \in Owners, Claim(o)
    PROVE  PaidWhatIsOwed'
  <1> USE DEF IInv
  <1> DEFINE side == position[o].side
             a == position[o].amount
             n == Payout(pool, a)
             winning == pool.sideAmount[side]
             k == Cardinality(Claimed)
  <1>1. /\ side \in Sides /\ pool.state = SettledFor(side) /\ pool.winningSide = side
        /\ a \in Nat /\ n \in Nat /\ winning \in Nat \ {0} /\ Pot(pool) \in Nat
        /\ Pot(pool) * a < (n + 1) * winning
        /\ n * winning <= Pot(pool) * a + k * winning
    BY ClaimIsFair
  <1>2. /\ pool'.winningSide = pool.winningSide
        /\ pool'.sideAmount = pool.sideAmount
        /\ o \notin Claimed /\ Claimed' = Claimed \cup {o}
        /\ Cardinality(Claimed') = k + 1
        /\ position'[o].claimed
        /\ wallet'[o] = wallet[o] + n
        /\ \A x \in Owners : /\ position'[x].side = position[x].side
                             /\ position'[x].amount = position[x].amount
                             /\ position'[x].refunded = position[x].refunded
        /\ \A x \in Owners \ {o} : /\ position'[x] = position[x]
                                   /\ wallet'[x] = wallet[x]
    BY ClaimChanges
  <1>3. Pot(pool)' = Pot(pool)
    BY <1>2 DEF Pot
  <1>4. k \in Nat
    BY ClaimedIsFinite
  <1>5. Unrefunded = Owners
    BY <1>1 DEF Coherent, StageCoherent
  <1>6. ASSUME NEW x \in Owners
        PROVE  wallet[x] \in Int /\ position[x].amount \in Int /\ Endowment[x] \in Int
    BY NumbersAssumption DEF Coherent, TypeOK, PositionAccounts, Amounts
  <1>7. PaidAsOwed(o)'
    <2>1. Received(o) = 0 /\ ~position[o].refunded
      BY <1>2, <1>5 DEF PaidWhatIsOwed, Claimed, Unrefunded
    <2>2. Received(o)' = Received(o) + n
      <3> HIDE DEF n
      <3> QED
        BY <1>1, <1>2, <1>6 DEF Received
    <2>3. Received(o)' = n
      BY <1>1, <2>1, <2>2
    <2>4. (Cardinality(Claimed') - 1) * winning = k * winning
      BY <1>2, <1>4
    <2>5. /\ ~position'[o].refunded
          /\ position'[o].side = side /\ position'[o].amount = a
          /\ pool'.sideAmount[position'[o].side] = winning
      BY <1>2, <2>1
    <2> HIDE DEF side, a, n, winning, k
    <2> QED
      BY <1>1, <1>2, <1>3, <2>3, <2>4, <2>5 DEF PaidAsOwed
  <1>8. ASSUME NEW x \in Owners \ {o}
        PROVE  PaidAsOwed(x)'
    <2> DEFINE total == pool.sideAmount[position[x].side]
               r == Received(x)
    <2>1. Received(x)' = r /\ r \in Int
      BY <1>2, <1>6 DEF Received
    <2>2. PaidAsOwed(x)
      BY PaidIsPerOwner
    <2>3. position'[x] = position[x] /\ pool'.sideAmount[position'[x].side] = total
      BY <1>2
    <2>4. ASSUME position[x].claimed
          PROVE  r * total <= Pot(pool) * position[x].amount
                                 + (Cardinality(Claimed') - 1) * total
      <3>1. position[x].side = pool.winningSide
        BY <2>2, <2>4 DEF PaidAsOwed
      <3>2. total \in Nat
        BY <1>1, <3>1
      <3>3. r * total <= Pot(pool) * position[x].amount + (k - 1) * total
        BY <2>2, <2>4 DEF PaidAsOwed
      <3>4. Pot(pool) * position[x].amount \in Int /\ r * total \in Int
        <4>1. \A i, j \in Int : i * j \in Int
          OBVIOUS
        <4> HIDE DEF r, total
        <4> QED
          BY <1>1, <1>6, <2>1, <3>2, <4>1
      <3>5. (Cardinality(Claimed') - 1) * total = k * total
            /\ (k - 1) * total = k * total - total
            /\ k * total \in Int
        <4> HIDE DEF k, total
        <4> QED
          BY <1>2, <1>4, <3>2
      <3> HIDE DEF r, total, k
      <3> QED
        BY <3>2, <3>3, <3>4, <3>5
    <2> HIDE DEF r, total
    <2> QED
      BY <1>2, <1>3, <2>1, <2>2, <2>3, <2>4 DEF PaidAsOwed, r, total
  <1>9. \A x \in Owners : PaidAsOwed(x)'
    BY <1>7, <1>8
  <1> QED
    BY <1>9 DEF PaidWhatIsOwed, PaidAsOwed

\* A refund is the stake.
LEMMA PaidRefund ==
    ASSUME Coherent, PaidWhatIsOwed, NEW o \in Owners, Refund(o)
    PROVE  PaidWhatIsOwed'
  <1> DEFINE a == position[o].amount
  <1>1. /\ pool.state = "Cancelled"
        /\ ~position[o].claimed /\ ~position[o].refunded
        /\ position' = [position EXCEPT ![o].refunded = TRUE]
        /\ wallet' = [wallet EXCEPT ![o] = @ + a]
    BY DEF Refund, RefundAccepted, Refundable
  <1>2. \A x \in Owners : ~position[x].claimed
    BY <1>1 DEF Coherent, StageCoherent, Claimed
  <1>3. \A x \in Owners : ~position'[x].claimed /\ position'[x].amount = position[x].amount
    BY <1>1, <1>2 DEF Coherent, TypeOK, PositionAccounts
  <1>4. position'[o].refunded /\ Received(o)' = position'[o].amount
    <2>1. Received(o) = 0
      BY <1>1 DEF PaidWhatIsOwed
    <2>2. position'[o].refunded /\ wallet'[o] = wallet[o] + a
      BY <1>1 DEF Coherent, TypeOK, PositionAccounts
    <2>3. a \in Int /\ wallet[o] \in Int /\ Endowment[o] \in Int
      BY NumbersAssumption DEF Coherent, TypeOK, PositionAccounts, Amounts
    <2>4. Received(o)' = wallet[o] + a + a - Endowment[o]
      BY <1>3, <2>2 DEF Received
    <2>5. wallet[o] + a - Endowment[o] = 0
      BY <2>1 DEF Received
    <2> QED
      BY <1>3, <2>2, <2>3, <2>4, <2>5
  <1>5. \A x \in Owners \ {o} : position'[x] = position[x] /\ Received(x)' = Received(x)
    BY <1>1 DEF Coherent, TypeOK, PositionAccounts, Received
  <1> QED
    BY <1>2, <1>3, <1>4, <1>5 DEF PaidWhatIsOwed

\* Steps that move no money.
LEMMA PaidStill ==
    ASSUME Coherent, PaidWhatIsOwed, UNCHANGED <<position, wallet>>,
           pool.state \in Unresolved \cup {"Absent"} \/ UNCHANGED pool
    PROVE  PaidWhatIsOwed'
  <1>1. \A x \in Owners : Received(x)' = Received(x)
    BY DEF Received
  <1>2. CASE pool.state \in Unresolved \cup {"Absent"}
    BY <1>1, <1>2, NobodyPaidBefore DEF PaidWhatIsOwed
  <1>3. CASE UNCHANGED pool
    BY <1>1, <1>3 DEF PaidWhatIsOwed, Pot, Claimed
  <1> QED
    BY <1>2, <1>3

\* Every step pays what is owed.
LEMMA PaidInduction == IInv /\ PaidWhatIsOwed /\ [Next]_vars => PaidWhatIsOwed'
  <1> SUFFICES ASSUME IInv, PaidWhatIsOwed, [Next]_vars
               PROVE  PaidWhatIsOwed'
    OBVIOUS
  <1> USE DEF IInv
  <1>1. ASSUME NEW o \in Owners, NEW side \in Sides, NEW amount \in Amounts,
               JoinPool(o, side, amount)
        PROVE  PaidWhatIsOwed'
    BY <1>1, PaidJoin
  <1>2. ASSUME NEW o \in Owners, Claim(o)
        PROVE  PaidWhatIsOwed'
    BY <1>2, PaidClaim
  <1>3. ASSUME NEW o \in Owners, Refund(o)
        PROVE  PaidWhatIsOwed'
    BY <1>3, PaidRefund
  <1>4. ASSUME NEW cutoff \in Timestamps, NEW refundAfter \in Timestamps,
               NEW demoMode \in BOOLEAN, CreatePool(cutoff, refundAfter, demoMode)
        PROVE  PaidWhatIsOwed'
    BY <1>4, PaidStill DEF CreatePool
  <1>5. CASE LockPool
    BY <1>5, PaidStill DEF LockPool, Unresolved
  <1>6. ASSUME NEW side \in Sides, NEW sequence \in Sequences,
               RecordDemoOutcome(side, sequence) \/ SettlePool(side, sequence)
        PROVE  PaidWhatIsOwed'
    BY <1>6, PaidStill DEF RecordDemoOutcome, SettlePool, AcceptsOutcome, Unresolved
  <1>7. ASSUME NEW authority \in Callers, CancelPool(authority)
        PROVE  PaidWhatIsOwed'
    BY <1>7, PaidStill DEF CancelPool, AcceptsCancel
  <1>8. ASSUME Tick \/ (\E gift \in Gifts : DirectTransfer(gift)) \/ UNCHANGED vars
        PROVE  PaidWhatIsOwed'
    BY <1>8, PaidStill DEF Tick, DirectTransfer, vars
  <1> QED
    BY <1>1, <1>2, <1>3, <1>4, <1>5, <1>6, <1>7, <1>8 DEF Next

\* Nobody is ever paid anything but what is owed, to the unit for refunds and
\* to one unit per earlier claim for winners.
THEOREM PaysWhatIsOwed == Spec => []PaidWhatIsOwed
  BY PaidInit, PaidInduction, Invariant, PTL DEF Spec

-----------------------------------------------------------------------------
(* Waiting costs nothing                                                    *)

\* A claim leaves every other claimable position at least what it had.
LEMMA ClaimRaisesQuotes ==
    ASSUME IInv, NEW o \in Owners, Claim(o), NEW x \in Owners, x # o,
           Claimable(pool, position[x])
    PROVE  Quote(x)' >= Quote(x)
  <1> USE DEF IInv
  <1> DEFINE side == position[o].side
             a == position[x].amount
             b == position[o].amount
             n == Payout(pool, a)
             m == Payout(pool, b)
             R == pool.remainingPool
             W == pool.remainingWinning
             Rest == UnpaidBackers(side) \ {o}
  <1>1. /\ side \in Sides /\ pool.state = SettledFor(side)
        /\ b \in Nat /\ m \in Nat /\ R \in Nat /\ W \in Nat \ {0}
        /\ b <= W /\ m <= R /\ m * W <= R * b
    BY ClaimIsFair
  <1>2. /\ pool'.remainingPool = R - m
        /\ pool'.remainingWinning = W - b
        /\ position'[x] = position[x]
    BY ClaimChanges
  <1>3. position[x].side = side /\ ~position[x].claimed
    BY <1>1 DEF Claimable, SettledFor, Sides, Coherent, TypeOK, PositionAccounts
  <1>4. /\ a \in Nat /\ a > 0 /\ a <= W /\ n \in Nat
    BY <1>1, <1>3, WinnersPayout
  <1>5. n * W <= R * a
    BY <1>1, <1>4, PayoutIsTheShare
  <1>6. a + b <= W
    <2>1. StakedBy(position, Rest) = W - b
      <3>1. ~position[o].claimed
        BY DEF Claim, ClaimAccepted, Claimable
      <3> QED
        BY <1>1, <3>1, WinnersPayout
    <2>2. Rest \in SUBSET Owners /\ x \in Rest /\ position \in Positions
      BY <1>3 DEF UnpaidBackers, Backers, Coherent, TypeOK, Positions
    <2> HIDE DEF Rest
    <2>3. /\ StakedBy(position, Rest) = StakedBy(position, Rest \ {x}) + a
          /\ StakedBy(position, Rest \ {x}) \in Nat
      BY <2>2, StakedWithout, StakedIsNat
    <2> QED
      BY <1>1, <1>4, <2>1, <2>3
  <1>7. n * (W - b) <= (R - m) * a
    <2> HIDE DEF a, b, n, m, R, W
    <2>1. W \in Nat
      BY <1>1
    <2> QED
      BY <1>1, <1>4, <1>5, <1>6, <2>1, WaitingCostsNothing
  <1>8. Quote(x)' = Payout(pool', a)
    BY <1>2 DEF Quote
  <1>9. LET later == Payout(pool', a)
        IN  later \in Nat /\ (R - m) * a < (later + 1) * (W - b)
    <2>1. pool'.remainingPool \in Nat /\ pool'.remainingWinning \in Nat
          /\ a <= pool'.remainingWinning
      <3> HIDE DEF a, b, n, m, R, W
      <3> QED
        BY <1>1, <1>2, <1>4, <1>6
    <2> QED
      BY <1>2, <1>4, <2>1, PayoutIsTheShare
  <1>10. Payout(pool', a) >= n
    <2> DEFINE later == Payout(pool', a)
               e == W - b
               d == (R - m) * a
    <2>1. later \in Nat /\ d < (later + 1) * e /\ n * e <= d
      BY <1>7, <1>9
    <2>2. e \in Nat \ {0} /\ n \in Nat /\ d \in Nat
      <3> HIDE DEF a, b, n, m, R, W
      <3> QED
        BY <1>1, <1>4, <1>6, ProductIsNat
    <2> HIDE DEF n, later, e, d
    <2>3. SUFFICES ASSUME later + 1 <= n PROVE FALSE
      BY <2>1, <2>2 DEF later
    <2>4. (later + 1) * e <= n * e
      BY <2>1, <2>2, <2>3, ProductMonotonic
    <2>5. (later + 1) * e \in Nat /\ n * e \in Nat
      BY <2>1, <2>2, ProductIsNat
    <2> QED
      BY <2>1, <2>2, <2>4, <2>5
  <1> QED
    BY <1>8, <1>10 DEF Quote

\* What a winner can claim never drops while others claim first.
THEOREM WaitingIsFree == Spec => QuotesNeverDrop
  <1> DEFINE Kept == \A o \in Owners :
                        Claimable(pool, position[o]) /\ ~position'[o].claimed =>
                           Quote(o)' >= Quote(o)
  <1>1. IInv /\ [Next]_vars => [Kept]_vars
    <2> SUFFICES ASSUME IInv, [Next]_vars, NEW x \in Owners,
                        Claimable(pool, position[x]), ~position'[x].claimed
                 PROVE  Quote(x)' >= Quote(x)
      OBVIOUS
    <2>1. pool.state \in Settled
      BY DEF Claimable
    <2>2. ASSUME NEW o \in Owners, Claim(o)
          PROVE  Quote(x)' >= Quote(x)
      <3>1. x # o
        BY <2>2, ClaimChanges DEF IInv
      <3> QED
        BY <2>2, <3>1, ClaimRaisesQuotes
    <2>3. CASE UNCHANGED <<pool, position>>
      <3>1. Quote(x)' = Quote(x) /\ Quote(x) \in Int
        <4>1. /\ position[x].side \in Sides /\ pool.state = SettledFor(position[x].side)
              /\ ~position[x].claimed
          BY DEF Claimable, IInv, Coherent, TypeOK, PositionAccounts
        <4>2. Payout(pool, position[x].amount) \in Nat
          BY <4>1, WinnersPayout DEF IInv
        <4> QED
          BY <2>3, <4>2 DEF Quote
      <3> QED
        BY <3>1
    <2>4. pool.state \notin Unresolved \cup {"Absent", "Cancelled"}
      BY <2>1 DEF Settled, Unresolved
    <2>5. (\E o \in Owners : Claim(o)) \/ UNCHANGED <<pool, position>>
      BY <2>4
      DEF Next, vars, CreatePool, JoinPool, JoinAccepted, AcceptsDeposits, LockPool,
          RecordDemoOutcome, SettlePool, AcceptsOutcome, CancelPool, AcceptsCancel, Refund,
          RefundAccepted, Refundable,
          DirectTransfer, Tick, Unresolved
    <2> QED
      BY <2>2, <2>3, <2>5
  <1>2. [Kept]_vars => [\A o \in Owners :
                           Claimable(pool, position[o]) /\ ~position'[o].claimed =>
                              Quote(o)' >= Quote(o)]_vars
    OBVIOUS
  <1> QED
    BY <1>1, <1>2, Invariant, PTL DEF Spec, QuotesNeverDrop

-----------------------------------------------------------------------------
(* The settlement record                                                    *)

\* No step lets the record and the pool disagree.
LEMMA RecordInduction == TypeOK /\ RecordAgrees /\ [Next]_vars => RecordAgrees'
  <1> SUFFICES ASSUME TypeOK, RecordAgrees, [Next]_vars
               PROVE  RecordAgrees'
    OBVIOUS
  <1> USE DEF TypeOK, PoolAccounts
  <1>1. ASSUME NEW side \in Sides, NEW sequence \in Sequences, SettlePool(side, sequence)
        PROVE  RecordAgrees'
    <2>1. pool'.winningSide = side /\ pool'.settledSequence = sequence
          /\ pool'.state = OutcomeState(pool, side)
      BY <1>1 DEF SettlePool, OutcomeRecorded
    <2>2. pool'.state \notin Unresolved \cup {"Absent"}
      BY <2>1 DEF OutcomeState, SettledFor, Unresolved
    <2> QED
      BY <1>1, <2>1, <2>2 DEF SettlePool, RecordAgrees
  <1>2. ASSUME pool.state \in Unresolved \cup {"Absent"}, UNCHANGED record
        PROVE  RecordAgrees'
    BY <1>2 DEF RecordAgrees
  <1>3. ASSUME pool.state \notin Unresolved \cup {"Absent"}, UNCHANGED record,
               pool'.state \in {pool.state, "Closed"},
               pool'.winningSide = pool.winningSide,
               pool'.settledSequence = pool.settledSequence
        PROVE  RecordAgrees'
    BY <1>3 DEF RecordAgrees, Unresolved
  <1>4. pool.state \notin Unresolved \cup {"Absent"} =>
           /\ pool'.state \in {pool.state, "Closed"}
           /\ pool'.winningSide = pool.winningSide
           /\ pool'.settledSequence = pool.settledSequence
    BY FinalStep DEF vars
  <1>5. UNCHANGED record \/ \E side \in Sides, sequence \in Sequences :
                               SettlePool(side, sequence)
    BY DEF Next, vars, CreatePool, JoinPool, LockPool, RecordDemoOutcome, CancelPool,
           Claim, ClaimAccepted, Refund, RefundAccepted, DirectTransfer, Tick
  <1> QED
    BY <1>1, <1>2, <1>3, <1>4, <1>5

\* The settlement record and the pool never disagree, whatever is cancelled,
\* declared or claimed before and after the settlement.
THEOREM RecordsAgree == Spec => []RecordAgrees
  <1>1. Init => RecordAgrees
    BY DEF Init, RecordAgrees
  <1> QED
    BY <1>1, RecordInduction, TypeCorrect, PTL DEF Spec

-----------------------------------------------------------------------------
(* The implementation of EscrowPromise                                      *)

\* A cancelled pool has no verdict but a refund: nobody won it, or nobody
\* backed the side that did.
CancelledIsVoid == pool.state = "Cancelled" => Verdict = "Void"

\* The verdict is reached once and then stays.
LEMMA VerdictStays ==
    ASSUME UNCHANGED <<pool.winningSide, pool.sideAmount>>,
           pool.state \notin Unresolved \cup {"Absent"},
           pool'.state \notin Unresolved \cup {"Absent"}
    PROVE  Verdict' = Verdict
  BY DEF Verdict

\* Recording an outcome, or cancelling, decides.
LEMMA OutcomeDecides ==
    ASSUME Coherent, NEW side \in Sides, NEW sequence \in Sequences,
           pool.state = "Locked", pool' = OutcomeRecorded(pool, side, sequence)
    PROVE  /\ Verdict = "Undecided"
           /\ Verdict' = IF pool.sideAmount[side] > 0 THEN side ELSE "Void"
           /\ pool'.remainingPool = pool.remainingPool
           /\ CancelledIsVoid'
  <1>1. /\ pool'.winningSide = side
        /\ pool'.sideAmount = pool.sideAmount
        /\ pool'.remainingPool = pool.remainingPool
        /\ pool'.state = OutcomeState(pool, side)
    BY DEF OutcomeRecorded, Coherent, TypeOK, PoolAccounts
  <1>2. pool'.state \notin Unresolved \cup {"Absent"}
    BY <1>1 DEF OutcomeState, SettledFor, Unresolved
  <1>3. pool'.state = "Cancelled" => pool.sideAmount[side] = 0
    BY <1>1 DEF OutcomeState, SettledFor
  <1> QED
    BY <1>1, <1>2, <1>3 DEF Verdict, Unresolved, CancelledIsVoid, Sides, None

\* Cancelling an unresolved pool decides that nobody wins.
LEMMA CancelDecides ==
    ASSUME Coherent, NEW authority \in Callers, CancelPool(authority)
    PROVE  /\ Verdict = "Undecided"
           /\ Verdict' = "Void"
           /\ pool'.remainingPool = pool.remainingPool
  <1>1. /\ pool.state \in Unresolved
        /\ pool'.winningSide = None
        /\ pool'.remainingPool = pool.remainingPool
        /\ pool'.state \in {"Closed", "Cancelled"}
    BY DEF CancelPool, AcceptsCancel, Coherent, TypeOK, PoolAccounts
  <1> QED
    BY <1>1 DEF Verdict, Unresolved

\* What a refund changes.
LEMMA RefundChanges ==
    ASSUME Coherent, NEW o \in Owners, Refund(o)
    PROVE  LET a == position[o].amount
           IN  /\ pool.state = "Cancelled"
               /\ pool'.state \in {"Cancelled", "Closed"}
               /\ pool'.winningSide = pool.winningSide
               /\ pool'.sideAmount = pool.sideAmount
               /\ pool'.remainingPool = pool.remainingPool - a
               /\ ~position[o].claimed /\ ~position[o].refunded
               /\ position'[o].refunded
               /\ wallet'[o] = wallet[o] + a
               /\ \A x \in Owners : /\ position'[x].side = position[x].side
                                    /\ position'[x].amount = position[x].amount
               /\ \A x \in Owners \ {o} : /\ position'[x] = position[x]
                                          /\ wallet'[x] = wallet[x]
  <1> USE DEF Coherent, TypeOK, PoolAccounts, PositionAccounts
  <1>1. /\ pool' = RefundRecorded(pool, position[o].amount)
        /\ position' = [position EXCEPT ![o].refunded = TRUE]
        /\ wallet' = [wallet EXCEPT ![o] = @ + position[o].amount]
        /\ pool.state = "Cancelled" /\ ~position[o].claimed /\ ~position[o].refunded
    BY DEF Refund, RefundAccepted, Refundable
  <1>2. /\ pool'.state \in {"Cancelled", "Closed"}
        /\ pool'.winningSide = pool.winningSide
        /\ pool'.sideAmount = pool.sideAmount
        /\ pool'.remainingPool = pool.remainingPool - position[o].amount
    <2> DEFINE a == position[o].amount
    <2> HIDE DEF a
    <2> QED
      BY <1>1 DEF RefundRecorded, a
  <1> QED
    BY <1>1, <1>2

\* A pool is only ever cancelled without a winner with a stake.
LEMMA CancelledIsVoidInduction == IInv /\ CancelledIsVoid /\ [Next]_vars => CancelledIsVoid'
  <1> SUFFICES ASSUME IInv, CancelledIsVoid, [Next]_vars
               PROVE  CancelledIsVoid'
    OBVIOUS
  <1> USE DEF IInv
  <1>1. ASSUME NEW side \in Sides, NEW sequence \in Sequences,
               RecordDemoOutcome(side, sequence) \/ SettlePool(side, sequence)
        PROVE  CancelledIsVoid'
    BY <1>1, OutcomeDecides DEF RecordDemoOutcome, SettlePool, AcceptsOutcome
  <1>2. ASSUME NEW authority \in Callers, CancelPool(authority)
        PROVE  CancelledIsVoid'
    BY <1>2, CancelDecides DEF CancelledIsVoid
  <1>3. ASSUME NEW o \in Owners, Refund(o)
        PROVE  CancelledIsVoid'
    <2>1. Verdict' = Verdict
      BY <1>3, RefundChanges, VerdictStays DEF Unresolved
    <2> QED
      BY <1>3, <2>1, RefundChanges DEF CancelledIsVoid
  <1>4. ASSUME NEW o \in Owners, Claim(o)
        PROVE  pool'.state # "Cancelled"
    BY <1>4, ClaimChanges DEF Claim, ClaimAccepted, Claimable, Settled
  <1>5. ASSUME NEW o \in Owners, NEW side \in Sides, NEW amount \in Amounts,
               JoinPool(o, side, amount)
        PROVE  pool'.state # "Cancelled"
    <2> DEFINE sides == [pool.sideAmount EXCEPT ![side] = @ + amount]
               remaining == pool.remainingPool + amount
    <2>1. pool' = [pool EXCEPT !.sideAmount = sides, !.remainingPool = remaining]
          /\ pool.state = "Open"
      BY <1>5 DEF JoinPool, JoinAccepted, AcceptsDeposits
    <2> HIDE DEF sides, remaining
    <2> QED
      BY <2>1 DEF Coherent, TypeOK, PoolAccounts
  <1>6. ASSUME LockPool \/ \E cutoff, refundAfter \in Timestamps, demoMode \in BOOLEAN :
                               CreatePool(cutoff, refundAfter, demoMode)
        PROVE  pool'.state # "Cancelled"
    BY <1>6 DEF LockPool, CreatePool, Coherent, TypeOK, PoolAccounts
  <1>7. ASSUME Tick \/ (\E gift \in Gifts : DirectTransfer(gift)) \/ UNCHANGED vars
        PROVE  UNCHANGED pool
    BY <1>7 DEF Tick, DirectTransfer, vars
  <1> QED
    BY <1>1, <1>2, <1>3, <1>4, <1>5, <1>6, <1>7 DEF Next, CancelledIsVoid, Verdict

\* The promise counts stakes as the program's books do.
LEMMA PromiseStakes ==
    ASSUME NEW S \in SUBSET Owners
    PROVE  Promise!StakeOf(S) = StakeOf(S)
  <1>1. Promise!StakeUnits(S) = StakeUnits(position, S)
    BY DEF Promise!StakeUnits, StakeUnits
  <1>2. \A T : Promise!Cardinality(T) = Cardinality(T)
    BY DEF Promise!Cardinality, Cardinality
  <1> QED
    BY <1>1, <1>2 DEF Promise!StakeOf, StakeOf, StakedBy

\* The promise counts the same backers.
LEMMA PromiseBackers ==
    ASSUME NEW side PROVE Promise!Backers(side) = Backers(side)
  BY DEF Promise!Backers, Backers

\* Nothing is promised before the pool exists.
LEMMA PromiseInit == Init => Promise!Init
  <1> SUFFICES ASSUME Init PROVE Promise!Init
    OBVIOUS
  <1>1. Verdict = "Undecided"
    BY DEF Init, Verdict
  <1>2. [o \in Owners |-> position[o].amount] = [o \in Owners |-> 0]
        /\ [o \in Owners |-> position[o].side] = [o \in Owners |-> None]
        /\ {o \in Owners : position[o].claimed \/ position[o].refunded} = {}
    BY DEF Init, NoPosition
  <1>3. [o \in Owners |-> Received(o)] = [o \in Owners |-> 0]
    <2>1. ASSUME NEW o \in Owners PROVE Received(o) = 0
      BY NumbersAssumption DEF Init, NoPosition, Received, Amounts
    <2> QED
      BY <2>1
  <1>4. pool.remainingPool = 0
    BY DEF Init
  <1> QED
    BY <1>1, <1>2, <1>3, <1>4 DEF Promise!Init, Promise!None, None

\* Nothing of the promise changes while no account of it does.
LEMMA PromiseStutters ==
    ASSUME UNCHANGED <<position, wallet, pool.remainingPool>>, Verdict' = Verdict
    PROVE  UNCHANGED Promise!promise
  <1>1. \A x \in Owners : Received(x)' = Received(x)
    BY DEF Received
  <1> QED
    BY <1>1 DEF Promise!promise

\* A stake is a deposit.
LEMMA PromiseJoin ==
    ASSUME Coherent, NEW o \in Owners, NEW side \in Sides, NEW amount \in Amounts,
           JoinPool(o, side, amount)
    PROVE  Promise!Deposit(o, side, amount)
  <1> DEFINE sides == [pool.sideAmount EXCEPT ![side] = @ + amount]
             remaining == pool.remainingPool + amount
             booked == position[o].amount + amount
             left == wallet[o] - amount
  <1>1. /\ pool.state = "Open" /\ position[o].side \in {None, side} /\ amount > 0
        /\ pool' = [pool EXCEPT !.sideAmount = sides, !.remainingPool = remaining]
        /\ position' = [position EXCEPT ![o].side = side, ![o].amount = booked]
        /\ wallet' = [wallet EXCEPT ![o] = left]
    BY DEF JoinPool, JoinAccepted, AcceptsDeposits
  <1>2. pool'.state = pool.state /\ pool'.remainingPool = remaining
    <2> HIDE DEF sides, remaining
    <2> QED
      BY <1>1 DEF Coherent, TypeOK, PoolAccounts
  <1>3. /\ position'[o].side = side /\ position'[o].amount = booked
        /\ wallet'[o] = left
        /\ \A x \in Owners \ {o} : position'[x] = position[x] /\ wallet'[x] = wallet[x]
        /\ \A x \in Owners : /\ position'[x].claimed = position[x].claimed
                             /\ position'[x].refunded = position[x].refunded
    <2> HIDE DEF booked, left
    <2> QED
      BY <1>1 DEF Coherent, TypeOK, PositionAccounts
  <1>4. Verdict = "Undecided" /\ Verdict' = "Undecided"
    BY <1>1, <1>2 DEF Verdict, Unresolved
  <1>5. ASSUME NEW x \in Owners
        PROVE  Received(x)' = Received(x)
    <2>1. /\ wallet[x] \in Int /\ position[x].amount \in Int /\ amount \in Int
          /\ Endowment[x] \in Int
      BY NumbersAssumption DEF Coherent, TypeOK, PositionAccounts, Amounts
    <2>2. CASE x = o
      BY <1>3, <2>1, <2>2 DEF Received
    <2>3. CASE x # o
      BY <1>3, <2>3 DEF Received
    <2> QED
      BY <2>2, <2>3
  <1>6. [x \in Owners |-> position'[x].amount] =
           [[x \in Owners |-> position[x].amount] EXCEPT ![o] = @ + amount]
        /\ [x \in Owners |-> position'[x].side] =
              [[x \in Owners |-> position[x].side] EXCEPT ![o] = side]
    BY <1>3
  <1>7. {x \in Owners : position'[x].claimed \/ position'[x].refunded} =
           {x \in Owners : position[x].claimed \/ position[x].refunded}
    BY <1>3
  <1>8. [x \in Owners |-> Received(x)'] = [x \in Owners |-> Received(x)]
    BY <1>5
  <1> QED
    BY <1>1, <1>2, <1>4, <1>6, <1>7, <1>8 DEF Promise!Deposit, Promise!None, None

\* Recording an outcome and cancelling are the verdict.
LEMMA PromiseOutcome ==
    ASSUME Coherent, NEW side \in Sides, NEW sequence \in Sequences,
           pool.state = "Locked", pool' = OutcomeRecorded(pool, side, sequence),
           UNCHANGED <<position, wallet>>
    PROVE  \E v \in Sides \cup {"Void"} : Promise!Decide(v)
  <1> DEFINE v == IF pool.sideAmount[side] > 0 THEN side ELSE "Void"
  <1>1. /\ Verdict = "Undecided" /\ Verdict' = v
        /\ pool'.remainingPool = pool.remainingPool
    BY OutcomeDecides
  <1>2. v \in Sides => Backers(v) # {}
    <2> SUFFICES ASSUME pool.sideAmount[side] > 0, Backers(side) = {}
                 PROVE  FALSE
      BY DEF Sides
    <2>1. pool.sideAmount[side] = StakedBy(position, {})
      BY DEF Coherent, BooksBalance, StakeOf
    <2> QED
      BY <2>1, StakedByNobody
  <1>3. \A x \in Owners : Received(x)' = Received(x)
    BY DEF Received
  <1>4. v \in Sides \cup {"Void"}
    OBVIOUS
  <1> HIDE DEF v
  <1>5. Promise!Decide(v)
    BY <1>1, <1>2, <1>3, PromiseBackers DEF Promise!Decide, Promise!Sides, Sides
  <1> QED
    BY <1>4, <1>5

\* A cancellation is the promise's decision for nobody.
LEMMA PromiseCancel ==
    ASSUME Coherent, NEW authority \in Callers, CancelPool(authority)
    PROVE  Promise!Decide("Void")
  <1>1. /\ Verdict = "Undecided" /\ Verdict' = "Void"
        /\ pool'.remainingPool = pool.remainingPool
        /\ UNCHANGED <<position, wallet>>
    BY CancelDecides DEF CancelPool
  <1>2. \A x \in Owners : Received(x)' = Received(x)
    BY <1>1 DEF Received
  <1> QED
    BY <1>1, <1>2 DEF Promise!Decide, Promise!Sides

\* A payment of n, claimed or refunded, pays one owner.
LEMMA PromisePayment ==
    ASSUME Coherent, NEW o \in Owners, NEW n \in Nat,
           Received(o) = 0,
           wallet'[o] = wallet[o] + n,
           pool'.remainingPool = pool.remainingPool - n,
           Verdict # "Undecided", Verdict' = Verdict,
           o \in Promise!Entitled, ~position[o].claimed, ~position[o].refunded,
           position'[o].claimed \/ position'[o].refunded,
           \A x \in Owners : /\ position'[x].side = position[x].side
                            /\ position'[x].amount = position[x].amount,
           \A x \in Owners \ {o} : position'[x] = position[x] /\ wallet'[x] = wallet[x],
           Promise!Owed(o, n)
    PROVE  n \in 0 .. MaxU64 /\ Promise!Pay(o, n)
  <1>1. n <= pool.remainingPool
    BY DEF Promise!Owed
  <1>2. n \in 0 .. MaxU64
    BY <1>1, NumbersAssumption DEF Coherent, TypeOK, PoolAccounts, Amounts
  <1>3. Received(o)' = n
    <2>1. /\ wallet[o] \in Int /\ position[o].amount \in Int /\ Endowment[o] \in Int
      BY NumbersAssumption DEF Coherent, TypeOK, PositionAccounts, Amounts
    <2>2. wallet[o] + position[o].amount - Endowment[o] = 0
      BY DEF Received
    <2>3. Received(o)' = wallet[o] + n + position[o].amount - Endowment[o]
      BY DEF Received
    <2> QED
      BY <2>1, <2>2, <2>3
  <1>4. \A x \in Owners \ {o} : Received(x)' = Received(x)
    BY DEF Received
  <1>5. [x \in Owners |-> Received(x)'] =
           [[x \in Owners |-> Received(x)] EXCEPT ![o] = n]
    BY <1>3, <1>4
  <1>6. {x \in Owners : position'[x].claimed \/ position'[x].refunded} =
           {x \in Owners : position[x].claimed \/ position[x].refunded} \cup {o}
    OBVIOUS
  <1>7. o \notin {x \in Owners : position[x].claimed \/ position[x].refunded}
    OBVIOUS
  <1> QED
    BY <1>2, <1>5, <1>6, <1>7 DEF Promise!Pay

\* A claim pays what the verdict owes, and the last one leaves nothing.
LEMMA PromiseClaim ==
    ASSUME IInv, PaidWhatIsOwed, NEW o \in Owners, Claim(o)
    PROVE  \E n \in 0 .. MaxU64 : Promise!Pay(o, n)
  <1> USE DEF IInv
  <1> DEFINE side == position[o].side
             a == position[o].amount
             n == Payout(pool, a)
             R == pool.remainingPool
             W == pool.remainingWinning
             winning == pool.sideAmount[side]
             paid == {x \in Owners : position[x].claimed \/ position[x].refunded}
  <1>1. /\ side \in Sides /\ pool.state = SettledFor(side) /\ pool.winningSide = side
        /\ a \in Nat /\ n \in Nat /\ winning \in Nat \ {0} /\ n <= R
        /\ Pot(pool) * a < (n + 1) * winning
    BY ClaimIsFair
  <1>2. Verdict = side /\ side # None /\ side \notin {"Undecided", "Void"}
    BY <1>1 DEF Verdict, SettledFor, Sides, Unresolved, None
  <1>3. Verdict' = Verdict
    BY <1>1, ClaimChanges, VerdictStays DEF SettledFor, Unresolved
  <1>4. o \in Promise!Entitled
    BY <1>2, PromiseBackers DEF Promise!Entitled, Backers
  <1>5. ~position[o].claimed /\ ~position[o].refunded /\ Received(o) = 0
    BY DEF Claim, ClaimAccepted, Claimable, PaidWhatIsOwed
  <1>6. ASSUME Promise!Entitled \subseteq paid \cup {o}
        PROVE  n = R
    <2>1. UnpaidBackers(side) \ {o} = {}
      <3>1. \A x \in Owners : ~position[x].refunded
        BY <1>1 DEF Coherent, StageCoherent, Unrefunded
      <3> QED
        BY <1>2, <1>6, <3>1, PromiseBackers DEF Promise!Entitled, UnpaidBackers, Backers
    <2>2. StakedBy(position, UnpaidBackers(side) \ {o}) = 0
      BY <2>1, StakedByNobody
    <2>3. W \in Nat
      BY ClaimIsFair
    <2> HIDE DEF a, n, R, W, side
    <2>4. 0 = W - a /\ (a = W => n = R)
      BY <1>1, <1>5, <2>2, WinnersPayout DEF a, n, R, W, side
    <2> QED
      BY <1>1, <2>3, <2>4
  <1>7. Promise!Owed(o, n)
    <2>1. Promise!StakeOf(Promise!Backers(Verdict)) = winning
      <3>1. Backers(side) \in SUBSET Owners
        BY DEF Backers
      <3> QED
        BY <1>1, <1>2, <3>1, PromiseStakes, PromiseBackers DEF Coherent, BooksBalance
    <2>2. Promise!StakeOf(Owners) = Pot(pool)
      BY PromiseStakes, PotIsAllStakes DEF Coherent
    <2>3. [x \in Owners |-> position[x].amount][o] = a
      OBVIOUS
    <2> HIDE DEF a, n, R, W, winning, side, paid
    <2>4. (n + 1) * Promise!StakeOf(Promise!Backers(Verdict)) >
             Promise!StakeOf(Owners) * [x \in Owners |-> position[x].amount][o]
      <3>1. (n + 1) * winning \in Int /\ Pot(pool) * a \in Int
        <4>1. \A i, j \in Int : i * j \in Int
          OBVIOUS
        <4>2. Pot(pool) \in Int
          BY ClaimIsFair
        <4>3. n + 1 \in Int /\ winning \in Int /\ a \in Int
          BY <1>1
        <4> QED
          BY <4>1, <4>2, <4>3
      <3>2. (n + 1) * winning > Pot(pool) * a
        BY <1>1, <3>1
      <3> QED
        BY <2>1, <2>2, <2>3, <3>2
    <2> QED
      BY <1>1, <1>2, <1>6, <2>4 DEF Promise!Owed, paid, R
  <1>8. /\ wallet'[o] = wallet[o] + n
        /\ pool'.remainingPool = R - n
        /\ position'[o].claimed
        /\ \A x \in Owners : /\ position'[x].side = position[x].side
                             /\ position'[x].amount = position[x].amount
        /\ \A x \in Owners \ {o} : position'[x] = position[x] /\ wallet'[x] = wallet[x]
    BY ClaimChanges
  <1>9. PICK m \in Nat : m = n
    BY <1>1
  <1> HIDE DEF n, R
  <1>10. m \in 0 .. MaxU64 /\ Promise!Pay(o, m)
    BY <1>1, <1>2, <1>3, <1>4, <1>5, <1>7, <1>8, <1>9, PromisePayment DEF R
  <1> QED
    BY <1>10

\* A refund pays the stake, and the last one leaves nothing.
LEMMA PromiseRefund ==
    ASSUME IInv, PaidWhatIsOwed, CancelledIsVoid, NEW o \in Owners, Refund(o)
    PROVE  \E n \in 0 .. MaxU64 : Promise!Pay(o, n)
  <1> USE DEF IInv
  <1> DEFINE a == position[o].amount
             R == pool.remainingPool
             paid == {x \in Owners : position[x].claimed \/ position[x].refunded}
             Rest == Unrefunded \ {o}
  <1>1. /\ pool.state = "Cancelled" /\ a > 0 /\ R >= a
        /\ ~position[o].claimed /\ ~position[o].refunded /\ Received(o) = 0
    BY DEF Refund, RefundAccepted, Refundable, PaidWhatIsOwed
  <1>2. a \in Nat /\ R \in Nat /\ position \in Positions
    BY NumbersAssumption
    DEF Coherent, TypeOK, PoolAccounts, PositionAccounts, Amounts, Positions
  <1>3. Verdict = "Void"
    BY <1>1 DEF CancelledIsVoid
  <1>4. Verdict' = Verdict
    BY RefundChanges, VerdictStays DEF Unresolved
  <1>5. o \in Promise!Entitled
    BY <1>1, <1>3 DEF Promise!Entitled, Promise!None, Coherent, PositionsCoherent, None
  <1>6. ASSUME Promise!Entitled \subseteq paid \cup {o}
        PROVE  a = R
    <2>1. \A x \in Owners : ~position[x].claimed
      BY <1>1 DEF Coherent, StageCoherent, Claimed
    <2>2. \A x \in Rest : position[x].side = None
      BY <1>3, <1>6, <2>1 DEF Promise!Entitled, Promise!None, Unrefunded, None
    <2>3. \A x \in Rest : position[x].amount = 0
      BY <2>2 DEF Coherent, PositionsCoherent, Unrefunded
    <2>4. StakedBy(position, Rest) = 0
      BY <2>3, StakedByUnstaked
    <2>5. R = StakedBy(position, Unrefunded)
      BY <1>1 DEF Coherent, BooksBalance, StakeOf
    <2>6. Unrefunded \in SUBSET Owners /\ o \in Unrefunded
      BY <1>1 DEF Unrefunded
    <2>7. StakedBy(position, Unrefunded) = StakedBy(position, Rest) + a
      BY <1>2, <2>6, StakedWithout
    <2> QED
      BY <1>2, <2>4, <2>5, <2>7
  <1>7. Promise!Owed(o, a)
    BY <1>1, <1>3, <1>6 DEF Promise!Owed, Promise!Sides
  <1>8. /\ wallet'[o] = wallet[o] + a
        /\ pool'.remainingPool = R - a
        /\ position'[o].refunded
        /\ \A x \in Owners : /\ position'[x].side = position[x].side
                             /\ position'[x].amount = position[x].amount
        /\ \A x \in Owners \ {o} : position'[x] = position[x] /\ wallet'[x] = wallet[x]
    BY RefundChanges
  <1>9. PICK n \in Nat : n = a
    BY <1>2
  <1> HIDE DEF a, R
  <1>10. n \in 0 .. MaxU64 /\ Promise!Pay(o, n)
    BY <1>1, <1>2, <1>3, <1>4, <1>5, <1>7, <1>8, <1>9, PromisePayment DEF R
  <1> QED
    BY <1>10

\* Every instruction is a step of the promise or invisible to it.
LEMMA PromiseStep ==
    ASSUME IInv, PaidWhatIsOwed, CancelledIsVoid, [Next]_vars
    PROVE  Promise!Next \/ UNCHANGED Promise!promise
  <1> USE DEF IInv
  <1>1. ASSUME NEW o \in Owners, NEW side \in Sides, NEW amount \in Amounts,
               JoinPool(o, side, amount)
        PROVE  Promise!Next
    <2>1. amount \in 1 .. MaxU64 /\ side \in Promise!Sides
      BY <1>1, NumbersAssumption DEF JoinPool, JoinAccepted, Amounts, Sides, Promise!Sides
    <2> QED
      BY <1>1, <2>1, PromiseJoin DEF Promise!Next
  <1>2. ASSUME NEW side \in Sides, NEW sequence \in Sequences,
               RecordDemoOutcome(side, sequence) \/ SettlePool(side, sequence)
        PROVE  Promise!Next
    <2>1. \E v \in Sides \cup {"Void"} : Promise!Decide(v)
      BY <1>2, PromiseOutcome DEF RecordDemoOutcome, SettlePool, AcceptsOutcome
    <2> QED
      BY <2>1 DEF Promise!Next, Promise!Sides, Sides
  <1>3. ASSUME NEW authority \in Callers, CancelPool(authority)
        PROVE  Promise!Next
    BY <1>3, PromiseCancel DEF Promise!Next
  <1>4. ASSUME NEW o \in Owners, Claim(o) \/ Refund(o)
        PROVE  Promise!Next
    BY <1>4, PromiseClaim, PromiseRefund DEF Promise!Next
  <1>5. ASSUME NEW cutoff \in Timestamps, NEW refundAfter \in Timestamps,
               NEW demoMode \in BOOLEAN, CreatePool(cutoff, refundAfter, demoMode)
        PROVE  UNCHANGED Promise!promise
    <2>1. Verdict = "Undecided" /\ Verdict' = "Undecided"
          /\ pool'.remainingPool = pool.remainingPool
      BY <1>5 DEF CreatePool, Verdict, Unresolved, Coherent, TypeOK, PoolAccounts
    <2> QED
      BY <1>5, <2>1, PromiseStutters DEF CreatePool
  <1>6. ASSUME LockPool
        PROVE  UNCHANGED Promise!promise
    <2>1. Verdict = "Undecided" /\ Verdict' = "Undecided"
          /\ pool'.remainingPool = pool.remainingPool
      BY <1>6 DEF LockPool, Verdict, Unresolved, Coherent, TypeOK, PoolAccounts
    <2> QED
      BY <1>6, <2>1, PromiseStutters DEF LockPool
  <1>7. ASSUME Tick \/ (\E gift \in Gifts : DirectTransfer(gift)) \/ UNCHANGED vars
        PROVE  UNCHANGED Promise!promise
    <2>1. UNCHANGED <<pool, position, wallet>>
      BY <1>7 DEF Tick, DirectTransfer, vars
    <2>2. Verdict' = Verdict
      BY <2>1 DEF Verdict
    <2> QED
      BY <2>1, <2>2, PromiseStutters
  <1> QED
    BY <1>1, <1>2, <1>3, <1>4, <1>5, <1>6, <1>7 DEF Next

\* The program implements EscrowPromise: whatever it does, seen through its
\* accounts, is a deposit, the one verdict, a payment of what that verdict
\* owes to somebody it entitles and has not paid, or invisible.
THEOREM KeepsThePromise == Spec => ImplementsPromise
  <1>1. Init => CancelledIsVoid
    BY DEF Init, CancelledIsVoid
  <1>2. IInv /\ PaidWhatIsOwed /\ CancelledIsVoid /\ [Next]_vars =>
           [Promise!Next]_(Promise!promise)
    BY PromiseStep
  <1> QED
    BY <1>1, <1>2, PromiseInit, CancelledIsVoidInduction, Invariant, PaysWhatIsOwed, PTL
    DEF Spec, ImplementsPromise, Promise!Spec
=============================================================================
