-------------------------- MODULE ScoreStreamProofs --------------------------
(***************************************************************************)
(* Proofs about ScoreStream: for any number of fixtures, any limit of the    *)
(* buffers, any start and any order of events, repetitions, reconnects and   *)
(* aborts, the consumer has the sequences of a fixture in order and once,    *)
(* and misses none that was not reported as a gap.                           *)
(***************************************************************************)
EXTENDS ScoreStream, SequenceTheorems, FiniteSetTheorems, WellFoundedInduction, TLAPS

-----------------------------------------------------------------------------
(* The operators of ScoreSequenceTracker.push                              *)

\* A set of naturals that has a member has a least one.
LEMMA LeastOfNaturals ==
    ASSUME NEW S \in SUBSET Nat, S # {}
    PROVE  /\ Least(S) \in S
           /\ \A n \in S : Least(S) <= n
<1> DEFINE Before == OpToRel(<, Nat)
<1>1. \A m, n \in Nat : n < m => <<n, m>> \in Before
    BY Zenon DEF OpToRel
<1>2. IsWellFoundedOn(Before, Nat)
    BY NatLessThanWellFounded, Zenon
<1> HIDE DEF Before
<1>3. PICK m \in S : \A n \in S : ~(<<n, m>> \in Before)
    BY <1>2, WFMin
<1>4. \A n \in S : m <= n
    <2> TAKE n \in S
    <2>1. m \in Nat /\ n \in Nat
        OBVIOUS
    <2>2. ~(n < m)
        BY <1>1, <1>3, <2>1, Zenon
    <2> QED
        BY <2>1, <2>2
<1> QED
    BY <1>4 DEF Least

\* The run of held numbers after `last` has an end: beyond the highest number
\* there is none.
LEMMA ReachIsTheEnd ==
    ASSUME NEW last \in Nat,
           NEW held \in SUBSET SequenceNumbers,
           \A n \in held : n >= last
    PROVE  LET m == Reach(last, held) IN
           /\ m \in held \cup {last}
           /\ \A n \in last + 1 .. m : n \in held
           /\ m + 1 \notin held
           /\ m \in Nat /\ m >= last
<1> DEFINE Ends == {m \in Nat : m >= last /\ m + 1 \notin held}
<1>1. held \subseteq Nat /\ MaxSequence \in Nat
    BY LimitsAssumption DEF SequenceNumbers
<1>2. last + MaxSequence \in Ends
    BY <1>1 DEF SequenceNumbers
<1> DEFINE m == Least(Ends)
<1>3. m \in Ends /\ \A n \in Ends : m <= n
    <2> HIDE DEF m
    <2>1. Ends \in SUBSET Nat /\ Ends # {}
        BY <1>2
    <2> HIDE DEF Ends
    <2> QED
        BY <2>1, LeastOfNaturals DEF m
<1>4. \A n \in last + 1 .. m : n \in held
    <2> HIDE DEF m
    <2> TAKE n \in last + 1 .. m
    <2>1. n - 1 \in Nat /\ n - 1 >= last /\ n - 1 < m
        BY <1>3
    <2>2. n - 1 \notin Ends
        BY <1>3, <2>1
    <2> QED
        BY <2>1, <2>2
<1>5. m \in held \cup {last}
    <2> HIDE DEF m
    <2>1. CASE m = last
        BY <2>1
    <2>2. CASE m # last
        <3>1. m \in last + 1 .. m
            BY <2>2, <1>3
        <3> QED
            BY <3>1, <1>4
    <2> QED
        BY <2>1, <2>2
<1>6. \E e \in held \cup {last} :
         (\A n \in last + 1 .. e : n \in held) /\ e + 1 \notin held
    <2> HIDE DEF m
    <2> QED
        BY <1>3, <1>4, <1>5
<1> DEFINE e == Reach(last, held)
<1>7. e \in held \cup {last} /\ (\A n \in last + 1 .. e : n \in held) /\ e + 1 \notin held
    BY <1>6 DEF Reach
<1> HIDE DEF e
<1>8. e \in Nat /\ e >= last
    BY <1>1, <1>7
<1> QED
    BY <1>7, <1>8 DEF e

\* Run(lo, hi) is the numbers from lo to hi, in order.
LEMMA RunIsInOrder ==
    ASSUME NEW lo \in Nat \ {0}, NEW hi \in Nat, hi >= lo - 1,
           \A n \in lo .. hi : n \in SequenceNumbers
    PROVE  /\ Run(lo, hi) \in Seq(SequenceNumbers)
           /\ Len(Run(lo, hi)) = hi - lo + 1
           /\ \A i \in 1 .. hi - lo + 1 : Run(lo, hi)[i] = lo + i - 1
<1> DEFINE n == hi - lo + 1
<1>1. n \in Nat
    OBVIOUS
<1>2. \A i \in 1 .. n : lo + i - 1 \in SequenceNumbers
    OBVIOUS
<1>3. Run(lo, hi) = [i \in 1 .. n |-> lo + i - 1]
    BY DEF Run
<1> HIDE DEF n
<1>4. Run(lo, hi) \in [1 .. n -> SequenceNumbers]
    BY <1>2, <1>3
<1>5. Run(lo, hi) \in Seq(SequenceNumbers)
    BY <1>1, <1>4
<1>6. Len(Run(lo, hi)) = n
    BY <1>1, <1>3, <1>4
<1> QED
    BY <1>3, <1>5, <1>6 DEF n

FixtureStates == [last : Nat \cup {Unset}, pending : SUBSET SequenceNumbers]

\* A tracker state within its limit that holds nothing it should have let out.
SoundState(t) ==
    /\ t \in FixtureStates
    /\ Cardinality(t.pending) <= MaxPending
    /\ \A n \in t.pending : n > t.last

\* What a push owes to the state it was made in: numbers above its last, in
\* order, up to the new last, and without a gap one after the other.
SoundPush(t, pushed) ==
    /\ pushed.last \in Nat \cup {Unset}
    /\ pushed.pending \in SUBSET SequenceNumbers
    /\ Cardinality(pushed.pending) <= MaxPending
    /\ \A n \in pushed.pending : n > pushed.last
    /\ pushed.numbers \in Seq(SequenceNumbers)
    /\ pushed.last = IF pushed.numbers = <<>> THEN t.last ELSE pushed.numbers[Len(pushed.numbers)]
    /\ \A i, j \in 1 .. Len(pushed.numbers) : i < j => pushed.numbers[i] < pushed.numbers[j]
    /\ \A i \in 1 .. Len(pushed.numbers) : pushed.numbers[i] > t.last
    /\ ~pushed.gap =>
          \A i \in 1 .. Len(pushed.numbers) :
             /\ pushed.numbers[i] = pushed.numbers[1] + i - 1
             /\ t.last # Unset => pushed.numbers[i] = t.last + i

\* A set of sequence numbers is finite.
LEMMA NumbersAreFinite ==
    ASSUME NEW S \in SUBSET SequenceNumbers
    PROVE  IsFiniteSet(S) /\ Cardinality(S) \in Nat
<1>1. IsFiniteSet(SequenceNumbers)
    BY FS_Interval, LimitsAssumption DEF SequenceNumbers
<1> QED
    BY <1>1, FS_Subset, FS_CardinalityType

\* What is kept has no more members than what was held, and less when the
\* least was let out.
LEMMA AboveIsSmaller ==
    ASSUME NEW S \in SUBSET SequenceNumbers, NEW n \in Nat
    PROVE  /\ Above(S, n) \in SUBSET SequenceNumbers
           /\ Cardinality(Above(S, n)) <= Cardinality(S)
           /\ \A m \in S : m <= n => Cardinality(Above(S, n)) < Cardinality(S)
<1>1. Above(S, n) \in SUBSET S
    BY DEF Above
<1>2. Cardinality(Above(S, n)) <= Cardinality(S)
    BY <1>1, FS_Subset, NumbersAreFinite
<1>3. ASSUME NEW m \in S, m <= n
      PROVE  Cardinality(Above(S, n)) < Cardinality(S)
    <2>1. m \notin Above(S, n)
        BY <1>3 DEF Above, SequenceNumbers
    <2>2. Above(S, n) # S
        BY <2>1
    <2>3. Cardinality(Above(S, n)) # Cardinality(S)
        BY <1>1, <2>2, FS_Subset, NumbersAreFinite
    <2> QED
        BY <1>1, <1>2, <2>3, NumbersAreFinite
<1> QED
    BY <1>1, <1>2, <1>3

\* A number that is no duplicate lets out the run it completes, and when too
\* much is held the run after the gap.
LEMMA PushedIsSound ==
    ASSUME NEW t, SoundState(t), t.last # Unset,
           NEW n \in SequenceNumbers, ~IsDuplicate(t, n)
    PROVE  SoundPush(t, Pushed(t, n))
<1> DEFINE last == t.last
           held == t.pending \cup {n}
           upTo == Reach(last, held)
           rest == Above(held, upTo)
           first == Run(last + 1, upTo)
<1>1. /\ last \in Nat
      /\ held \in SUBSET SequenceNumbers
      /\ \A m \in held : m > last
      /\ SequenceNumbers \subseteq Nat \ {0}
    BY DEF SoundState, FixtureStates, IsDuplicate, SequenceNumbers, Unset
<1>2. Cardinality(held) <= MaxPending + 1
    <2>1. t.pending \in SUBSET SequenceNumbers
        BY DEF SoundState, FixtureStates
    <2>2. IsFiniteSet(t.pending) /\ Cardinality(t.pending) \in Nat
        BY <2>1, NumbersAreFinite
    <2>3. Cardinality(held) = IF n \in t.pending THEN Cardinality(t.pending)
                                                 ELSE Cardinality(t.pending) + 1
        BY <2>2, FS_AddElement
    <2>4. Cardinality(t.pending) <= MaxPending
        BY DEF SoundState
    <2> HIDE DEF held
    <2> QED
        BY <2>2, <2>3, <2>4, LimitsAssumption
<1>3. Pushed(t, n) = IF Overflows(rest)
                     THEN [Flushed(rest) EXCEPT !.numbers = first \o @]
                     ELSE [last |-> upTo, pending |-> rest, numbers |-> first, gap |-> FALSE]
    BY DEF Pushed
<1>u. t.last = last
    OBVIOUS
<1> HIDE DEF held, last
<1>4. /\ upTo \in Nat /\ upTo >= last
      /\ \A m \in last + 1 .. upTo : m \in held
      /\ upTo = last \/ upTo \in held
    BY <1>1, ReachIsTheEnd
<1> HIDE DEF upTo
<1>5. /\ rest \in SUBSET SequenceNumbers
      /\ Cardinality(rest) <= Cardinality(held)
      /\ \A m \in rest : m > upTo
    BY <1>1, <1>4, AboveIsSmaller DEF Above
<1> HIDE DEF rest
<1>6. /\ first \in Seq(SequenceNumbers)
      /\ Len(first) = upTo - last
      /\ \A i \in 1 .. Len(first) : first[i] = last + i
    <2> DEFINE lo == last + 1
    <2>1. /\ lo \in Nat \ {0}
          /\ upTo >= lo - 1
          /\ \A m \in lo .. upTo : m \in SequenceNumbers
        BY <1>1, <1>4
    <2>2. first = Run(lo, upTo)
        OBVIOUS
    <2>l. lo = last + 1
        OBVIOUS
    <2> HIDE DEF lo, first
    <2>3. /\ first \in Seq(SequenceNumbers)
          /\ Len(first) = upTo - lo + 1
          /\ \A i \in 1 .. upTo - lo + 1 : first[i] = lo + i - 1
        BY <1>4, <2>1, <2>2, RunIsInOrder
    <2>4. Len(first) = upTo - last
        BY <1>1, <1>4, <2>3, <2>l
    <2>5. ASSUME NEW i \in 1 .. Len(first) PROVE first[i] = last + i
        <3>1. i \in 1 .. upTo - lo + 1
            BY <2>3
        <3>2. first[i] = lo + i - 1
            BY <2>3, <3>1
        <3> QED
            BY <1>1, <2>l, <3>2
    <2> QED
        BY <2>3, <2>4, <2>5
<1> HIDE DEF first
<1>7. CASE ~Overflows(rest)
    <2> DEFINE p == Pushed(t, n)
    <2>1. p.last = upTo /\ p.pending = rest /\ p.numbers = first /\ p.gap = FALSE
        BY <1>3, <1>7
    <2> HIDE DEF p
    <2>2. Cardinality(rest) <= MaxPending
        BY <1>5, <1>7, NumbersAreFinite, LimitsAssumption DEF Overflows
    <2>3. first = <<>> => upTo = last
        BY <1>1, <1>4, <1>6
    <2>4. first # <<>> => Len(first) >= 1 /\ first[Len(first)] = upTo
        <3>1. ASSUME first # <<>>
              PROVE  Len(first) \in Nat \ {0}
            BY <3>1, <1>6, EmptySeq
        <3> QED
            BY <3>1, <1>1, <1>4, <1>6
    <2> QED
        <3>1. /\ \A i, j \in 1 .. Len(first) : i < j => first[i] < first[j]
              /\ \A i \in 1 .. Len(first) : first[i] > last /\ first[i] = first[1] + i - 1
            BY <1>1, <1>4, <1>6
        <3>2. p.last = IF p.numbers = <<>> THEN t.last ELSE p.numbers[Len(p.numbers)]
            BY <1>u, <2>1, <2>3, <2>4
        <3> QED
            BY <1>u, <1>4, <1>5, <1>6, <2>1, <2>2, <3>1, <3>2 DEF SoundPush, p
<1>8. CASE Overflows(rest)
    <2> DEFINE low == Least(rest)
               end == Reach(low, rest)
               second == Run(low, end)
               kept == Above(rest, end)
               p == Pushed(t, n)
    <2>1. rest # {}
        BY <1>8, FS_EmptySet, LimitsAssumption DEF Overflows
    <2>2. low \in rest /\ \A m \in rest : m >= low
        <3>1. rest \in SUBSET Nat
            BY <1>1, <1>5
        <3>2. low \in rest /\ \A m \in rest : low <= m
            BY <2>1, <3>1, LeastOfNaturals
        <3> HIDE DEF low
        <3> QED
            BY <3>1, <3>2
    <2> HIDE DEF low
    <2>3. /\ end \in Nat /\ end >= low
          /\ \A m \in low + 1 .. end : m \in rest
        BY <1>1, <1>5, <2>2, ReachIsTheEnd
    <2>4. p.last = end /\ p.pending = kept /\ p.numbers = first \o second /\ p.gap = TRUE
        BY <1>3, <1>8 DEF Flushed, low
    <2> HIDE DEF p, end
    <2>5. low \in Nat \ {0} /\ low > upTo
        BY <1>1, <1>5, <2>2
    <2>6. \A m \in low .. end : m \in SequenceNumbers
        BY <1>5, <2>2, <2>3, <2>5
    <2>7. /\ second \in Seq(SequenceNumbers)
          /\ Len(second) = end - low + 1
          /\ \A i \in 1 .. end - low + 1 : second[i] = low + i - 1
        BY <2>3, <2>5, <2>6, RunIsInOrder
    <2>8. /\ kept \in SUBSET SequenceNumbers
          /\ Cardinality(kept) < Cardinality(rest)
          /\ \A m \in kept : m > end
        BY <1>5, <2>2, <2>3, AboveIsSmaller DEF Above
    <2> HIDE DEF second, kept
    <2>9. Cardinality(kept) <= MaxPending
        BY <1>1, <1>2, <1>5, <2>8, NumbersAreFinite, LimitsAssumption
    <2> DEFINE a == Len(first)
               b == Len(second)
               all == first \o second
    <2>10. a \in Nat /\ b \in Nat \ {0} /\ b = end - low + 1 /\ a = upTo - last
        BY <1>1, <1>4, <1>6, <2>3, <2>5, <2>7
    <2>11. /\ all \in Seq(SequenceNumbers)
           /\ Len(all) = a + b
           /\ \A i \in 1 .. a + b : all[i] = IF i <= a THEN first[i] ELSE second[i - a]
        BY <1>6, <2>7, ConcatProperties
    <2> HIDE DEF a, b, all
    <2>12. \A i \in 1 .. a + b : all[i] = IF i <= a THEN last + i ELSE low + (i - a) - 1
        BY <1>6, <2>7, <2>10, <2>11 DEF a, b
    <2>ty. last \in Nat /\ upTo \in Nat /\ low \in Nat /\ end \in Nat
        BY <1>1, <1>4, <2>3, <2>5
    <2>13. all # <<>> /\ all[Len(all)] = end
        <3>1. PICK e \in Nat \ {0} : e = a + b
            BY <2>10
        <3>2. all # <<>> /\ Len(all) = e
            BY <2>11, <3>1
        <3>4. e \in 1 .. a + b /\ ~(e <= a) /\ e - a = b
            BY <2>10, <3>1
        <3>3. all[e] = low + (e - a) - 1
            BY <2>12, <3>4
        <3> QED
            BY <2>ty, <2>10, <3>2, <3>3, <3>4
    <2>14. \A i, j \in 1 .. Len(all) : i < j => all[i] < all[j]
        <3> TAKE i, j \in 1 .. Len(all)
        <3> HAVE i < j
        <3>1. i \in 1 .. a + b /\ j \in 1 .. a + b /\ i \in Nat /\ j \in Nat
            BY <2>10, <2>11
        <3>2. all[i] = IF i <= a THEN last + i ELSE low + (i - a) - 1
            BY <3>1, <2>12
        <3>3. all[j] = IF j <= a THEN last + j ELSE low + (j - a) - 1
            BY <3>1, <2>12
        <3> QED
            BY <2>ty, <2>5, <2>10, <3>1, <3>2, <3>3
    <2>15. \A i \in 1 .. Len(all) : all[i] > last
        <3> TAKE i \in 1 .. Len(all)
        <3>1. i \in 1 .. a + b /\ i \in Nat /\ i >= 1
            BY <2>10, <2>11
        <3>2. all[i] = IF i <= a THEN last + i ELSE low + (i - a) - 1
            BY <3>1, <2>12
        <3> QED
            BY <2>ty, <1>4, <2>5, <2>10, <3>1, <3>2
    <2>16. p.numbers = all
        BY <2>4 DEF all
    <2> QED
        BY <1>u, <1>1, <2>3, <2>4, <2>8, <2>9, <2>11, <2>13, <2>14, <2>15, <2>16 DEF SoundPush, p
<1> QED
    BY <1>7, <1>8

\* Pushing a record to a sound tracker gives what the push promises.
LEMMA PushIsSound ==
    ASSUME NEW t, SoundState(t), NEW n \in SequenceNumbers
    PROVE  SoundPush(t, Push(t, n))
<1> DEFINE p == Push(t, n)
<1>1. n \in Nat /\ n > Unset /\ n # Unset
    BY DEF SequenceNumbers, Unset
<1>2. CASE t.last = Unset
    <2>1. p.last = n /\ p.pending = {} /\ p.numbers = <<n>> /\ p.gap = FALSE
        BY <1>2 DEF Push
    <2>2. Cardinality({}) = 0
        BY FS_EmptySet
    <2>3. <<n>> \in Seq(SequenceNumbers) /\ Len(<<n>>) = 1 /\ <<n>>[1] = n /\ <<n>> # <<>>
        OBVIOUS
    <2> HIDE DEF p
    <2> QED
        BY <1>1, <1>2, <2>1, <2>2, <2>3, LimitsAssumption DEF SoundPush, p
<1>3. CASE t.last # Unset /\ IsDuplicate(t, n)
    <2>1. p.last = t.last /\ p.pending = t.pending /\ p.numbers = <<>> /\ p.gap = FALSE
        BY <1>3 DEF Push
    <2>2. <<>> \in Seq(SequenceNumbers) /\ Len(<<>>) = 0
        OBVIOUS
    <2> HIDE DEF p
    <2> QED
        BY <1>3, <2>1, <2>2 DEF SoundPush, SoundState, FixtureStates, p
<1>4. CASE t.last # Unset /\ ~IsDuplicate(t, n)
    BY <1>4, PushedIsSound DEF Push
<1> QED
    BY <1>2, <1>3, <1>4

-----------------------------------------------------------------------------
(* What the invariant says of the log, the trackers and what is in hand     *)

\* Watched events have a known fixture and a sequence number.
LEMMA EventsAreKnown ==
    ASSUME TypeOK, NEW i \in 1 .. Len(log), IsWatched(log[i])
    PROVE  log[i].fixture \in Fixtures /\ log[i].sequence \in SequenceNumbers
<1>1. log[i] \in Records \cup {Malformed}
    BY ElementOfSeq DEF TypeOK
<1>2. log[i] # Malformed
    BY FixturesAssumption DEF IsWatched, Malformed
<1> QED
    BY <1>1, <1>2 DEF Records

\* The invariant says that every tracker is sound.
LEMMA TrackersAreSound ==
    ASSUME IInv, NEW f \in Fixtures
    PROVE  SoundState(tracker[f])
BY DEF IInv, TypeOK, BuffersAreBounded, TrackerFollows, SoundState, FixtureStates

\* The sequences of the outbox are a sequence of their own.
LEMMA WaitingSequences ==
    ASSUME NEW o \in Seq(Records)
    PROVE  LET w == [i \in DOMAIN o |-> o[i].sequence] IN
           /\ w \in Seq(SequenceNumbers)
           /\ Len(w) = Len(o)
           /\ \A i \in 1 .. Len(o) : w[i] = o[i].sequence
<1> DEFINE w == [i \in DOMAIN o |-> o[i].sequence]
           n == Len(o)
<1>1. n \in Nat /\ DOMAIN o = 1 .. n /\ \A i \in 1 .. n : o[i] \in Records
    BY LenProperties, ElementOfSeq
<1>2. w = [i \in 1 .. n |-> o[i].sequence]
    BY <1>1
<1> HIDE DEF n, w
<1>3. w \in [1 .. n -> SequenceNumbers]
    BY <1>1, <1>2 DEF Records
<1>4. w \in Seq(SequenceNumbers) /\ Len(w) = n
    BY <1>1, <1>2, <1>3
<1> QED
    BY <1>2, <1>4 DEF n, w

\* The outbox made of the numbers of a push is a sequence of records.
LEMMA OutboxOf ==
    ASSUME NEW f \in Fixtures, NEW s \in Seq(SequenceNumbers)
    PROVE  LET o == [i \in DOMAIN s |-> [fixture |-> f, sequence |-> s[i]]] IN
           /\ o \in Seq(Records)
           /\ Len(o) = Len(s)
           /\ \A i \in 1 .. Len(s) : o[i].fixture = f /\ o[i].sequence = s[i]
           /\ o = <<>> <=> s = <<>>
           /\ [i \in DOMAIN o |-> o[i].sequence] = s
<1> DEFINE o == [i \in DOMAIN s |-> [fixture |-> f, sequence |-> s[i]]]
           n == Len(s)
           w == [i \in DOMAIN o |-> o[i].sequence]
<1>1. n \in Nat /\ DOMAIN s = 1 .. n /\ \A i \in 1 .. n : s[i] \in SequenceNumbers
    BY LenProperties, ElementOfSeq
<1>2. o = [i \in 1 .. n |-> [fixture |-> f, sequence |-> s[i]]]
    BY <1>1
<1>n. n = Len(s)
    OBVIOUS
<1> HIDE DEF n, o
<1>3. o \in [1 .. n -> Records]
    BY <1>1, <1>2 DEF Records
<1>4. o \in Seq(Records) /\ Len(o) = n
    BY <1>1, <1>2, <1>3
<1>5. o = <<>> <=> s = <<>>
    BY <1>4, <1>n, EmptySeq
<1>6. \A i \in 1 .. n : o[i].fixture = f /\ o[i].sequence = s[i]
    BY <1>2
<1>7. /\ w \in Seq(SequenceNumbers)
      /\ Len(w) = n
      /\ \A i \in 1 .. n : w[i] = s[i]
    BY <1>4, <1>6, WaitingSequences
<1>8. w = s
    <2> HIDE DEF w
    <2> QED
        BY <1>7, <1>n, SeqEqual
<1> QED
    BY <1>4, <1>5, <1>6, <1>8 DEF n, o

\* What is delivered or about to be is a list of sequence numbers.
LEMMA InHandType ==
    ASSUME TypeOK, NEW f \in Fixtures
    PROVE  /\ InHand(f) \in Seq(SequenceNumbers)
           /\ outbox = <<>> => InHand(f) = delivered[f]
<1> DEFINE w == [i \in DOMAIN outbox |-> outbox[i].sequence]
           rest == IF outbox # <<>> /\ outbox[1].fixture = f THEN w ELSE <<>>
<1>1. w \in Seq(SequenceNumbers)
    BY WaitingSequences DEF TypeOK
<1> HIDE DEF w
<1>2. rest \in Seq(SequenceNumbers) /\ (outbox = <<>> => rest = <<>>)
    BY <1>1
<1>3. InHand(f) = delivered[f] \o rest
    BY DEF InHand, w
<1>4. delivered[f] \in Seq(SequenceNumbers)
    BY DEF TypeOK
<1> HIDE DEF rest
<1> QED
    BY <1>2, <1>3, <1>4, ConcatProperties, ConcatEmptySeq

\* Yielding a record only moves it: what is in hand stays the same.
LEMMA YieldKeepsInHand ==
    ASSUME IInv, Yield, TypeOK', NEW f \in Fixtures
    PROVE  InHand(f)' = InHand(f)
<1> DEFINE d == delivered[f]
           w == [i \in DOMAIN outbox |-> outbox[i].sequence]
           o == Tail(outbox)
           v == [i \in DOMAIN o |-> o[i].sequence]
<1>1. /\ outbox \in Seq(Records) /\ outbox # <<>>
      /\ \A i \in 1 .. Len(outbox) : outbox[i].fixture = outbox[1].fixture
      /\ d \in Seq(SequenceNumbers)
      /\ delivered \in [Fixtures -> Seq(SequenceNumbers)]
    BY LenProperties DEF IInv, TypeOK, OutboxIsOnePush, Yield
<1>2. /\ outbox' = o
      /\ delivered' = [delivered EXCEPT ![outbox[1].fixture] = Append(@, outbox[1].sequence)]
    <2>1. Head(outbox) = outbox[1]
        BY <1>1
    <2> QED
        BY <2>1 DEF Yield
<1>3. /\ Len(outbox) \in Nat \ {0}
      /\ o \in Seq(Records)
      /\ Len(o) = Len(outbox) - 1
      /\ \A i \in 1 .. Len(o) : o[i] = outbox[i + 1]
      /\ outbox[1] \in Records
    BY <1>1, HeadTailProperties, EmptySeq, ElementOfSeq
<1>4. /\ w \in Seq(SequenceNumbers)
      /\ Len(w) = Len(outbox)
      /\ \A i \in 1 .. Len(outbox) : w[i] = outbox[i].sequence
    BY <1>1, WaitingSequences
<1>5. /\ v \in Seq(SequenceNumbers)
      /\ Len(v) = Len(o)
      /\ \A i \in 1 .. Len(o) : v[i] = o[i].sequence
    BY <1>3, WaitingSequences
<1>6. /\ InHand(f) = d \o (IF outbox[1].fixture = f THEN w ELSE <<>>)
      /\ InHand(f)' = delivered'[f] \o (IF o # <<>> /\ o[1].fixture = f THEN v ELSE <<>>)
    BY <1>1, <1>2 DEF InHand
<1>o. o # <<>> => o[1].fixture = outbox[1].fixture
    BY <1>1, <1>3, EmptySeq
<1>e. o = <<>> => v = <<>>
    BY <1>3, <1>5, EmptySeq
<1> HIDE DEF w, v, o, d
<1>7. CASE outbox[1].fixture = f
    <2>1. /\ InHand(f) = d \o w
          /\ InHand(f)' = Append(d, outbox[1].sequence) \o v
        <3>1. o # <<>> => InHand(f)' = delivered'[f] \o v
            BY <1>6, <1>7, <1>o
        <3>2. o = <<>> => InHand(f)' = delivered'[f] \o v
            BY <1>6, <1>e
        <3>3. delivered'[f] = Append(d, outbox[1].sequence)
            BY <1>1, <1>2, <1>7 DEF d
        <3> QED
            BY <1>6, <1>7, <3>1, <3>2, <3>3
    <2> DEFINE c == Append(d, outbox[1].sequence)
    <2>2. /\ c \in Seq(SequenceNumbers)
          /\ Len(c) = Len(d) + 1
          /\ \A i \in 1 .. Len(d) : c[i] = d[i]
          /\ c[Len(d) + 1] = w[1]
        BY <1>1, <1>3, <1>4 DEF Records
    <2>3. /\ d \o w \in Seq(SequenceNumbers)
          /\ Len(d \o w) = Len(d) + Len(w)
          /\ \A i \in 1 .. Len(d) + Len(w) :
                (d \o w)[i] = IF i <= Len(d) THEN d[i] ELSE w[i - Len(d)]
        <3>1. d \in Seq(SequenceNumbers) /\ w \in Seq(SequenceNumbers)
            BY <1>1, <1>4
        <3> QED
            BY <3>1, ConcatProperties
    <2> HIDE DEF c
    <2>4. /\ c \o v \in Seq(SequenceNumbers)
          /\ Len(c \o v) = Len(c) + Len(v)
          /\ \A i \in 1 .. Len(c) + Len(v) :
                (c \o v)[i] = IF i <= Len(c) THEN c[i] ELSE v[i - Len(c)]
        BY <1>5, <2>2, ConcatProperties
    <2>5. Len(d) \in Nat /\ Len(v) \in Nat /\ Len(w) = Len(v) + 1
        BY <1>1, <1>3, <1>4, <1>5, LenProperties
    <2>6. Len(c \o v) = Len(d \o w)
        BY <2>2, <2>3, <2>4, <2>5
    <2>7. \A i \in 1 .. Len(v) : v[i] = w[i + 1]
        BY <1>3, <1>4, <1>5, SMTT(30)
    <2>8. ASSUME NEW i \in 1 .. Len(c \o v)
          PROVE  (c \o v)[i] = (d \o w)[i]
        <3>1. i \in 1 .. Len(c) + Len(v) /\ i \in 1 .. Len(d) + Len(w) /\ i \in Nat
            BY <2>2, <2>4, <2>5
        <3>2. (c \o v)[i] = IF i <= Len(c) THEN c[i] ELSE v[i - Len(c)]
            BY <2>4, <3>1
        <3>3. (d \o w)[i] = IF i <= Len(d) THEN d[i] ELSE w[i - Len(d)]
            BY <2>3, <3>1
        <3>4. CASE i <= Len(d)
            BY <2>2, <2>5, <3>1, <3>2, <3>3, <3>4
        <3>5. CASE i = Len(d) + 1
            <4>1. i - Len(d) = 1 /\ i = Len(c) /\ ~(i <= Len(d))
                BY <2>2, <2>5, <3>5
            <4> QED
                BY <2>2, <3>2, <3>3, <3>5, <4>1
        <3>6. CASE i > Len(d) + 1
            <4>1. PICK k \in 1 .. Len(v) : k = i - Len(c)
                <5>1. Len(c) = Len(d) + 1 /\ i <= Len(c) + Len(v)
                    BY <2>2, <3>1
                <5>2. i - Len(c) \in 1 .. Len(v)
                    BY <2>5, <3>1, <3>6, <5>1
                <5> QED
                    BY <5>2
            <4>2. i - Len(d) = k + 1 /\ ~(i <= Len(d)) /\ ~(i <= Len(c))
                BY <2>2, <2>5, <3>1, <3>6, <4>1
            <4> QED
                BY <2>7, <3>2, <3>3, <4>1, <4>2
        <3> QED
            BY <2>5, <3>1, <3>4, <3>5, <3>6
    <2>9. c \o v = d \o w
        BY <2>3, <2>4, <2>6, <2>8, SeqEqual
    <2> QED
        BY <2>1, <2>9 DEF c
<1>8. CASE outbox[1].fixture # f
    <2>1. delivered'[f] = d
        BY <1>1, <1>2, <1>8 DEF d
    <2> QED
        BY <1>6, <1>8, <1>o, <2>1
<1> QED
    BY <1>7, <1>8

-----------------------------------------------------------------------------
(* Each step preserves the invariant                                       *)

\* The end of a loop body: back to Between, returned or thrown.
LEMMA CatchesEnds ==
    ASSUME TypeOK, NEW why, Catches(why)
    PROVE  /\ phase' \in {"Between", "Returned", "Threw"}
           /\ cause' \in Terminal \cup {"none", "exhausted"}
           /\ attempt' \in 0 .. MaxReconnects + 1
<1> USE LimitsAssumption
<1>1. CASE aborted
    BY <1>1 DEF Catches, Returns, TypeOK
<1>2. CASE ~aborted /\ why \in Terminal
    BY <1>2 DEF Catches, Stops, TypeOK
<1>3. CASE ~aborted /\ why \notin Terminal
    <2>1. CASE Exhausted(attempt + 1)
        BY <1>3, <2>1 DEF Catches, Reconnects, Stops, TypeOK
    <2>2. CASE ~Exhausted(attempt + 1)
        BY <1>3, <2>2 DEF Catches, Reconnects, TypeOK
    <2> QED
        BY <2>1, <2>2
<1> QED
    BY <1>1, <1>2, <1>3

\* A step that leaves the records alone and neither starts to yield nor stops
\* to without returning.
LEMMA RecordsUntouched ==
    ASSUME IInv, TypeOK', UNCHANGED records,
           \/ phase' = phase
           \/ phase' = "Returned"
           \/ phase \notin {"Yielding", "Returned"} /\ phase' # "Yielding"
    PROVE  IInv'
<1>1. /\ tracker' = tracker /\ outbox' = outbox
      /\ delivered' = delivered /\ gaps' = gaps
    BY DEF records
<1>2. \A f : InHand(f)' = InHand(f)
    BY <1>1 DEF InHand
<1>3. OutboxIsOnePush'
    BY <1>1 DEF IInv, OutboxIsOnePush
<1>4. BuffersAreBounded'
    BY <1>1 DEF IInv, BuffersAreBounded
<1>5. \A f \in Fixtures : TrackerFollows(f)'
    BY <1>1, <1>2 DEF IInv, TrackerFollows
<1>6. InOrderAndOnce'
    BY <1>2 DEF IInv, InOrderAndOnce
<1>7. NothingSkippedSilently'
    BY <1>1, <1>2 DEF IInv, NothingSkippedSilently
<1> QED
    BY <1>3, <1>4, <1>5, <1>6, <1>7 DEF IInv

\* Handing the next record on keeps the invariant.
LEMMA YieldKeeps ==
    ASSUME IInv, Yield
    PROVE  IInv'
<1>1. /\ outbox \in Seq(Records) /\ outbox # <<>>
      /\ delivered \in [Fixtures -> Seq(SequenceNumbers)]
      /\ TypeOK
    BY DEF IInv, TypeOK, OutboxIsOnePush, Yield
<1>2. /\ Head(outbox) \in Records /\ Tail(outbox) \in Seq(Records)
      /\ Len(Tail(outbox)) = Len(outbox) - 1
      /\ \A i \in 1 .. Len(Tail(outbox)) : Tail(outbox)[i] = outbox[i + 1]
      /\ Len(outbox) \in Nat \ {0}
    BY <1>1, HeadTailProperties, EmptySeq
<1>3. delivered' \in [Fixtures -> Seq(SequenceNumbers)]
    <2>1. Head(outbox).fixture \in Fixtures /\ Head(outbox).sequence \in SequenceNumbers
        BY <1>2 DEF Records
    <2>2. \A f \in Fixtures : Append(delivered[f], Head(outbox).sequence) \in Seq(SequenceNumbers)
        BY <1>1, <2>1
    <2> QED
        BY <1>1, <2>1, <2>2 DEF Yield
<1>4. TypeOK'
    BY <1>1, <1>2, <1>3 DEF TypeOK, Yield, position, request, Phases
<1>5. \A f \in Fixtures : InHand(f)' = InHand(f)
    BY <1>4, YieldKeepsInHand
<1>6. tracker' = tracker /\ gaps' = gaps
    BY DEF Yield
<1>7. OutboxIsOnePush'
    <2>1. /\ outbox' = Tail(outbox)
          /\ phase' = IF Tail(outbox) = <<>> THEN "Reading" ELSE "Yielding"
        BY DEF Yield
    <2>2. \A i \in 1 .. Len(outbox) : outbox[i].fixture = outbox[1].fixture
        BY <1>1, LenProperties DEF IInv, OutboxIsOnePush
    <2>3. \A i \in 1 .. Len(Tail(outbox)) :
             i + 1 \in 1 .. Len(outbox) /\ 1 \in 1 .. Len(Tail(outbox))
        BY <1>2
    <2>4. \A i \in DOMAIN Tail(outbox) : Tail(outbox)[i].fixture = Tail(outbox)[1].fixture
        <3> TAKE i \in DOMAIN Tail(outbox)
        <3>1. i \in 1 .. Len(Tail(outbox))
            BY <1>2, LenProperties
        <3>2. Tail(outbox)[i] = outbox[i + 1] /\ Tail(outbox)[1] = outbox[1 + 1]
            BY <1>2, <2>3, <3>1
        <3>3. 1 + 1 \in 1 .. Len(outbox) /\ i + 1 \in 1 .. Len(outbox)
            BY <2>3, <3>1
        <3> QED
            BY <2>2, <3>2, <3>3
    <2> QED
        BY <2>1, <2>4 DEF OutboxIsOnePush
<1>8. BuffersAreBounded'
    BY <1>6 DEF IInv, BuffersAreBounded
<1>9. \A f \in Fixtures : TrackerFollows(f)'
    BY <1>5, <1>6 DEF IInv, TrackerFollows
<1>10. InOrderAndOnce'
    BY <1>5 DEF IInv, InOrderAndOnce
<1>11. NothingSkippedSilently'
    BY <1>5, <1>6 DEF IInv, NothingSkippedSilently
<1> QED
    BY <1>4, <1>7, <1>8, <1>9, <1>10, <1>11 DEF IInv

-----------------------------------------------------------------------------
(* Sequences of numbers put one after the other                            *)

Increasing(s) == \A i, j \in 1 .. Len(s) : i < j => s[i] < s[j]
Consecutive(s) == \A i \in 1 .. Len(s) : s[i] = s[1] + i - 1

\* Members of a list of sequence numbers are numbers.
LEMMA ElementsAreNumbers ==
    ASSUME NEW s \in Seq(SequenceNumbers), NEW i \in 1 .. Len(s)
    PROVE  s[i] \in Nat
<1>1. s[i] \in SequenceNumbers
    BY ElementOfSeq
<1> QED
    BY <1>1 DEF SequenceNumbers

\* The members of two lists joined.
LEMMA JoinedAt ==
    ASSUME NEW s \in Seq(SequenceNumbers), NEW q \in Seq(SequenceNumbers)
    PROVE  /\ s \o q \in Seq(SequenceNumbers)
           /\ Len(s \o q) = Len(s) + Len(q)
           /\ Len(s) \in Nat /\ Len(q) \in Nat
           /\ \A i \in 1 .. Len(s \o q) :
                 \/ i \in 1 .. Len(s) /\ (s \o q)[i] = s[i] /\ s[i] \in Nat
                 \/ \E k \in 1 .. Len(q) :
                       i = Len(s) + k /\ (s \o q)[i] = q[k] /\ q[k] \in Nat
<1>1. /\ s \o q \in Seq(SequenceNumbers)
      /\ Len(s \o q) = Len(s) + Len(q)
      /\ \A i \in 1 .. Len(s) + Len(q) :
            (s \o q)[i] = IF i <= Len(s) THEN s[i] ELSE q[i - Len(s)]
    BY ConcatProperties
<1>2. Len(s) \in Nat /\ Len(q) \in Nat
    BY LenProperties
<1>3. /\ \A i \in 1 .. Len(s) : s[i] \in Nat
      /\ \A i \in 1 .. Len(q) : q[i] \in Nat
    BY ElementsAreNumbers
<1>4. ASSUME NEW i \in 1 .. Len(s \o q)
      PROVE  \/ i \in 1 .. Len(s) /\ (s \o q)[i] = s[i] /\ s[i] \in Nat
             \/ \E k \in 1 .. Len(q) :
                   i = Len(s) + k /\ (s \o q)[i] = q[k] /\ q[k] \in Nat
    <2>1. i \in 1 .. Len(s) + Len(q) /\ i \in Nat
        BY <1>1
    <2>2. (s \o q)[i] = IF i <= Len(s) THEN s[i] ELSE q[i - Len(s)]
        BY <1>1, <2>1
    <2>3. CASE i <= Len(s)
        BY <1>2, <1>3, <2>1, <2>2, <2>3
    <2>4. CASE i > Len(s)
        <3>1. i - Len(s) \in 1 .. Len(q)
            BY <1>2, <2>1, <2>4
        <3>2. PICK k \in 1 .. Len(q) : k = i - Len(s)
            BY <3>1
        <3>3. i = Len(s) + k
            BY <1>2, <2>1, <3>2
        <3>4. (s \o q)[i] = q[k] /\ q[k] \in Nat
            <4>1. ~(i <= Len(s))
                BY <1>2, <2>1, <2>4
            <4> QED
                BY <1>3, <2>2, <3>2, <4>1
        <3> QED
            BY <3>3, <3>4
    <2> QED
        BY <1>2, <2>1, <2>3, <2>4
<1> QED
    BY <1>1, <1>2, <1>4

\* The ends of two lists joined.
LEMMA LastOfJoined ==
    ASSUME NEW s \in Seq(SequenceNumbers), NEW q \in Seq(SequenceNumbers)
    PROVE  /\ s \o q = <<>> <=> s = <<>> /\ q = <<>>
           /\ q # <<>> => (s \o q)[Len(s \o q)] = q[Len(q)]
           /\ s # <<>> => (s \o q)[1] = s[1] /\ 1 \in 1 .. Len(s)
           /\ s = <<>> => s \o q = q
           /\ q = <<>> => s \o q = s
<1>1. s \o q = <<>> <=> s = <<>> /\ q = <<>>
    BY ConcatEqualIffEmpty
<1>2. (s = <<>> => s \o q = q) /\ (q = <<>> => s \o q = s)
    BY ConcatEmptySeq
<1>3. ASSUME q # <<>> PROVE (s \o q)[Len(s \o q)] = q[Len(q)]
    <2>1. Len(q) \in Nat \ {0} /\ Len(s) \in Nat
        BY <1>3, EmptySeq, LenProperties
    <2>2. PICK e \in Nat : e = Len(s) + Len(q)
        BY <2>1
    <2>3. e \in 1 .. Len(s) + Len(q) /\ ~(e <= Len(s)) /\ e - Len(s) = Len(q)
        BY <2>1, <2>2
    <2>4. (s \o q)[e] = q[e - Len(s)]
        BY <2>3, ConcatProperties
    <2> QED
        BY <2>2, <2>3, <2>4, ConcatProperties
<1>4. ASSUME s # <<>> PROVE (s \o q)[1] = s[1] /\ 1 \in 1 .. Len(s)
    <2>1. Len(s) \in Nat \ {0} /\ Len(q) \in Nat
        BY <1>4, EmptySeq, LenProperties
    <2> QED
        BY <2>1, ConcatProperties
<1> QED
    BY <1>1, <1>2, <1>3, <1>4

\* Increasing lists, the second above the first, join to an increasing one.
LEMMA JoinedInOrder ==
    ASSUME NEW s \in Seq(SequenceNumbers), NEW q \in Seq(SequenceNumbers),
           Increasing(s), Increasing(q),
           s # <<>> => \A k \in 1 .. Len(q) : q[k] > s[Len(s)]
    PROVE  Increasing(s \o q)
<1> SUFFICES ASSUME NEW i \in 1 .. Len(s \o q), NEW j \in 1 .. Len(s \o q), i < j
             PROVE  (s \o q)[i] < (s \o q)[j]
    BY DEF Increasing
<1>1. Len(s) \in Nat /\ Len(q) \in Nat
    BY JoinedAt
<1>2. CASE i \in 1 .. Len(s) /\ j \in 1 .. Len(s)
    <2>1. (s \o q)[i] = s[i] /\ (s \o q)[j] = s[j]
        BY <1>1, <1>2, JoinedAt
    <2> QED
        BY <1>2, <2>1 DEF Increasing
<1>3. CASE i \in 1 .. Len(s) /\ j \notin 1 .. Len(s)
    <2>1. (s \o q)[i] = s[i] /\ s[i] \in Nat
        BY <1>1, <1>3, JoinedAt
    <2>2. PICK k \in 1 .. Len(q) : (s \o q)[j] = q[k] /\ q[k] \in Nat
        BY <1>3, JoinedAt
    <2>3. Len(s) \in 1 .. Len(s) /\ s # <<>>
        BY <1>1, <1>3
    <2>4. s[Len(s)] \in Nat
        BY <2>3, ElementsAreNumbers
    <2>5. s[i] <= s[Len(s)]
        <3>1. i = Len(s) \/ i < Len(s)
            BY <1>1, <1>3
        <3> QED
            BY <1>3, <2>1, <2>3, <2>4, <3>1 DEF Increasing
    <2> QED
        BY <2>1, <2>2, <2>3, <2>4, <2>5
<1>4. CASE i \notin 1 .. Len(s)
    <2>1. PICK k \in 1 .. Len(q) : i = Len(s) + k /\ (s \o q)[i] = q[k]
        BY <1>4, JoinedAt
    <2>2. j \notin 1 .. Len(s)
        BY <1>1, <1>4
    <2>3. PICK m \in 1 .. Len(q) : j = Len(s) + m /\ (s \o q)[j] = q[m]
        BY <2>2, JoinedAt
    <2>4. k < m
        BY <1>1, <2>1, <2>3
    <2> QED
        BY <2>1, <2>3, <2>4 DEF Increasing
<1> QED
    BY <1>2, <1>3, <1>4

\* A list that goes on where a consecutive one ended leaves no gap.
LEMMA JoinedWithoutGap ==
    ASSUME NEW s \in Seq(SequenceNumbers), NEW q \in Seq(SequenceNumbers),
           Consecutive(s), s # <<>>,
           \A k \in 1 .. Len(q) : q[k] = s[Len(s)] + k
    PROVE  Consecutive(s \o q)
<1> SUFFICES ASSUME NEW i \in 1 .. Len(s \o q)
             PROVE  (s \o q)[i] = s[1] + i - 1
    BY LastOfJoined DEF Consecutive
<1>1. Len(s) \in Nat \ {0} /\ Len(q) \in Nat
    BY EmptySeq, LenProperties
<1>2. CASE i \in 1 .. Len(s)
    <2>1. (s \o q)[i] = s[i]
        BY <1>1, <1>2, JoinedAt
    <2> QED
        BY <1>2, <2>1 DEF Consecutive
<1>3. CASE i \notin 1 .. Len(s)
    <2>1. PICK k \in 1 .. Len(q) : i = Len(s) + k /\ (s \o q)[i] = q[k]
        BY <1>3, JoinedAt
    <2>2. s[Len(s)] = s[1] + Len(s) - 1
        BY <1>1 DEF Consecutive
    <2>3. s[1] \in Nat
        <3>1. 1 \in 1 .. Len(s)
            BY <1>1
        <3> QED
            BY <3>1, ElementsAreNumbers
    <2> QED
        BY <1>1, <2>1, <2>2, <2>3
<1> QED
    BY <1>2, <1>3

-----------------------------------------------------------------------------
(* Reading an event, and the invariant                                     *)

\* The numbers a push lets out are put after what is in hand of its fixture;
\* nothing else of what is in hand changes.
LEMMA ReadRecordExtends ==
    ASSUME IInv, phase = "Reading",
           NEW f \in Fixtures, NEW n \in SequenceNumbers, ReadRecord(f, n)
    PROVE  LET pushed == Push(tracker[f], n) IN
           /\ outbox' \in Seq(Records)
           /\ OutboxIsOnePush'
           /\ phase' \in {"Reading", "Yielding"}
           /\ InHand(f)' = InHand(f) \o pushed.numbers
           /\ \A g \in Fixtures : g # f => InHand(g)' = InHand(g)
<1> DEFINE q == Push(tracker[f], n).numbers
           o == [i \in DOMAIN q |-> [fixture |-> f, sequence |-> q[i]]]
<1>1. q \in Seq(SequenceNumbers)
    BY TrackersAreSound, PushIsSound DEF SoundPush
<1>2. /\ outbox' = o
      /\ phase' = IF q = <<>> THEN "Reading" ELSE "Yielding"
      /\ delivered' = delivered
    BY DEF ReadRecord
<1>3. outbox = <<>> /\ delivered \in [Fixtures -> Seq(SequenceNumbers)] /\ TypeOK
    BY DEF IInv, TypeOK, OutboxIsOnePush
<1> HIDE DEF q
<1>4. /\ o \in Seq(Records)
      /\ Len(o) = Len(q)
      /\ \A i \in 1 .. Len(q) : o[i].fixture = f /\ o[i].sequence = q[i]
      /\ o = <<>> <=> q = <<>>
      /\ [i \in DOMAIN o |-> o[i].sequence] = q
    BY <1>1, OutboxOf
<1>5. DOMAIN o = 1 .. Len(q) /\ (q # <<>> => o[1].fixture = f)
    <2>1. DOMAIN o = 1 .. Len(q)
        BY <1>4, LenProperties
    <2>2. q # <<>> => 1 \in 1 .. Len(q)
        BY <1>1, EmptySeq
    <2> HIDE DEF o
    <2> QED
        BY <1>4, <2>1, <2>2
<1> HIDE DEF o
<1>6. \A g \in Fixtures :
         /\ InHand(g) = delivered[g]
         /\ InHand(g)' = delivered[g] \o (IF q # <<>> /\ f = g THEN q ELSE <<>>)
    <2> TAKE g \in Fixtures
    <2>1. InHand(g) = delivered[g]
        BY <1>3, InHandType
    <2>2. InHand(g)' = delivered'[g] \o
             (IF o # <<>> /\ o[1].fixture = g THEN [i \in DOMAIN o |-> o[i].sequence] ELSE <<>>)
        BY <1>2 DEF InHand
    <2> QED
        BY <1>2, <1>4, <1>5, <2>1, <2>2
<1>7. \A g \in Fixtures : delivered[g] \o <<>> = delivered[g]
    BY <1>3, ConcatEmptySeq
<1>8. OutboxIsOnePush'
    BY <1>2, <1>4, <1>5 DEF OutboxIsOnePush
<1>9. InHand(f)' = InHand(f) \o q
    BY <1>6, <1>7
<1>10. \A g \in Fixtures : g # f => InHand(g)' = InHand(g)
    BY <1>6, <1>7
<1> QED
    BY <1>2, <1>4, <1>8, <1>9, <1>10 DEF q

\* Reading a record off the stream keeps the invariant ...
LEMMA ReadRecordKeeps ==
    ASSUME IInv, TypeOK', phase = "Reading",
           NEW f \in Fixtures, NEW n \in SequenceNumbers, ReadRecord(f, n)
    PROVE  IInv'
<1> DEFINE t == tracker[f]
           p == Push(t, n)
           s == InHand(f)
<1>1. SoundState(t) /\ SoundPush(t, p)
    BY TrackersAreSound, PushIsSound
<1>2. /\ OutboxIsOnePush'
      /\ InHand(f)' = s \o p.numbers
      /\ \A g \in Fixtures : g # f => InHand(g)' = InHand(g)
    BY ReadRecordExtends
<1>3. /\ tracker' = [tracker EXCEPT ![f] = [last |-> p.last, pending |-> p.pending]]
      /\ gaps' = IF p.gap THEN gaps \cup {f} ELSE gaps
    BY DEF ReadRecord
<1>4. /\ tracker'[f].last = p.last /\ tracker'[f].pending = p.pending
      /\ \A g \in Fixtures : g # f => tracker'[g] = tracker[g]
    BY <1>3 DEF IInv, TypeOK
<1>5. s \in Seq(SequenceNumbers) /\ p.numbers \in Seq(SequenceNumbers)
    BY <1>1, InHandType DEF IInv, SoundPush
<1>6. /\ t.last = IF s = <<>> THEN Start[f] ELSE s[Len(s)]
      /\ t.last \in Nat \cup {Unset}
    BY <1>1 DEF IInv, TrackerFollows, SoundState, FixtureStates
<1>7. DOMAIN s = 1 .. Len(s)
    BY <1>5, LenProperties
<1>8. Increasing(s)
    BY <1>7 DEF IInv, InOrderAndOnce, Increasing
<1> DEFINE q == p.numbers
           r == s \o q
<1>9. /\ p.last = IF q = <<>> THEN t.last ELSE q[Len(q)]
      /\ Increasing(q)
      /\ \A i \in 1 .. Len(q) : q[i] > t.last
      /\ ~p.gap => /\ Consecutive(q)
                   /\ t.last # Unset => \A i \in 1 .. Len(q) : q[i] = t.last + i
      /\ Cardinality(p.pending) <= MaxPending
      /\ \A m \in p.pending : m > p.last
    BY <1>1 DEF SoundPush, Increasing, Consecutive
<1>10. r \in Seq(SequenceNumbers) /\ DOMAIN r = 1 .. Len(r)
    BY <1>5, ConcatProperties, LenProperties
<1> HIDE DEF t, p, s, q
<1>q. q = p.numbers
    BY DEF q
<1>11. BuffersAreBounded'
    BY <1>4, <1>9 DEF IInv, BuffersAreBounded
<1>12. r = <<>> <=> s = <<>> /\ q = <<>>
    BY <1>5, <1>q, LastOfJoined
<1>13. p.last = IF r = <<>> THEN Start[f] ELSE r[Len(r)]
    <2>1. CASE q = <<>>
        <3>1. r = s
            BY <1>5, <1>q, <2>1, LastOfJoined
        <3> QED
            BY <1>6, <1>9, <2>1, <3>1
    <2>2. CASE q # <<>>
        <3>1. r[Len(r)] = q[Len(q)] /\ r # <<>>
            BY <1>5, <1>q, <2>2, LastOfJoined
        <3> QED
            BY <1>9, <2>2, <3>1
    <2> QED
        BY <2>1, <2>2
<1>14. Increasing(r)
    BY <1>5, <1>6, <1>8, <1>9, <1>q, JoinedInOrder
<1>15. \A g \in Fixtures : TrackerFollows(g)'
    <2> TAKE g \in Fixtures
    <2>1. CASE g # f
        BY <1>2, <1>4, <2>1 DEF IInv, TrackerFollows
    <2>2. CASE g = f
        BY <1>2, <1>4, <1>9, <1>13, <1>q, <2>2 DEF TrackerFollows
    <2> QED
        BY <2>1, <2>2
<1>16. InOrderAndOnce'
    <2> SUFFICES ASSUME NEW g \in Fixtures
                 PROVE  \A i, j \in DOMAIN InHand(g)' :
                           i < j => InHand(g)'[i] < InHand(g)'[j]
        BY DEF InOrderAndOnce
    <2>1. CASE g # f
        BY <1>2, <2>1 DEF IInv, InOrderAndOnce
    <2>2. CASE g = f
        <3>1. InHand(g)' = r
            BY <1>2, <1>q, <2>2
        <3> HIDE DEF r
        <3> QED
            BY <1>10, <1>14, <3>1 DEF Increasing
    <2> QED
        BY <2>1, <2>2
<1>17. ASSUME ~p.gap, f \notin gaps, r # <<>>
       PROVE  /\ Start[f] # Unset => r[1] = Start[f] + 1
              /\ Consecutive(r)
    <2>1. CASE s = <<>>
        <3>1. r = q /\ q # <<>>
            BY <1>5, <1>12, <1>17, <1>q, <2>1, LastOfJoined
        <3>2. 1 \in 1 .. Len(q)
            BY <1>5, <1>q, <3>1, EmptySeq
        <3> HIDE DEF r
        <3>3. Consecutive(r)
            BY <1>9, <1>17, <3>1
        <3>4. Start[f] # Unset => r[1] = Start[f] + 1
            BY <1>6, <1>9, <1>17, <2>1, <3>1, <3>2
        <3> QED
            BY <3>3, <3>4
    <2>2. CASE s # <<>>
        <3>1. /\ Start[f] # Unset => s[1] = Start[f] + 1
              /\ Consecutive(s)
            BY <1>7, <1>17, <2>2 DEF IInv, NothingSkippedSilently, Consecutive, s
        <3>2. t.last = s[Len(s)] /\ t.last \in Nat
            <4>1. Len(s) \in 1 .. Len(s)
                BY <1>5, <2>2, EmptySeq
            <4>2. s[Len(s)] \in Nat
                BY <1>5, <4>1, ElementsAreNumbers
            <4> QED
                BY <1>6, <2>2, <4>2
        <3>3. \A k \in 1 .. Len(q) : q[k] = s[Len(s)] + k
            BY <1>9, <1>17, <3>2 DEF Unset
        <3>4. Consecutive(r)
            BY <1>5, <1>q, <2>2, <3>1, <3>3, JoinedWithoutGap
        <3>5. r[1] = s[1]
            BY <1>5, <1>q, <2>2, LastOfJoined
        <3> QED
            BY <3>1, <3>4, <3>5
    <2> QED
        BY <2>1, <2>2
<1>18. NothingSkippedSilently'
    <2> SUFFICES ASSUME NEW g \in Fixtures, g \notin gaps', InHand(g)' # <<>>
                 PROVE  /\ Start[g] # Unset => InHand(g)'[1] = Start[g] + 1
                        /\ \A i \in DOMAIN InHand(g)' :
                              InHand(g)'[i] = InHand(g)'[1] + i - 1
                        /\ InHand(g)'[Len(InHand(g)')] = tracker'[g].last
        BY DEF NothingSkippedSilently
    <2>1. CASE g # f
        <3>1. g \notin gaps
            BY <1>3, <2>1
        <3> QED
            BY <1>2, <1>4, <2>1, <3>1 DEF IInv, NothingSkippedSilently
    <2>2. CASE g = f
        <3>1. InHand(g)' = r /\ r # <<>>
            BY <1>2, <1>q, <2>2
        <3>2. ~p.gap /\ f \notin gaps
            BY <1>3, <2>2
        <3>3. (Start[f] # Unset => r[1] = Start[f] + 1) /\ Consecutive(r)
            BY <1>17, <3>1, <3>2
        <3>4. tracker'[f].last = r[Len(r)]
            BY <1>4, <1>13, <3>1
        <3> HIDE DEF r
        <3> QED
            BY <1>10, <2>2, <3>1, <3>3, <3>4 DEF Consecutive
    <2> QED
        BY <2>1, <2>2
<1> QED
    BY <1>2, <1>11, <1>15, <1>16, <1>18 DEF IInv

\* ... and so does reading any event.
LEMMA ReadEventKeeps ==
    ASSUME IInv, ReadEvent
    PROVE  IInv'
<1> DEFINE event == log[at + 1]
<1>1. TypeOK /\ phase = "Reading" /\ at + 1 \in 1 .. Len(log)
    BY DEF IInv, TypeOK, ReadEvent
<1>2. /\ at' = at + 1 /\ lastEventId' = at + 1
      /\ UNCHANGED <<log, cause, aborted, origin, truncated, token, renewed>>
    BY DEF ReadEvent, request
<1>3. CASE IsWatched(event)
    <2>1. event.fixture \in Fixtures /\ event.sequence \in SequenceNumbers
        BY <1>1, <1>3, EventsAreKnown
    <2>2. PICK f \in Fixtures, n \in SequenceNumbers : ReadRecord(f, n)
        BY <1>3, <2>1 DEF ReadEvent
    <2>3. outbox' \in Seq(Records) /\ phase' \in {"Reading", "Yielding"}
        BY <1>1, <2>2, ReadRecordExtends
    <2>4. tracker' \in [Fixtures -> FixtureStates]
        <3>1. SoundPush(tracker[f], Push(tracker[f], n))
            BY TrackersAreSound, PushIsSound
        <3> QED
            BY <1>1, <2>2, <3>1 DEF ReadRecord, SoundPush, FixtureStates, TypeOK
    <2>5. gaps' \subseteq Fixtures /\ delivered' = delivered /\ attempt' = 0
        BY <1>1, <2>2 DEF ReadRecord, TypeOK
    <2>6. TypeOK'
        BY <1>1, <1>2, <2>3, <2>4, <2>5, LimitsAssumption DEF TypeOK, Phases, FixtureStates
    <2> QED
        BY <1>1, <2>2, <2>6, ReadRecordKeeps
<1>4. CASE ~IsWatched(event)
    <2>1. UNCHANGED <<phase, attempt, records>>
        BY <1>4 DEF ReadEvent
    <2>2. TypeOK'
        BY <1>1, <1>2, <2>1 DEF TypeOK, records
    <2> QED
        BY <2>1, <2>2, RecordsUntouched
<1> QED
    BY <1>3, <1>4

\* The invariant holds at the start.
LEMMA InitHolds == Init => IInv
<1> SUFFICES ASSUME Init PROVE IInv
    OBVIOUS
<1> USE StartAssumption, LimitsAssumption
<1>1. TypeOK
    <2>1. /\ <<>> \in Seq(Records \cup {Malformed}) /\ Len(<<>>) = 0
          /\ <<>> \in Seq(Records) /\ <<>> \in Seq(SequenceNumbers)
        OBVIOUS
    <2>2. tracker \in [Fixtures -> [last : Nat \cup {Unset}, pending : SUBSET SequenceNumbers]]
        BY DEF Init
    <2>3. delivered \in [Fixtures -> Seq(SequenceNumbers)]
        BY <2>1 DEF Init
    <2>4. 0 \in 0 .. MaxReconnects + 1 /\ 0 \in 0 .. Len(log)
        BY <2>1 DEF Init
    <2> QED
        BY <2>1, <2>2, <2>3, <2>4 DEF Init, TypeOK, Phases
<1>2. \A f \in Fixtures : InHand(f) = <<>>
    BY <1>1, InHandType DEF Init
<1>3. BuffersAreBounded
    <2>1. \A f \in Fixtures : tracker[f].pending = {}
        BY DEF Init
    <2> QED
        BY <2>1, FS_EmptySet DEF BuffersAreBounded
<1>4. OutboxIsOnePush
    BY DEF Init, OutboxIsOnePush
<1>5. \A f \in Fixtures : TrackerFollows(f)
    BY <1>2 DEF Init, TrackerFollows
<1>6. InOrderAndOnce /\ NothingSkippedSilently
    BY <1>2 DEF InOrderAndOnce, NothingSkippedSilently
<1> QED
    BY <1>1, <1>3, <1>4, <1>5, <1>6 DEF IInv

\* Every step keeps it.
LEMMA NextKeeps == IInv /\ [Next]_vars => IInv'
<1> SUFFICES ASSUME IInv, [Next]_vars PROVE IInv'
    OBVIOUS
<1> USE DEF position, request
<1>1. TypeOK /\ OutboxIsOnePush
    BY DEF IInv
<1>2. ASSUME UNCHANGED vars PROVE IInv'
    <2>1. UNCHANGED <<log, phase, cause, aborted, attempt, lastEventId, origin, at,
                      truncated, token, renewed, records>>
        BY <1>2 DEF vars
    <2>2. TypeOK'
        BY <1>1, <2>1 DEF TypeOK, records
    <2> QED
        BY <2>1, <2>2, RecordsUntouched
<1>3. ASSUME Connect PROVE IInv'
    <2>1. TypeOK'
        BY <1>1, <1>3 DEF Connect, TypeOK, records, Phases
    <2> QED
        BY <1>3, <2>1, RecordsUntouched DEF Connect
<1>4. ASSUME NEW from \in Resumptions, Accepted(from) PROVE IInv'
    <2>1. from \in 0 .. Len(log)
        BY <1>1, <1>4 DEF Resumptions, TypeOK
    <2>2. TypeOK'
        BY <1>1, <1>4, <2>1 DEF Accepted, TypeOK, records, Phases
    <2> QED
        BY <1>4, <2>2, RecordsUntouched DEF Accepted
<1>5. ASSUME Unauthorized PROVE IInv'
    <2>1. /\ phase' \in {"Renewing", "Between", "Returned", "Threw"}
          /\ cause' \in Terminal \cup {"none", "exhausted"}
          /\ attempt' \in 0 .. MaxReconnects + 1
        BY <1>1, <1>5, CatchesEnds DEF Unauthorized, TypeOK
    <2>2. TypeOK'
        BY <1>1, <1>5, <2>1 DEF Unauthorized, TypeOK, records, Phases
    <2> QED
        BY <1>5, <2>1, <2>2, RecordsUntouched DEF Unauthorized
<1>6. ASSUME Renewed PROVE IInv'
    <2>1. TypeOK'
        BY <1>1, <1>6 DEF Renewed, TypeOK, records, Phases
    <2> QED
        BY <1>6, <2>1, RecordsUntouched DEF Renewed
<1>7. ASSUME NEW why,
             RenewalFails(why) \/ RequestFails(why) \/ Disconnect
      PROVE  IInv'
    <2>1. /\ phase' \in {"Between", "Returned", "Threw"}
          /\ cause' \in Terminal \cup {"none", "exhausted"}
          /\ attempt' \in 0 .. MaxReconnects + 1
        BY <1>1, <1>7, CatchesEnds DEF RenewalFails, RequestFails, Disconnect
    <2>2. UNCHANGED <<log, aborted, lastEventId, origin, at, truncated, token, renewed, records>>
        BY <1>7 DEF RenewalFails, RequestFails, Disconnect
    <2>3. TypeOK'
        BY <1>1, <2>1, <2>2 DEF TypeOK, records, Phases
    <2>4. phase \in {"Renewing", "Requesting", "Reading"}
        BY <1>7 DEF RenewalFails, RequestFails, Disconnect
    <2> QED
        BY <2>1, <2>2, <2>3, <2>4, RecordsUntouched
<1>8. ASSUME EndsInsideEvent PROVE IInv'
    <2>1. Catches("transient")
        BY <1>8 DEF EndsInsideEvent, Catches, Terminal
    <2>2. /\ phase' \in {"Between", "Returned", "Threw"}
          /\ cause' \in Terminal \cup {"none", "exhausted"}
          /\ attempt' \in 0 .. MaxReconnects + 1
        BY <1>1, <2>1, CatchesEnds
    <2>3. TypeOK'
        BY <1>1, <1>8, <2>2 DEF EndsInsideEvent, TypeOK, records, Phases
    <2> QED
        BY <1>8, <2>2, <2>3, RecordsUntouched DEF EndsInsideEvent
<1>9. ASSUME Abort PROVE IInv'
    <2>1. TypeOK'
        BY <1>1, <1>9 DEF Abort, TypeOK, records
    <2> QED
        BY <1>9, <2>1, RecordsUntouched DEF Abort
<1>10. ASSUME ReturnAborted \/ Abandon PROVE IInv'
    <2>1. TypeOK'
        BY <1>1, <1>10 DEF ReturnAborted, Abandon, Returns, TypeOK, records, Phases
    <2> QED
        BY <1>10, <2>1, RecordsUntouched DEF ReturnAborted, Abandon, Returns
<1>11. ASSUME NEW event \in Records \cup {Malformed}, Publish(event) PROVE IInv'
    <2>1. log' \in Seq(Records \cup {Malformed}) /\ Len(log') = Len(log) + 1
        BY <1>1, <1>11 DEF Publish, TypeOK
    <2>2. Len(log) \in Nat
        BY <1>1, LenProperties DEF TypeOK
    <2>3. TypeOK'
        BY <1>1, <1>11, <2>1, <2>2 DEF Publish, TypeOK, records
    <2> QED
        BY <1>11, <2>3, RecordsUntouched DEF Publish
<1>12. ASSUME ExpireToken PROVE IInv'
    <2>1. TypeOK'
        BY <1>1, <1>12 DEF ExpireToken, TypeOK, records
    <2> QED
        BY <1>12, <2>1, RecordsUntouched DEF ExpireToken
<1> QED
    BY <1>2, <1>3, <1>4, <1>5, <1>6, <1>7, <1>8, <1>9, <1>10, <1>11, <1>12,
       ReadEventKeeps, YieldKeeps DEF Next

\* The inductive invariant: for any fixtures, starts, limits and bounds, what
\* streamNormalizedScores holds back and lets out follows its tracker.
THEOREM Invariant == Spec => []IInv
<1>1. Init => IInv
    BY InitHolds
<1>2. IInv /\ [Next]_vars => IInv'
    BY NextKeeps
<1> QED
    BY <1>1, <1>2, PTL DEF Spec

\* However events are repeated, reordered and read again after a reconnect, the
\* consumer sees the sequences of a fixture in increasing order, each at most
\* once.
THEOREM DeliversInOrderAndOnce == Spec => []InOrderAndOnce
<1>1. IInv => InOrderAndOnce
    BY DEF IInv
<1> QED
    BY <1>1, Invariant, PTL

\* A number is only skipped when the gap before it was reported.
THEOREM ReportsEveryGap == Spec => []NothingSkippedSilently
<1>1. IInv => NothingSkippedSilently
    BY DEF IInv
<1> QED
    BY <1>1, Invariant, PTL

\* No fixture ever has more than maxPendingPerFixture records waiting: giving
\* up one gap is always enough.
THEOREM OneGapIsEnough == Spec => []BuffersAreBounded
<1>1. IInv => BuffersAreBounded
    BY DEF IInv
<1> QED
    BY <1>1, Invariant, PTL
=============================================================================
