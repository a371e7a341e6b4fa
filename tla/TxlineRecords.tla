---------------------------- MODULE TxlineRecords ----------------------------
(***************************************************************************)
(* What the TxLINE adapter makes of an answer of the service                 *)
(* (packages/txline/src/normalizers.ts and adapter.ts): score records, and   *)
(* the proof of a final score.                                               *)
(*                                                                           *)
(* An answer is untyped JSON.  A field is its value once found under one of  *)
(* its names and read with its type, or Unreadable: not there, or of another *)
(* type.  Hashes, names and clocks are left out: only that they can be read. *)
(***************************************************************************)
EXTENDS Integers, Sequences, FiniteSets, SequencesExt

\* A number no field has: times and sequences from -1 on occur.
Unreadable == -100
\* What an optional field that cannot be read becomes: null.
NotGiven == Unreadable

\* The raw record of an object that has none of a record's fields.
NoFields ==
    [fixture |-> Unreadable, sequence |-> Unreadable, time |-> Unreadable,
     action |-> "", status |-> Unreadable, gameState |-> "", goals |-> Unreadable]

RawRecords ==
    [fixture : Int, sequence : Int, time : Int, action : STRING, status : Int,
     gameState : STRING, goals : Int]

-----------------------------------------------------------------------------
(* The envelope: an array, an object that holds one, an object that is the *)
(* only record, or something else.                                         *)

Unwrapped(answer) ==
    CASE answer.shape \in {"array", "wrapped"} -> answer.items
      [] answer.shape = "object" -> <<answer.items[1]>>
      [] answer.shape = "scalar" -> <<>>

-----------------------------------------------------------------------------
(* A score record                                                          *)

PlayingStatuses == {2, 4, 7, 9, 12}
PausedStatuses == {3, 6, 8, 11, 14, 18}
FinalizingStatuses == {5, 10, 13}
UnavailableStatuses == {15, 16, 17, 19}

(* Faulty... operators are plausible slips in the operator that follows them; *)
(* nothing uses them.                                                         *)
FaultyEndsTheMatch(raw) == raw.status = 100
EndsTheMatch(raw) == raw.action = "game_finalised" /\ raw.status = 100

ScoreLifecycle(raw) ==
    CASE EndsTheMatch(raw) -> "finalized"
      [] raw.status \in PlayingStatuses -> "live"
      [] raw.status \in PausedStatuses -> "paused"
      [] raw.status \in FinalizingStatuses -> "finalizing"
      [] raw.status \in UnavailableStatuses -> "unavailable"
      [] raw.status = 1 \/ raw.gameState = "scheduled" -> "scheduled"
      [] raw.gameState \in {"live", "inplay", "in-play"} -> "live"
      [] raw.gameState \in {"cancelled", "canceled", "abandoned", "postponed"} -> "unavailable"
      [] OTHER -> "unknown"

\* Only these fields are required; any other becomes null, or is left out.
IsScoreRecord(raw) ==
    /\ raw.action # ""
    /\ raw.sequence >= 0
    /\ raw.fixture > 0
    /\ raw.time > 0

NormalizeScore(raw) ==
    [fixture |-> raw.fixture, sequence |-> raw.sequence, time |-> raw.time,
     action |-> raw.action, status |-> raw.status, goals |-> raw.goals,
     lifecycle |-> ScoreLifecycle(raw), isFinal |-> EndsTheMatch(raw)]

\* One record that cannot be read fails the whole collection.
IsCollection(answer) == \A i \in DOMAIN Unwrapped(answer) : IsScoreRecord(Unwrapped(answer)[i])

ComesFirst(left, right) ==
    \/ left.fixture < right.fixture
    \/ left.fixture = right.fixture /\ left.sequence < right.sequence
    \/ left.fixture = right.fixture /\ left.sequence = right.sequence /\ left.time < right.time

\* The members of S in the order of `before`, which is total on S.
InOrder(S, before(_, _)) ==
    CHOOSE order \in [1 .. Cardinality(S) -> S] :
       \A m, n \in 1 .. Cardinality(S) : m < n => before(order[m], order[n])

\* getHistoricalScores, for an answer that is a collection.  The sort is
\* stable; records it does not tell apart stay in the order of the answer.
HistoricalScores(answer) ==
    LET raws == Unwrapped(answer)
        before(i, j) == \/ ComesFirst(raws[i], raws[j])
                        \/ ~ComesFirst(raws[j], raws[i]) /\ i < j
        order == InOrder(DOMAIN raws, before)
    IN  [n \in DOMAIN raws |-> NormalizeScore(raws[order[n]])]

\* What is left of a list when only the items at these places are kept.
Kept(items, places) ==
    LET order == InOrder(places, <)
    IN  [n \in 1 .. Cardinality(places) |-> items[order[n]]]

-----------------------------------------------------------------------------
(* The proof of a score (the V3 endpoint).  A leaf is a stat: its key, value *)
(* and period.                                                               *)

\* What the adapter asks for at all: an observed sequence and distinct keys.
IsProofRequest(sequence, statKeys) ==
    /\ sequence > 0
    /\ statKeys # <<>>
    /\ \A i \in DOMAIN statKeys : statKeys[i] > 0
    /\ IsInjective(statKeys)

\* normalizeScoreProofV3: the fixture asked for, the leaves in the order asked
\* for, one index per leaf, and every hash an array of 32 bytes.
IsProofOf(answer, fixture, statKeys) ==
    /\ answer.fixture = fixture
    /\ answer.keys = statKeys
    /\ answer.indices = Len(answer.keys)
    /\ answer.hashes = "bytes"
=============================================================================
