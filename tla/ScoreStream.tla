----------------------------- MODULE ScoreStream -----------------------------
(***************************************************************************)
(* One call of streamNormalizedScores (packages/txline/src/sse.ts) with its *)
(* sequence tracker and the requests of its TxlineApiClient, reading the    *)
(* TxLINE score feed over connections that break and are opened again.      *)
(*                                                                          *)
(* The feed is a log; the id of an event is its position in the log.  A     *)
(* record is a fixture and a sequence number: amendments get numbers of     *)
(* their own.  Events may come out of order, more than once, or malformed.  *)
(***************************************************************************)
EXTENDS Integers, Sequences, FiniteSets

CONSTANTS
    Fixtures,        \* fixtures the feed carries
    Watched,         \* the fixture asked for, or all of them
    Start,           \* Start[f]: startingSequences[f], or Unset
    MaxPending,      \* maxPendingPerFixture
    Unlimited,       \* maxReconnectAttempts is Infinity, the default
    MaxReconnects,   \* maxReconnectAttempts otherwise
    Redelivery,      \* bound on the events sent again after Last-Event-ID
    MaxLog,          \* bound on the log
    MaxSequence      \* bound on the sequence numbers

Unset == -1
\* An event whose data is no JSON, or no score record.
Malformed == [fixture |-> "None", sequence |-> 0]

ASSUME FixturesAssumption == Watched \subseteq Fixtures /\ "None" \notin Fixtures
ASSUME StartAssumption == Start \in [Fixtures -> Nat \cup {Unset}]
ASSUME LimitsAssumption ==
    /\ MaxPending \in Nat
    /\ Unlimited \in BOOLEAN
    /\ MaxReconnects \in Nat
    /\ MaxSequence \in Nat

VARIABLES
    log,          \* what the feed has carried so far
    phase,        \* where the generator stands
    cause,        \* the error it threw
    aborted,      \* the caller's AbortSignal
    attempt,      \* reconnectAttempt
    lastEventId,  \* position of the last event whose id was read; 0: undefined
    origin,       \* where the feed began to be read
    at,           \* position of the last event this connection carried
    token,        \* whether the feed still accepts the guest token
    renewed,      \* whether this request has renewed it
    tracker,      \* tracker[f]: FixtureSequenceState
    outbox,       \* records of the last push, not yet yielded
    delivered,    \* delivered[f]: the sequences yielded
    gaps,         \* fixtures for which a gap was reported
    truncated     \* history: a body has ended inside an event

request == <<token, renewed>>
position == <<lastEventId, origin, at, truncated>>
records == <<tracker, outbox, delivered, gaps>>
vars == <<log, phase, cause, aborted, attempt, position, request, records>>

SequenceNumbers == 1 .. MaxSequence
Records == [fixture : Fixtures, sequence : SequenceNumbers]
Phases == {"Between", "Requesting", "Renewing", "Reading", "Yielding",
           "Returned", "Threw"}
Terminal == {"denied", "unauthorized", "guestRefused"}

TypeOK ==
    /\ log \in Seq(Records \cup {Malformed})
    /\ phase \in Phases
    /\ cause \in Terminal \cup {"none", "exhausted"}
    /\ aborted \in BOOLEAN
    /\ attempt \in 0 .. MaxReconnects + 1
    /\ lastEventId \in 0 .. Len(log) /\ origin \in 0 .. Len(log) /\ at \in 0 .. Len(log)
    /\ token \in {"Valid", "Expired"}
    /\ renewed \in BOOLEAN
    /\ tracker \in [Fixtures -> [last : Nat \cup {Unset}, pending : SUBSET SequenceNumbers]]
    /\ outbox \in Seq(Records)
    /\ delivered \in [Fixtures -> Seq(SequenceNumbers)]
    /\ gaps \subseteq Fixtures
    /\ truncated \in BOOLEAN

Init ==
    /\ log = <<>>
    /\ phase = "Between"
    /\ cause = "none"
    /\ aborted = FALSE
    /\ attempt = 0
    /\ lastEventId = 0 /\ origin = 0 /\ at = 0
    /\ token = "Valid"
    /\ renewed = FALSE
    /\ tracker = [f \in Fixtures |-> [last |-> Start[f], pending |-> {}]]
    /\ outbox = <<>>
    /\ delivered = [f \in Fixtures |-> <<>>]
    /\ gaps = {}
    /\ truncated = FALSE

-----------------------------------------------------------------------------
(* ScoreSequenceTracker.push.  Faulty... operators are plausible slips in    *)
(* the operator that follows them; nothing uses them.                        *)

FaultyIsDuplicate(t, n) == n \in t.pending
IsDuplicate(t, n) == n <= t.last \/ n \in t.pending

\* The number the run of consecutive held numbers after `last` ends with.
Reach(last, held) ==
    CHOOSE m \in held \cup {last} :
       /\ \A n \in last + 1 .. m : n \in held
       /\ m + 1 \notin held

Least(S) == CHOOSE n \in S : \A other \in S : n <= other
Above(S, n) == {m \in S : m > n}

\* The numbers from lo to hi, in order.
Run(lo, hi) == [i \in 1 .. hi - lo + 1 |-> lo + i - 1]

FaultyOverflows(held) == Cardinality(held) > MaxPending + 1
Overflows(held) == Cardinality(held) > MaxPending

FaultyFlushedQuietly(held) ==
    LET upTo == Reach(Least(held), held)
    IN  [last |-> upTo, pending |-> Above(held, upTo),
         numbers |-> Run(Least(held), upTo), gap |-> FALSE]

\* Too much is held: the gap before the lowest number is given up.
Flushed(held) ==
    LET upTo == Reach(Least(held), held)
    IN  [last |-> upTo, pending |-> Above(held, upTo),
         numbers |-> Run(Least(held), upTo), gap |-> TRUE]

\* What pushing a number that is no duplicate makes of a fixture that has a
\* last sequence: the new state, and the numbers it lets out.
Pushed(t, n) ==
    LET held == t.pending \cup {n}
        upTo == Reach(t.last, held)
        rest == Above(held, upTo)
    IN  IF Overflows(rest)
        THEN [Flushed(rest) EXCEPT !.numbers = Run(t.last + 1, upTo) \o @]
        ELSE [last |-> upTo, pending |-> rest,
              numbers |-> Run(t.last + 1, upTo), gap |-> FALSE]

Push(t, n) ==
    IF t.last = Unset
    THEN [last |-> n, pending |-> {}, numbers |-> <<n>>, gap |-> FALSE]
    ELSE IF IsDuplicate(t, n)
    THEN [last |-> t.last, pending |-> t.pending, numbers |-> <<>>, gap |-> FALSE]
    ELSE Pushed(t, n)

-----------------------------------------------------------------------------
(* Connections                                                              *)

Stops(why) ==
    /\ phase' = "Threw"
    /\ cause' = why
    /\ UNCHANGED attempt

\* The end of the loop's body.  Delays are left out; the counter is kept below
\* MaxReconnects + 2, above which nothing depends on it.
Exhausted(count) == ~Unlimited /\ count > MaxReconnects
Reconnects ==
    IF Exhausted(attempt + 1)
    THEN Stops("exhausted")
    ELSE /\ phase' = "Between"
         /\ attempt' = IF attempt > MaxReconnects THEN attempt ELSE attempt + 1
         /\ UNCHANGED cause

Returns == phase' = "Returned" /\ UNCHANGED <<cause, attempt>>

\* The catch of the loop: an AbortError, like any error after the abort, ends
\* the generator quietly.
Catches(why) ==
    IF aborted THEN Returns
    ELSE IF why \in Terminal THEN Stops(why)
    ELSE Reconnects

Connect ==
    /\ phase = "Between"
    /\ ~aborted
    /\ phase' = "Requesting"
    /\ renewed' = FALSE
    /\ UNCHANGED <<log, cause, aborted, attempt, position, token, records>>

\* TxLINE resumes after Last-Event-ID, repeating a few events at most, and
\* begins wherever it likes without one.
Resumptions ==
    IF lastEventId = 0 THEN 0 .. Len(log)
    ELSE {i \in 0 .. lastEventId : i >= lastEventId - Redelivery}

Accepted(from) ==
    /\ phase = "Requesting"
    /\ ~aborted
    /\ token = "Valid"
    /\ phase' = "Reading"
    /\ at' = from
    /\ origin' = IF lastEventId = 0 THEN from ELSE origin
    /\ UNCHANGED <<log, cause, aborted, attempt, lastEventId, truncated, request, records>>

FaultyMayRenew == FALSE
MayRenew == ~renewed

Unauthorized ==
    /\ phase = "Requesting"
    /\ token = "Expired"
    /\ \/ /\ MayRenew
          /\ phase' = "Renewing"
          /\ UNCHANGED <<cause, attempt>>
       \/ ~MayRenew /\ Catches("unauthorized")
    /\ UNCHANGED <<log, aborted, position, request, records>>

Renewed ==
    /\ phase = "Renewing"
    /\ token' = "Valid"
    /\ renewed' = TRUE
    /\ phase' = "Requesting"
    /\ UNCHANGED <<log, cause, aborted, attempt, position, records>>

\* The renewal takes no signal: an abort is noticed by the request after it.
RenewalFails(why) ==
    /\ phase = "Renewing"
    /\ Catches(why)
    /\ UNCHANGED <<log, aborted, position, request, records>>

RequestFails(why) ==
    /\ phase = "Requesting"
    /\ Catches(why)
    /\ UNCHANGED <<log, aborted, position, request, records>>

\* The body ends, or breaks off between two events.
Disconnect ==
    /\ phase = "Reading"
    /\ Catches("transient")
    /\ UNCHANGED <<log, aborted, position, request, records>>

\* The body ends after the id line of an event: readSseMessages hands on what is
\* left in its buffer, whose data is no JSON.
EndsInsideEvent ==
    /\ phase = "Reading"
    /\ ~aborted
    /\ at < Len(log)
    /\ lastEventId' = at + 1
    /\ truncated' = TRUE
    /\ Reconnects
    /\ UNCHANGED <<log, aborted, origin, at, request, records>>

-----------------------------------------------------------------------------
(* Records                                                                  *)

IsWatched(event) == event.fixture \in Watched

ReadRecord(f, n) ==
    LET pushed == Push(tracker[f], n) IN
    /\ attempt' = 0
    /\ tracker' = [tracker EXCEPT ![f] = [last |-> pushed.last, pending |-> pushed.pending]]
    /\ outbox' = [i \in DOMAIN pushed.numbers |->
                     [fixture |-> f, sequence |-> pushed.numbers[i]]]
    /\ gaps' = IF pushed.gap THEN gaps \cup {f} ELSE gaps
    /\ phase' = IF pushed.numbers = <<>> THEN "Reading" ELSE "Yielding"
    /\ UNCHANGED delivered

ReadEvent ==
    LET event == log[at + 1] IN
    /\ phase = "Reading"
    /\ ~aborted
    /\ at < Len(log)
    /\ at' = at + 1
    /\ lastEventId' = at + 1
    /\ IF IsWatched(event)
       THEN ReadRecord(event.fixture, event.sequence)
       ELSE UNCHANGED <<phase, attempt, records>>
    /\ UNCHANGED <<log, cause, aborted, origin, truncated, request>>

\* The consumer takes one record; an abort does not interrupt this loop.
Yield ==
    LET record == Head(outbox) IN
    /\ phase = "Yielding"
    /\ delivered' = [delivered EXCEPT ![record.fixture] = Append(@, record.sequence)]
    /\ outbox' = Tail(outbox)
    /\ phase' = IF Tail(outbox) = <<>> THEN "Reading" ELSE "Yielding"
    /\ UNCHANGED <<log, cause, aborted, attempt, position, request, tracker, gaps>>

-----------------------------------------------------------------------------
(* The caller, and the feed                                                 *)

Abort ==
    /\ ~aborted
    /\ aborted' = TRUE
    /\ UNCHANGED <<log, phase, cause, attempt, position, request, records>>

ReturnAborted ==
    /\ aborted
    /\ phase \in {"Between", "Reading"}
    /\ Returns
    /\ UNCHANGED <<log, aborted, position, request, records>>

\* The consumer leaves its loop over the generator.
Abandon ==
    /\ phase = "Yielding"
    /\ Returns
    /\ UNCHANGED <<log, aborted, position, request, records>>

Publish(event) ==
    /\ Len(log) < MaxLog
    /\ log' = Append(log, event)
    /\ UNCHANGED <<phase, cause, aborted, attempt, position, request, records>>

ExpireToken ==
    /\ token = "Valid"
    /\ token' = "Expired"
    /\ UNCHANGED <<log, phase, cause, aborted, attempt, position, renewed, records>>

Next ==
    \/ Connect
    \/ \E from \in Resumptions : Accepted(from)
    \/ Unauthorized
    \/ Renewed
    \/ \E why \in {"guestRefused", "transient"} : RenewalFails(why)
    \/ \E why \in {"denied", "transient"} : RequestFails(why)
    \/ Disconnect
    \/ EndsInsideEvent
    \/ ReadEvent
    \/ Yield
    \/ Abort
    \/ ReturnAborted
    \/ Abandon
    \/ \E event \in Records \cup {Malformed} : Publish(event)
    \/ ExpireToken

Spec == Init /\ [][Next]_vars

-----------------------------------------------------------------------------
(* Safety                                                                  *)

\* What is on its way to the consumer, after what it has.
InHand(f) ==
    LET waiting == [i \in DOMAIN outbox |-> outbox[i].sequence]
    IN  delivered[f] \o (IF outbox # <<>> /\ outbox[1].fixture = f THEN waiting ELSE <<>>)

\* Whatever was repeated, reordered or read twice after a reconnect, a
\* consumer sees the sequences of a fixture in increasing order, and so each at
\* most once.
InOrderAndOnce ==
    \A f \in Fixtures :
       \A i, j \in DOMAIN InHand(f) : i < j => InHand(f)[i] < InHand(f)[j]

\* A number is only skipped when the gap was reported: without one the
\* consumer has every number from the configured start, or from the first
\* record, up to the tracker's last.
NothingSkippedSilently ==
    \A f \in Fixtures :
       LET seen == InHand(f) IN
       f \notin gaps /\ seen # <<>> =>
          /\ Start[f] # Unset => seen[1] = Start[f] + 1
          /\ \A i \in DOMAIN seen : seen[i] = seen[1] + i - 1
          /\ seen[Len(seen)] = tracker[f].last

\* Whatever arrives, and however long a missing number stays away, no fixture
\* has more than maxPendingPerFixture records waiting.
BuffersAreBounded == \A f \in Fixtures : Cardinality(tracker[f].pending) <= MaxPending

-----------------------------------------------------------------------------
(* The inductive invariant of ScoreStreamProofs                            *)

\* What waits to be yielded are the records of one push, and only Yield and a
\* generator that was left have any.
OutboxIsOnePush ==
    /\ phase = "Yielding" => outbox # <<>>
    /\ phase \notin {"Yielding", "Returned"} => outbox = <<>>
    /\ \A i \in DOMAIN outbox : outbox[i].fixture = outbox[1].fixture

\* The tracker's last is the last sequence let out, and all it holds is above.
TrackerFollows(f) ==
    /\ tracker[f].last = IF InHand(f) = <<>> THEN Start[f] ELSE InHand(f)[Len(InHand(f))]
    /\ \A n \in tracker[f].pending : n > tracker[f].last

IInv ==
    /\ TypeOK
    /\ BuffersAreBounded
    /\ OutboxIsOnePush
    /\ \A f \in Fixtures : TrackerFollows(f)
    /\ InOrderAndOnce
    /\ NothingSkippedSilently

-----------------------------------------------------------------------------
(* Liveness                                                                *)

(* The code's own steps happen.  TxLINE answers some of the requests it is   *)
(* asked for ever, resuming right after Last-Event-ID, some connection lives *)
(* until the next new event, and some renewal succeeds; a connection brings  *)
(* what the feed has or is seen to break (the code has no timeout of its     *)
(* own for one that does neither).                                           *)
Fairness ==
    /\ WF_vars(Connect)
    /\ WF_vars(Yield)
    /\ SF_vars(Unauthorized)
    /\ SF_vars(Renewed)
    /\ SF_vars(Accepted(lastEventId))
    /\ WF_vars(ReadEvent)
    /\ SF_vars(at >= lastEventId /\ ReadEvent)

FairSpec == Spec /\ Fairness

\* The feed has carried every number from the start to n since it began to be
\* read.
Due(f, n) ==
    /\ f \in Watched /\ Start[f] # Unset /\ lastEventId > 0
    /\ \A m \in Start[f] + 1 .. n :
          \E i \in origin + 1 .. Len(log) : log[i] = [fixture |-> f, sequence |-> m]

\* Access or a guest session was refused, or a token that was just renewed.
EndedForCause ==
    /\ phase = "Threw"
    /\ \/ cause \in {"denied", "guestRefused", "exhausted"}
       \/ cause = "unauthorized" /\ renewed

Delivered(f, n) ==
    \/ \E i \in DOMAIN delivered[f] : delivered[f][i] = n
    \/ phase = "Returned" \/ aborted
    \/ EndedForCause
    \/ f \in gaps

\* What is due is delivered, across any number of reconnects and expired
\* tokens, unless the stream ended for a cause or reported a gap, as long as
\* bodies end between events.
DeliversWhatIsDue ==
    \A f \in Fixtures, n \in SequenceNumbers :
       Due(f, n) /\ Start[f] < n ~> Delivered(f, n) \/ truncated

\* docs/txline-adapter.md, "Server-sent events": frames are parsed across
\* arbitrary chunks, and a reconnect takes up after the last event.
NoFrameIsLost ==
    \A f \in Fixtures, n \in SequenceNumbers :
       Due(f, n) /\ Start[f] < n ~> Delivered(f, n)
=============================================================================
