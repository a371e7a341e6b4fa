---------------------------- MODULE ReplayPlayer ----------------------------
(***************************************************************************)
(* A finished match played back: the route that streams the history          *)
(* (app/api/replay), the browser's EventSource, the player that listens to   *)
(* it (replay-match.tsx) and the reducer of packages/replay.                 *)
(*                                                                           *)
(* An EventSource whose connection breaks opens it again by itself, with the *)
(* URL it was made with: the server starts over after the sequence that was  *)
(* current then.  The handlers of a click know the state as it was last      *)
(* rendered; events change it in between.  Delays and speeds are left out: a *)
(* change of speed only closes the connection.                               *)
(***************************************************************************)
EXTENDS TxlineRecords

CONSTANTS
    Fixture,         \* the fixture played
    Answers,         \* what TxLINE may answer when asked for the history
    TimelineLimit    \* REPLAY_TIMELINE_LIMIT

ASSUME TimelineAssumption == TimelineLimit \in Nat \ {0}
ASSUME AnswersAssumption ==
    /\ Answers \subseteq [shape : {"array", "wrapped", "object", "scalar"}, items : Seq(RawRecords)]
    /\ \A a \in Answers : a.shape = "object" => a.items # <<>>

VARIABLES
    answer,          \* what the adapter makes of the history TxLINE has
    player,          \* ReplayState
    rendered,        \* its value at the last rendering (latestState)
    source,          \* the EventSource, and what of its stream has been heard
    completionSent

playerVars == <<player, rendered, source, completionSent>>

Nothing == -1
InitialReplayState ==
    [status |-> "idle", total |-> 0, processed |-> 0, current |-> Nothing,
     lifecycle |-> "scheduled", goals |-> NotGiven, timeline |-> <<>>]
NoSource == [phase |-> "closed", after |-> 0, heard |-> 0]

\* The records of a history that can be read, in order.
Read(raw) ==
    IF IsCollection(raw) THEN [readable |-> TRUE, records |-> HistoricalScores(raw)]
    ELSE [readable |-> FALSE, records |-> <<>>]

PlayerInit ==
    /\ answer \in {Read(raw) : raw \in Answers}
    /\ player = InitialReplayState
    /\ rendered = InitialReplayState
    /\ source = NoSource
    /\ completionSent = FALSE

-----------------------------------------------------------------------------
(* The route.  Faulty... operators are plausible slips in the operator that *)
(* follows them; nothing uses them.                                         *)

\* prepareReplayRecords accepts the history: it throws for a record of another
\* fixture, and for a sequence that is there twice.
AllRecords == answer.records
IsPrepared ==
    /\ answer.readable
    /\ \A i \in DOMAIN AllRecords : AllRecords[i].fixture = Fixture
    /\ \A i, j \in DOMAIN AllRecords :
          AllRecords[i].sequence = AllRecords[j].sequence => i = j

RecordsAfter(sequence) ==
    Kept(AllRecords, {i \in DOMAIN AllRecords : AllRecords[i].sequence > sequence})

\* The events of one connection: the meta data, the records, the end.
NextRecord == RecordsAfter(source.after)[source.heard]
MetaIsNext == source.phase = "streaming" /\ source.heard = 0
ScoreIsNext ==
    source.phase = "streaming" /\ source.heard \in DOMAIN RecordsAfter(source.after)
EndIsNext ==
    source.phase = "streaming" /\ source.heard = Len(RecordsAfter(source.after)) + 1

-----------------------------------------------------------------------------
(* The reducer                                                             *)

WithStatus(state, status) == [state EXCEPT !.status = status]

LastOf(items) ==
    SubSeq(items, IF Len(items) > TimelineLimit THEN Len(items) - TimelineLimit + 1 ELSE 1,
           Len(items))

Taken(state, record) ==
    [state EXCEPT
        !.status = IF record.isFinal THEN "complete" ELSE "running",
        !.processed = @ + 1,
        !.current = record.sequence,
        !.lifecycle = record.lifecycle,
        !.goals = record.goals,
        !.timeline = LastOf(Append(@, record.sequence))]

FaultyReduced(state, record) ==
    IF record.sequence < state.current THEN state ELSE Taken(state, record)

\* reduceReplayRecord
Reduced(state, record) ==
    IF record.sequence <= state.current THEN state ELSE Taken(state, record)

-----------------------------------------------------------------------------
(* The clicks.  They are rendered, with what they change, at once.            *)

Shows(state) == player' = state /\ rendered' = state

Connected(state, after) ==
    /\ Shows(WithStatus(state, "running"))
    /\ source' = [phase |-> "connecting", after |-> after, heard |-> 0]

StartOrResume ==
    /\ rendered.status \notin {"running", "complete"}
    /\ Connected(player, IF rendered.current = Nothing THEN 0 ELSE rendered.current)
    /\ UNCHANGED <<answer, completionSent>>

Pause ==
    /\ rendered.status = "running"
    /\ source' = NoSource
    /\ Shows(WithStatus(player, "paused"))
    /\ UNCHANGED <<answer, completionSent>>

Restart ==
    /\ completionSent' = FALSE
    /\ Connected(InitialReplayState, 0)
    /\ UNCHANGED answer

ChangeSpeed ==
    /\ source' = NoSource
    /\ Shows(IF rendered.status = "running" THEN WithStatus(player, "paused") ELSE player)
    /\ UNCHANGED <<answer, completionSent>>

\* The player leaves the page: its effect closes the source, its state is gone.
Unmounts ==
    /\ player' = InitialReplayState
    /\ rendered' = InitialReplayState
    /\ source' = NoSource
    /\ completionSent' = FALSE

-----------------------------------------------------------------------------
(* The connection and its events                                           *)

StreamOpens ==
    /\ source.phase = "connecting"
    /\ IsPrepared
    /\ source' = [source EXCEPT !.phase = "streaming"]
    /\ UNCHANGED <<answer, player, rendered, completionSent>>

\* TxLINE did not answer, or with a history that is refused: the route answers
\* with an error, after which an EventSource does not try again.
CallsOnError == source.phase = "connecting"
StreamIsRefused ==
    /\ CallsOnError
    /\ source' = NoSource
    /\ player' = IF player.status = "complete" THEN player ELSE WithStatus(player, "error")
    /\ UNCHANGED <<answer, rendered, completionSent>>

ConnectionBreaks ==
    /\ source.phase = "streaming"
    /\ source' = [source EXCEPT !.phase = "connecting", !.heard = 0]
    /\ UNCHANGED <<answer, player, rendered, completionSent>>

HearMeta ==
    /\ MetaIsNext
    /\ source' = [source EXCEPT !.heard = 1]
    /\ player' = [player EXCEPT !.total = Len(AllRecords)]
    /\ UNCHANGED <<answer, rendered, completionSent>>

CallsOnComplete == ScoreIsNext /\ NextRecord.isFinal /\ ~completionSent
HearScore ==
    /\ ScoreIsNext
    /\ source' = [source EXCEPT !.heard = @ + 1]
    /\ player' = Reduced(player, NextRecord)
    /\ completionSent' = (completionSent \/ NextRecord.isFinal)
    /\ UNCHANGED <<answer, rendered>>

FaultyStatusAtEnd(state) == state.status
StatusAtEnd(state) == IF state.lifecycle = "finalized" THEN "complete" ELSE state.status

HearEnd ==
    /\ EndIsNext
    /\ source' = NoSource
    /\ player' = WithStatus(player, StatusAtEnd(player))
    /\ UNCHANGED <<answer, rendered, completionSent>>

Render ==
    /\ rendered # player
    /\ rendered' = player
    /\ UNCHANGED <<answer, player, source, completionSent>>
=============================================================================
