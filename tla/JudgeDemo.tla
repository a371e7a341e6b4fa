------------------------------ MODULE JudgeDemo ------------------------------
(***************************************************************************)
(* The guided demonstration (judge-demo.tsx over lib/demo-state.ts): a match *)
(* is chosen, a condition compiled, a pool joined, the match replayed by a   *)
(* ReplayPlayer, and the evidence of a settlement shown.                     *)
(*                                                                           *)
(* The player is on the page at the stage "replay" only, and tells the demo  *)
(* of the final record and of failures through callbacks.                    *)
(***************************************************************************)
EXTENDS ReplayPlayer

CONSTANT Conditions     \* what the judge may build

VARIABLES
    demo,           \* DemoState
    condition,      \* the ConfirmedCondition whose statement is shown
    side,           \* the side picked
    unavailable,    \* replayUnavailable
    heard,          \* history: records heard since the last reset
    failed          \* history: the player has reported an error since

demoVars == <<demo, condition, side, unavailable>>
history == <<heard, failed>>
vars == <<answer, playerVars, demoVars, history>>

NoCondition == "None"
ASSUME ConditionsAssumption == NoCondition \notin Conditions

InitialDemoState ==
    [stage |-> "select", fixture |-> NotGiven, commitment |-> NoCondition,
     side |-> "None", replayComplete |-> FALSE]

Init ==
    /\ PlayerInit
    /\ demo = InitialDemoState
    /\ condition = NoCondition
    /\ side = "yes"
    /\ unavailable = FALSE
    /\ heard = {}
    /\ failed = FALSE

-----------------------------------------------------------------------------
(* reduceDemoState: an action at another stage than its own changes nothing. *)

At(stage) == demo.stage = stage

PreviousStage(stage) ==
    CASE stage = "build" -> "select"
      [] stage = "join" -> "build"
      [] stage = "replay" -> "join"
      [] stage = "settlement" -> "replay"

Completed(state) ==
    IF state.stage = "replay" THEN [state EXCEPT !.replayComplete = TRUE] ELSE state

Stays == UNCHANGED <<answer, playerVars>>

SelectFixture ==
    /\ At("select")
    /\ demo' = [demo EXCEPT !.stage = "build", !.fixture = Fixture]
    /\ Stays
    /\ UNCHANGED <<condition, side, unavailable, history>>

Confirm(c) ==
    /\ At("build")
    /\ condition' = c
    /\ demo' = [demo EXCEPT !.stage = "join", !.commitment = c]
    /\ Stays
    /\ UNCHANGED <<side, unavailable, history>>

PickSide(s) ==
    /\ At("join")
    /\ side' = s
    /\ Stays
    /\ UNCHANGED <<demo, condition, unavailable, history>>

JoinPool ==
    /\ At("join")
    /\ side = "yes"
    /\ demo' = [demo EXCEPT !.stage = "replay", !.side = side]
    /\ Stays
    /\ UNCHANGED <<condition, side, unavailable, history>>

\* "Use verified final state"
UseFallback ==
    /\ At("replay")
    /\ unavailable /\ ~demo.replayComplete
    /\ demo' = Completed(demo)
    /\ Stays
    /\ UNCHANGED <<condition, side, unavailable, history>>

OpenSettlement ==
    /\ At("replay")
    /\ demo.replayComplete
    /\ demo' = [demo EXCEPT !.stage = "settlement"]
    /\ Unmounts
    /\ UNCHANGED <<answer, condition, side, unavailable, history>>

Back ==
    /\ ~At("select")
    /\ demo' = [demo EXCEPT !.stage = PreviousStage(@)]
    /\ Unmounts
    /\ UNCHANGED <<answer, condition, side, unavailable, history>>

\* Faulty... operators are plausible slips in the operator that follows them.
FaultyUnavailableAfterReset == unavailable
UnavailableAfterReset == FALSE

Reset ==
    /\ demo' = InitialDemoState
    /\ condition' = NoCondition
    /\ side' = "yes"
    /\ unavailable' = UnavailableAfterReset
    /\ Unmounts
    /\ heard' = {} /\ failed' = FALSE
    /\ UNCHANGED answer

-----------------------------------------------------------------------------
(* The player's steps, with its callbacks                                   *)

PlayerAlone ==
    /\ At("replay")
    /\ UNCHANGED <<demoVars, history>>

PlayerIsUsed == PlayerAlone /\ (StartOrResume \/ Pause \/ ChangeSpeed)
PlayerRestarts == PlayerAlone /\ Restart
PlayerRenders == PlayerAlone /\ Render
PlayerListens == PlayerAlone /\ (StreamOpens \/ HearMeta \/ HearEnd)
PlayerLosesStream == PlayerAlone /\ ConnectionBreaks

PlayerFails ==
    /\ At("replay")
    /\ StreamIsRefused
    /\ unavailable' = TRUE
    /\ failed' = TRUE
    /\ UNCHANGED <<demo, condition, side, heard>>

PlayerHears ==
    /\ At("replay")
    /\ HearScore
    /\ demo' = IF CallsOnComplete THEN Completed(demo) ELSE demo
    /\ heard' = heard \cup {NextRecord}
    /\ UNCHANGED <<condition, side, unavailable, failed>>

Next ==
    \/ SelectFixture
    \/ \E c \in Conditions : Confirm(c)
    \/ \E s \in {"yes", "no"} : PickSide(s)
    \/ JoinPool
    \/ UseFallback
    \/ OpenSettlement
    \/ Back
    \/ Reset
    \/ PlayerIsUsed
    \/ PlayerRestarts
    \/ PlayerRenders
    \/ PlayerListens
    \/ PlayerLosesStream
    \/ PlayerFails
    \/ PlayerHears

Spec == Init /\ [][Next]_vars

-----------------------------------------------------------------------------
(* Safety                                                                  *)

\* Whatever was delivered again by a connection that came back, or asked for
\* again by a click that knew an older state, the player has taken every record
\* of the history up to its current one exactly once and in order, and shows
\* the last of them.  (A record with the sequence 0 is never sent.)
CountsEachRecordOnce ==
    player.current # Nothing =>
       LET taken == Kept(AllRecords, {i \in DOMAIN AllRecords :
                       AllRecords[i].sequence \in 1 .. player.current})
           last == taken[Len(taken)]
       IN  /\ player.processed = Len(taken)
           /\ player.timeline = [i \in DOMAIN LastOf(taken) |-> LastOf(taken)[i].sequence]
           /\ player.current = last.sequence
           /\ player.lifecycle = last.lifecycle /\ player.goals = last.goals

\* TxLINE's own mark of a final record, as docs/replay-keeper-receipt.md gives
\* it: game_finalised with status 100.
SaysFinal(record) == record.action = "game_finalised" /\ record.status = 100

\* However the judge goes back and forth, restarts and resets, settlement
\* opens only after a failure of the replay was reported since the last reset,
\* or after the player was sent a final record and every record before it.
SettlementFollowsFinal ==
    At("settlement") =>
       \/ failed
       \/ \E final \in heard :
             /\ SaysFinal(final)
             /\ \A i \in DOMAIN AllRecords :
                   AllRecords[i].sequence \in 1 .. final.sequence => AllRecords[i] \in heard

-----------------------------------------------------------------------------
(* Liveness                                                                *)

(* The route answers, and events that have arrived are handled.  At some time *)
(* the connection holds for the rest of a match, and the judge stops          *)
(* restarting it.                                                             *)
Fairness ==
    /\ WF_vars(PlayerListens)
    /\ WF_vars(PlayerFails)
    /\ WF_vars(PlayerHears)
    /\ <>[][~PlayerLosesStream /\ ~PlayerRestarts]_vars

FairSpec == Spec /\ Fairness

\* The history of a match that is over: its last record is its only final one.
EndsWithTheFinal ==
    LET records == AllRecords IN
    records # <<>> /\ \A i \in DOMAIN records : records[i].isFinal <=> i = Len(records)

\* A replay that says it is running ends: it completes, is stopped or fails.
ReplayEnds ==
    player.status = "running" /\ (IsPrepared => EndsWithTheFinal) ~> player.status # "running"
=============================================================================
