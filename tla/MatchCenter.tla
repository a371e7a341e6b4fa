----------------------------- MODULE MatchCenter -----------------------------
(***************************************************************************)
(* The pages that show a match: the judge demo with its player, or the     *)
(* match center (match-center.tsx), which shows the player or the live     *)
(* monitor.  "Both modes consume the same normalized score record and      *)
(* reducer."  What is not shown is not mounted and keeps nothing.          *)
(***************************************************************************)
EXTENDS JudgeDemo, LiveMonitor

VARIABLES
    page,           \* "demo" or "match"
    mode            \* of the match center: "replay" or "live"

pagesVars == <<vars, liveVars, page, mode>>

PagesInit ==
    /\ Init
    /\ LiveInit
    /\ page \in {"demo", "match"}
    /\ mode = "replay"

Demo ==
    /\ page = "demo"
    /\ Next
    /\ UNCHANGED <<liveVars, page, mode>>

-----------------------------------------------------------------------------
(* The match center                                                        *)

InMode(m) ==
    /\ page = "match"
    /\ mode = m
    /\ UNCHANGED <<answer, page, demoVars, history>>

WatchLive ==
    /\ InMode("replay")
    /\ mode' = "live"
    /\ Unmounts
    /\ Mounts

WatchReplay ==
    /\ InMode("live")
    /\ mode' = "replay"
    /\ Leaves
    /\ UNCHANGED playerVars

Replaying == InMode("replay") /\ UNCHANGED <<mode, liveVars>>

ReplayIsUsed == Replaying /\ (StartOrResume \/ Pause \/ ChangeSpeed)
ReplayRestarts == Replaying /\ Restart
ReplayRenders == Replaying /\ Render
ReplayListens ==
    Replaying /\ (StreamOpens \/ StreamIsRefused \/ HearMeta \/ HearScore \/ HearEnd)
ReplayLosesStream == Replaying /\ ConnectionBreaks

Watching == InMode("live") /\ UNCHANGED <<mode, playerVars>>

MonitorOpens == Watching /\ \E next \in 1 .. published + 1 : LiveOpens(next)
MonitorHears == Watching /\ LiveHears
MonitorFails == Watching /\ (LiveBreaks \/ LiveIsRefused)
MonitorWaits == Watching /\ (GetsStale \/ Retry)

MatchGoesOn ==
    /\ page = "match"
    /\ Publish
    /\ UNCHANGED <<vars, page, mode>>

PagesNext ==
    \/ Demo
    \/ WatchLive
    \/ WatchReplay
    \/ ReplayIsUsed
    \/ ReplayRestarts
    \/ ReplayRenders
    \/ ReplayListens
    \/ ReplayLosesStream
    \/ MonitorOpens
    \/ MonitorHears
    \/ MonitorFails
    \/ MonitorWaits
    \/ MatchGoesOn

PagesSpec == PagesInit /\ [][PagesNext]_pagesVars

(* As in JudgeDemo: the route answers, events that have arrived are handled,  *)
(* and at some time the connection holds and nobody restarts the replay.      *)
PagesFairness ==
    /\ Fairness
    /\ WF_pagesVars(ReplayListens)
    /\ <>[][~ReplayLosesStream /\ ~ReplayRestarts]_pagesVars

PagesFairSpec == PagesSpec /\ PagesFairness

-----------------------------------------------------------------------------
\* A monitor that says it is connected, with no timer running that will say
\* otherwise, has shown or will be sent on this connection everything the feed
\* has carried beyond what it shows: what a reconnect skipped is never passed
\* off as live for longer than 15 seconds.
ConnectedMeansCurrent ==
    banner = "connected" /\ ~staleTimer =>
       /\ live.phase = "open"
       /\ \A i \in 1 .. published : Feed[i].sequence > monitor.current => i >= live.next

-----------------------------------------------------------------------------
(* The inductive invariant of MatchCenterProofs                            *)

Statuses == {"idle", "running", "paused", "complete", "error"}
Lifecycles == {"scheduled", "live", "paused", "finalizing", "finalized", "unavailable", "unknown"}
ReplayStates ==
    [status : Statuses, total : Nat, processed : Nat, current : Nat \cup {Nothing},
     lifecycle : Lifecycles, goals : Int, timeline : Seq(Nat)]
SourceStates == [phase : {"closed", "connecting", "streaming"}, after : Nat, heard : Nat]
LiveStates == [phase : {"closed", "connecting", "open"}, next : Nat]
DemoStates ==
    [stage : {"select", "build", "join", "replay", "settlement"},
     fixture : {Fixture, NotGiven}, commitment : Conditions \cup {NoCondition},
     side : {"yes", "no", "None"}, replayComplete : BOOLEAN]

TypeOK ==
    /\ answer \in {Read(raw) : raw \in Answers}
    /\ player \in ReplayStates /\ rendered \in ReplayStates
    /\ source \in SourceStates
    /\ monitor \in ReplayStates
    /\ live \in LiveStates
    /\ published \in 0 .. Len(Feed)
    /\ demo \in DemoStates
    /\ page \in {"demo", "match"}

\* How many of the records have at most this sequence.
Reached(records, sequence) ==
    Cardinality({i \in DOMAIN records : records[i].sequence <= sequence})

\* The sequence a player has come to; nothing is sent before sequence 1.
Position(state) == IF state.current = Nothing THEN 0 ELSE state.current

\* What the state shows is what these records make, taken up to its current one.
Follows(state, records) ==
    LET first == Reached(records, 0)
        last == Reached(records, Position(state))
    IN  /\ state.current # Nothing =>
              /\ last > first
              /\ state.current = records[last].sequence
              /\ state.lifecycle = records[last].lifecycle
              /\ state.goals = records[last].goals
        /\ state.processed = last - first
        /\ state.timeline = LastOf([n \in 1 .. last - first |-> records[first + n].sequence])

PlayerFollows ==
    /\ player.current # Nothing => player.current > 0 /\ IsPrepared
    /\ IsPrepared => Follows(player, AllRecords)

\* A connection begins no later than where the player is, and has brought it
\* everything that comes before what it will bring next.
SourceFollows ==
    /\ rendered.current # Nothing =>
          player.current # Nothing /\ rendered.current \in 1 .. player.current
    /\ source.after <= Position(player)
    /\ source.phase = "connecting" => source.heard = 0
    /\ source.phase = "streaming" =>
          /\ IsPrepared
          /\ Reached(AllRecords, source.after) + source.heard
                <= Reached(AllRecords, Position(player)) + 1

\* What counts as evidence that the match is over.
IsOver(known, records) ==
    \E final \in known :
       /\ SaysFinal(final)
       /\ \A i \in DOMAIN records :
             records[i].sequence \in 1 .. final.sequence => records[i] \in known

\* The demo has heard all its player has taken; its replay is complete for a
\* reason, and nothing else opens the settlement.
DemoFollows ==
    /\ page = "match" => demo = InitialDemoState
    /\ page = "demo" /\ IsPrepared =>
          \A i \in Reached(AllRecords, 0) + 1 .. Reached(AllRecords, Position(player)) :
             AllRecords[i] \in heard
    /\ unavailable => failed
    /\ demo.replayComplete => failed \/ IsOver(heard, AllRecords)
    /\ demo.stage = "settlement" => demo.replayComplete

\* The monitor has come at least to the last record that a connection without a
\* running timer has brought.
MonitorFollows ==
    /\ live.phase = "open" => live.next \in 1 .. published + 1
    /\ banner = "connected" => live.phase = "open"
    /\ banner = "connected" /\ ~staleTimer =>
          live.next > 1 /\ Feed[live.next - 1].sequence <= monitor.current

IInv == TypeOK /\ PlayerFollows /\ SourceFollows /\ DemoFollows /\ MonitorFollows
=============================================================================
