----------------------------- MODULE LiveMonitor -----------------------------
(***************************************************************************)
(* A match followed live: the route that hands on streamNormalizedScores   *)
(* (app/api/txline/scores/stream), the browser's EventSource and the       *)
(* monitor that listens to it (live-score-monitor.tsx).                    *)
(*                                                                         *)
(* Each connection of the browser starts a stream of its own.  The route   *)
(* gives its events ids, which a browser sends back when it reconnects,    *)
(* but does not read them: the new stream begins wherever TxLINE begins    *)
(* one.  Within a connection records come once and in order, which is what *)
(* ScoreStream promises while bodies end between events.                   *)
(***************************************************************************)
EXTENDS ReplayPlayer

VARIABLES
    published,      \* how many records of the match the feed has carried
    monitor,        \* ReplayState of the monitor
    banner,         \* connection: what the monitor says of itself
    staleTimer,     \* the 15 seconds are running
    live            \* its EventSource, and the record its stream comes to next

liveVars == <<published, monitor, banner, staleTimer, live>>

\* What the feed carries of the match, a malformed feed nothing.
Feed == IF IsPrepared THEN AllRecords ELSE <<>>

NotConnected == [phase |-> "closed", next |-> 0]

Unmonitored ==
    /\ monitor' = InitialReplayState
    /\ banner' = "connecting"
    /\ staleTimer' = FALSE

LiveInit ==
    /\ published = 0
    /\ monitor = InitialReplayState
    /\ banner = "connecting"
    /\ staleTimer = FALSE
    /\ live = NotConnected

Publish ==
    /\ published < Len(Feed)
    /\ published' = published + 1
    /\ UNCHANGED <<monitor, banner, staleTimer, live>>

\* The effect of the first rendering connects.
Mounts ==
    /\ Unmonitored
    /\ live' = [phase |-> "connecting", next |-> 0]
    /\ UNCHANGED published

Leaves ==
    /\ Unmonitored
    /\ live' = NotConnected
    /\ UNCHANGED published

\* Faulty... operators are plausible slips in the operator that follows them.
FaultyMarkActive(isFinal) == banner' = "connected" /\ UNCHANGED staleTimer

\* A final record is not followed by others: nothing can get stale.
MarkActive(isFinal) == banner' = "connected" /\ staleTimer' = ~isFinal

LiveOpens(next) ==
    /\ live.phase = "connecting"
    /\ live' = [phase |-> "open", next |-> next]
    /\ MarkActive(FALSE)
    /\ monitor' = WithStatus(monitor, "running")
    /\ UNCHANGED published

LiveHears ==
    /\ live.phase = "open"
    /\ live.next <= published
    /\ live' = [live EXCEPT !.next = @ + 1]
    /\ MarkActive(Feed[live.next].isFinal)
    /\ monitor' = Reduced(monitor, Feed[live.next])
    /\ UNCHANGED published

\* The network, the server or, with an "error" event first, the stream behind
\* the route ends the connection; the browser opens it again by itself.
LiveBreaks ==
    /\ live.phase # "closed"
    /\ live' = [phase |-> "connecting", next |-> 0]
    /\ banner' = "reconnecting"
    /\ UNCHANGED <<published, monitor, staleTimer>>

\* The route answers with an error instead of a stream: the browser gives up.
LiveIsRefused ==
    /\ live.phase = "connecting"
    /\ live' = NotConnected
    /\ banner' = "reconnecting"
    /\ UNCHANGED <<published, monitor, staleTimer>>

GetsStale ==
    /\ staleTimer
    /\ staleTimer' = FALSE
    /\ banner' = "stale"
    /\ UNCHANGED <<published, monitor, live>>

\* "Retry now"
Retry ==
    /\ banner \in {"reconnecting", "stale"}
    /\ live' = [phase |-> "connecting", next |-> 0]
    /\ UNCHANGED <<published, monitor, banner, staleTimer>>
=============================================================================
