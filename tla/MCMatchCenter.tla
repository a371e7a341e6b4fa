---------------------------- MODULE MCMatchCenter ----------------------------
(* Small instances of MatchCenter for TLC.                                    *)
EXTENDS MatchCenter

Raw(sequence, action, status, goals) ==
    [fixture |-> Fixture, sequence |-> sequence, time |-> sequence + 1, action |-> action,
     status |-> status, gameState |-> "", goals |-> goals]

KickOff == Raw(0, "kickoff", 2, 0)
Goal == Raw(1, "goal", 4, 1)
Whistle == Raw(2, "game_ended", 100, 1)
Final == Raw(3, "game_finalised", 100, 1)
Late == Raw(4, "action_amend", 5, 2)
Foreign == [Goal EXCEPT !.fixture = Fixture + 1]
Broken == [NoFields EXCEPT !.fixture = Fixture]

Listed(items) == [shape |-> "array", items |-> items]

\* In order and not, with records after the final one, with two of the same
\* sequence, of another fixture, unreadable, and none at all.
MCAnswers ==
    {Listed(items) : items \in
        {<<KickOff, Goal, Whistle, Final>>, <<Final, Goal, KickOff>>, <<Goal, Final, Late>>,
         <<Goal, Goal, Final>>, <<Goal, Final, Foreign>>, <<Goal, Broken>>, <<Whistle, Goal>>}}
    \cup {[shape |-> "object", items |-> <<Final>>], [shape |-> "scalar", items |-> <<>>]}
=============================================================================
