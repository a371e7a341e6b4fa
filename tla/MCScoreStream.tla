---------------------------- MODULE MCScoreStream ----------------------------
(* Small instances of ScoreStream for TLC.                                  *)
EXTENDS ScoreStream, TLC

CONSTANTS f, g

\* f resumes after sequence number 0, g starts with what comes first.
MCResume == [fixture \in Fixtures |-> IF fixture = f THEN 0 ELSE Unset]
=============================================================================
