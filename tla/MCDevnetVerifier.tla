-------------------------- MODULE MCDevnetVerifier --------------------------
(* A small instance of DevnetVerifier for TLC.                              *)
EXTENDS DevnetVerifier, TLC

CONSTANTS d, p

\* The accounts are empty until the verifier has minted.
NoTokens == d :> 0 @@ p :> 0
\* The goals and corners keys of the verifiers' condition.
ConditionKeys == <<1, 2, 7, 8>>
=============================================================================
