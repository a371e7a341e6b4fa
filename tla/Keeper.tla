------------------------------- MODULE Keeper -------------------------------
(***************************************************************************)
(* The settlement keepers (scripts/keeper) against the pools of the escrow  *)
(* program.  A keeper lists the pools, then takes each locked one through   *)
(* history, proof, refresh and submission; every await is a point where the *)
(* chain, TxLINE, another keeper or a crash may get in between.             *)
(*                                                                          *)
(* The chain is seen as PoolLifecycle.  A sent transaction is on its own:   *)
(* it lands, is rejected or expires whatever became of its sender.          *)
(***************************************************************************)
EXTENDS Naturals, FiniteSets

CONSTANTS
    Keepers,       \* keeper processes
    Pools,         \* pools of the program
    Scope,         \* Scope[k]: the pools k lists (all of them, or --pool)
    Unprovable,    \* pools whose proof never matches their finalized record
    MaxAttempts,   \* --max-attempts
    MaxSequence    \* bound on the score sequences of a fixture

ASSUME ScopeAssumption == Scope \in [Keepers -> SUBSET Pools]
ASSUME AttemptsAssumption == MaxAttempts \in Nat \ {0} /\ MaxSequence \in Nat

VARIABLES
    chain,       \* chain[p]: the pool's state and settled sequence
    feed,        \* feed[p]: the score records TxLINE has for p's fixture
    inflight,    \* settle_pool transactions sent and not yet decided
    pc,          \* pc[k]: where k stands
    listed,      \* listed[k][p]: the state k listed, until it takes p up
    job,         \* job[k]: the pool being processed
    result,      \* result[k][p]: what this run reported about p
    dryRun       \* the keepers started with --dry-run

local == <<listed, job, result>>
given == <<feed, dryRun>>
vars == <<chain, given, inflight, pc, local>>

Life(p) == INSTANCE PoolLifecycle WITH
               state <- chain[p].state, sequence <- chain[p].sequence

Unresolved == {"Open", "Locked"}
Outcomes == {"SettledYes", "SettledNo", "Cancelled", "Closed"}
Sequences == 1 .. MaxSequence
NoPool == "NoPool"
NoJob == [pool |-> NoPool, attempt |-> 1, sequence |-> 0, answer |-> "None"]
NoResult == [status |-> "None", cause |-> "None", sequence |-> 0]

Statuses == {"None", "settled", "alreadySettled", "awaitingLock", "awaitingFinalRecord",
             "readyDryRun", "retryableFailure", "terminalFailure"}
\* What a failed call threw: an error isRetryableKeeperError recognises, one
\* it does not, or the program's refusal of a pool that is no longer locked.
Causes == {"transient", "fatal", "resolved"}
Phases == {"History", "Proof", "Refresh", "Submit", "Confirm"}
Places == {"Starting", "Sleeping", "Choosing", "Halted", "Crashed"} \cup Phases

TypeOK ==
    /\ chain \in [Pools -> [state : Unresolved \cup Outcomes, sequence : 0 .. MaxSequence]]
    /\ feed \in [Pools -> SUBSET [sequence : Sequences, final : BOOLEAN]]
    /\ inflight \subseteq [by : Keepers, pool : Pools, sequence : Sequences,
                           awaited : BOOLEAN]
    /\ pc \in [Keepers -> Places]
    /\ listed \in [Keepers -> [Pools -> Unresolved \cup Outcomes \cup {"None"}]]
    /\ job \in [Keepers -> [pool : Pools \cup {NoPool}, attempt : 1 .. MaxAttempts,
                            sequence : 0 .. MaxSequence,
                            answer : {"None", "Pending", "Landed", "Rejected"}]]
    /\ result \in [Keepers -> [Pools -> [status : Statuses, cause : Causes \cup {"None"},
                                         sequence : 0 .. MaxSequence]]]
    /\ dryRun \subseteq Keepers

Init ==
    /\ chain = [p \in Pools |-> [state |-> "Open", sequence |-> 0]]
    /\ feed = [p \in Pools |-> {}]
    /\ inflight = {}
    /\ pc = [k \in Keepers |-> "Starting"]
    /\ listed = [k \in Keepers |-> [p \in Pools |-> "None"]]
    /\ job = [k \in Keepers |-> NoJob]
    /\ result = [k \in Keepers |-> [p \in Pools |-> NoResult]]
    /\ dryRun \in SUBSET Keepers

-----------------------------------------------------------------------------
(* One run: listing, and what the listed state alone decides *)

List(k) ==
    /\ pc[k] \in {"Starting", "Sleeping"}
    /\ listed' = [listed EXCEPT ![k] =
                     [p \in Pools |-> IF p \in Scope[k] THEN chain[p].state ELSE "None"]]
    /\ result' = [result EXCEPT ![k] = [p \in Pools |-> NoResult]]
    /\ pc' = [pc EXCEPT ![k] = "Choosing"]
    /\ UNCHANGED <<chain, given, inflight, job>>

\* Nothing catches an error of listPools or of run's own loadPool: it leaves
\* watch and ends the process.
ListFails(k) ==
    /\ pc[k] \in {"Starting", "Sleeping"}
    /\ pc' = [pc EXCEPT ![k] = "Halted"]
    /\ UNCHANGED <<chain, given, inflight, local>>

ReportOfListed(state) ==
    CASE state \in Outcomes -> "alreadySettled"
      [] state = "Open" -> "awaitingLock"
      [] OTHER -> "None"

Skip(k, p) ==
    /\ pc[k] = "Choosing"
    /\ listed[k][p] \notin {"None", "Locked"}
    /\ listed' = [listed EXCEPT ![k][p] = "None"]
    /\ result' = [result EXCEPT ![k][p].status = ReportOfListed(listed[k][p])]
    /\ UNCHANGED <<chain, given, inflight, pc, job>>

TakeUp(k, p) ==
    /\ pc[k] = "Choosing"
    /\ listed[k][p] = "Locked"
    /\ listed' = [listed EXCEPT ![k][p] = "None"]
    /\ job' = [job EXCEPT ![k] = [NoJob EXCEPT !.pool = p]]
    /\ pc' = [pc EXCEPT ![k] = "History"]
    /\ UNCHANGED <<chain, given, inflight, result>>

EndRun(k) ==
    /\ pc[k] = "Choosing"
    /\ \A p \in Pools : listed[k][p] = "None"
    /\ pc' = [pc EXCEPT ![k] = "Sleeping"]
    /\ UNCHANGED <<chain, given, inflight, local>>

-----------------------------------------------------------------------------
(* How a pool's processing goes on, or ends *)

Advance(k, phase, updated) ==
    /\ pc' = [pc EXCEPT ![k] = phase]
    /\ job' = [job EXCEPT ![k] = [updated EXCEPT !.attempt = 1]]
    /\ UNCHANGED <<listed, result>>

(* The operators named Faulty... are plausible slips in the operator that    *)
(* follows them; nothing uses them.                                          *)

FaultyAfterReport(k, status) ==
    IF status = "terminalFailure" THEN "Sleeping" ELSE "Choosing"
AfterReport(k, status) == "Choosing"

Report(k, status, cause) ==
    /\ result' = [result EXCEPT ![k][job[k].pool] =
                     [status |-> status, cause |-> cause, sequence |-> job[k].sequence]]
    /\ pc' = [pc EXCEPT ![k] = AfterReport(k, status)]
    /\ job' = [job EXCEPT ![k] = NoJob]
    /\ UNCHANGED listed

FaultyFailureStatus(cause) ==
    CASE cause = "transient" -> "retryableFailure"
      [] cause = "fatal" -> "terminalFailure"
      [] cause = "resolved" -> "settled"
FailureStatus(cause) ==
    CASE cause = "transient" -> "retryableFailure"
      [] cause = "fatal" -> "terminalFailure"
      [] cause = "resolved" -> "alreadySettled"

\* The text of a program's refusal may or may not look retryable too.
FaultyMayRetry(k, cause) == cause # "fatal" /\ job[k].attempt <= MaxAttempts
MayRetry(k, cause) == cause # "fatal" /\ job[k].attempt < MaxAttempts
MayGiveUp(k, cause) == cause # "transient" \/ job[k].attempt = MaxAttempts

\* #withRetry: the phase starts over, or its error ends the pool's processing.
PhaseFails(k, phase, cause) ==
    \/ /\ MayRetry(k, cause)
       /\ pc' = [pc EXCEPT ![k] = phase]
       /\ job' = [job EXCEPT ![k].attempt = @ + 1, ![k].answer = "None"]
       /\ UNCHANGED <<listed, result>>
    \/ /\ MayGiveUp(k, cause)
       /\ Report(k, FailureStatus(cause), cause)

-----------------------------------------------------------------------------
(* The phases of one pool *)

FaultyFinalSequences(p) == {r.sequence : r \in feed[p]}
FinalSequences(p) == {r.sequence : r \in {q \in feed[p] : q.final}}

HistoryFetched(k) ==
    LET finals == FinalSequences(job[k].pool) IN
    /\ pc[k] = "History"
    /\ IF finals = {}
       THEN Report(k, "awaitingFinalRecord", "None")
       ELSE \E newest \in finals :
               /\ \A other \in finals : other <= newest
               /\ Advance(k, "Proof", [job[k] EXCEPT !.sequence = newest])
    /\ UNCHANGED <<chain, given, inflight>>

HistoryFails(k, cause) ==
    /\ pc[k] = "History"
    /\ cause # "resolved"
    /\ PhaseFails(k, "History", cause)
    /\ UNCHANGED <<chain, given, inflight>>

ProofMatches(p) == p \notin Unprovable

ProofFetched(k) ==
    /\ pc[k] = "Proof"
    /\ IF ProofMatches(job[k].pool)
       THEN Advance(k, "Refresh", job[k])
       ELSE Report(k, "terminalFailure", "fatal")
    /\ UNCHANGED <<chain, given, inflight>>

ProofFails(k, cause) ==
    /\ pc[k] = "Proof"
    /\ cause # "resolved"
    /\ PhaseFails(k, "Proof", cause)
    /\ UNCHANGED <<chain, given, inflight>>

MaySubmit(k) == k \notin dryRun

Refreshed(k) ==
    /\ pc[k] = "Refresh"
    /\ IF chain[job[k].pool].state # "Locked" THEN Report(k, "alreadySettled", "None")
       ELSE IF MaySubmit(k) THEN Advance(k, "Submit", job[k])
       ELSE Report(k, "readyDryRun", "None")
    /\ UNCHANGED <<chain, given, inflight>>

\* This one call is not wrapped in #withRetry, and the catch of #runPool makes
\* a terminal failure of every error that is not a KeeperPhaseError.
RefreshFails(k, cause) ==
    /\ pc[k] = "Refresh"
    /\ cause # "resolved"
    /\ Report(k, "terminalFailure", cause)
    /\ UNCHANGED <<chain, given, inflight>>

Send(k) ==
    /\ pc[k] = "Submit"
    /\ chain[job[k].pool].state = "Locked"      \* preflight simulation
    /\ inflight' = inflight \cup {[by |-> k, pool |-> job[k].pool,
                                   sequence |-> job[k].sequence, awaited |-> TRUE]}
    /\ pc' = [pc EXCEPT ![k] = "Confirm"]
    /\ job' = [job EXCEPT ![k].answer = "Pending"]
    /\ UNCHANGED <<chain, given, listed, result>>

PreflightRefuses(k) ==
    /\ pc[k] = "Submit"
    /\ chain[job[k].pool].state # "Locked"
    /\ PhaseFails(k, "Submit", "resolved")
    /\ UNCHANGED <<chain, given, inflight>>

SendFails(k, cause) ==
    /\ pc[k] = "Submit"
    /\ cause # "resolved"
    /\ PhaseFails(k, "Submit", cause)
    /\ UNCHANGED <<chain, given, inflight>>

FaultyConfirms(answer) == answer \in {"Landed", "Rejected"}
Confirms(answer) == answer = "Landed"

Confirmed(k) ==
    /\ pc[k] = "Confirm"
    /\ Confirms(job[k].answer)
    /\ Report(k, "settled", "None")
    /\ UNCHANGED <<chain, given, inflight>>

\* The transaction failed on chain; its error may not be one
\* isAlreadySettledError knows.
ConfirmedFailed(k, cause) ==
    /\ pc[k] = "Confirm"
    /\ job[k].answer = "Rejected"
    /\ cause # "transient"
    /\ PhaseFails(k, "Submit", cause)
    /\ UNCHANGED <<chain, given, inflight>>

Orphaned(k) ==
    {IF tx.by = k THEN [tx EXCEPT !.awaited = FALSE] ELSE tx : tx \in inflight}

\* The wait times out or the connection breaks: the transaction may have
\* landed, be lost, or still be on its way.
ConfirmationLost(k, cause) ==
    /\ pc[k] = "Confirm"
    /\ cause # "resolved"
    /\ PhaseFails(k, "Submit", cause)
    /\ inflight' = Orphaned(k)
    /\ UNCHANGED <<chain, given>>

-----------------------------------------------------------------------------
(* The keeper's process *)

Crash(k) ==
    /\ pc[k] \notin {"Crashed", "Halted"}
    /\ pc' = [pc EXCEPT ![k] = "Crashed"]
    /\ listed' = [listed EXCEPT ![k] = [p \in Pools |-> "None"]]
    /\ job' = [job EXCEPT ![k] = NoJob]
    /\ result' = [result EXCEPT ![k] = [p \in Pools |-> NoResult]]
    /\ inflight' = Orphaned(k)
    /\ UNCHANGED <<chain, given>>

Restart(k) ==
    /\ pc[k] \in {"Crashed", "Halted"}
    /\ pc' = [pc EXCEPT ![k] = "Starting"]
    /\ UNCHANGED <<chain, given, inflight, local>>

-----------------------------------------------------------------------------
(* The chain and TxLINE *)

AcceptsSettlement(p) == chain[p].state = "Locked"

Answered(tx, answer) ==
    /\ inflight' = inflight \ {tx}
    /\ job' = IF tx.awaited THEN [job EXCEPT ![tx.by].answer = answer] ELSE job
    /\ UNCHANGED <<given, pc, listed, result>>

Land(tx) ==
    /\ AcceptsSettlement(tx.pool)
    /\ \E outcome \in Outcomes :
          chain' = [chain EXCEPT ![tx.pool] = [state |-> outcome, sequence |-> tx.sequence]]
    /\ Answered(tx, "Landed")

Refuse(tx) ==
    /\ ~AcceptsSettlement(tx.pool)
    /\ Answered(tx, "Rejected")
    /\ UNCHANGED chain

Expire(tx) ==
    /\ inflight' = inflight \ {tx}
    /\ UNCHANGED <<chain, given, pc, local>>

\* Everybody else who may act on a pool: lockers, cancellers, other settlers, a
\* demo pool's creator, claimants.
OthersMove(p) ==
    /\ \E next \in [state : Unresolved \cup Outcomes, sequence : 0 .. MaxSequence] :
          chain' = [chain EXCEPT ![p] = next]
    /\ Life(p)!Next
    /\ UNCHANGED <<given, inflight, pc, local>>

\* Provisional records, the final one, and corrections after it.
ScoreArrives(p, final) ==
    /\ Cardinality(feed[p]) < MaxSequence
    /\ feed' = [feed EXCEPT ![p] =
                   @ \cup {[sequence |-> Cardinality(@) + 1, final |-> final]}]
    /\ UNCHANGED <<chain, inflight, pc, local, dryRun>>

KeeperStep(k) ==
    \/ List(k)
    \/ ListFails(k)
    \/ \E p \in Pools : Skip(k, p) \/ TakeUp(k, p)
    \/ EndRun(k)
    \/ HistoryFetched(k)
    \/ ProofFetched(k)
    \/ Refreshed(k)
    \/ Send(k)
    \/ PreflightRefuses(k)
    \/ Confirmed(k)
    \/ \E cause \in Causes :
          \/ HistoryFails(k, cause)
          \/ ProofFails(k, cause)
          \/ RefreshFails(k, cause)
          \/ SendFails(k, cause)
          \/ ConfirmedFailed(k, cause)
          \/ ConfirmationLost(k, cause)

Next ==
    \/ \E k \in Keepers : KeeperStep(k)
    \/ \E k \in Keepers : Crash(k)
    \/ \E k \in Keepers : Restart(k)
    \/ \E tx \in inflight : Land(tx)
    \/ \E tx \in inflight : Refuse(tx)
    \/ \E tx \in inflight : Expire(tx)
    \/ \E p \in Pools : OthersMove(p)
    \/ \E p \in Pools, final \in BOOLEAN : ScoreArrives(p, final)

Spec == Init /\ [][Next]_vars

-----------------------------------------------------------------------------
(* Safety                                                                  *)

\* Only what the pipeline has established reaches the chain: a transaction in
\* flight carries the sequence of a game_finalised record of the pool's own
\* fixture, was backed by a matching proof, and no dry run sent it.
OnlyProvenFinalsAreSent ==
    \A tx \in inflight :
       /\ [sequence |-> tx.sequence, final |-> TRUE] \in feed[tx.pool]
       /\ tx.pool \notin Unprovable
       /\ tx.by \notin dryRun

\* What a run reports is true of the chain whatever happened since: settled
\* means that the reported sequence is the recorded one, alreadySettled that
\* there is nothing left to settle.
ReportsAreTrue ==
    \A k \in Keepers, p \in Pools :
       LET report == result[k][p] IN
       /\ report.status = "settled" =>
             /\ chain[p].state \in Outcomes
             /\ chain[p].sequence = report.sequence
       /\ report.status = "alreadySettled" => chain[p].state \in Outcomes

\* Keepers that say they have settled a pool, or are about to.
Credited(p) ==
    {k \in Keepers :
       \/ result[k][p].status = "settled"
       \/ pc[k] = "Confirm" /\ job[k].pool = p /\ job[k].answer = "Landed"}

\* A settlement is credited to one keeper: of several whose transactions were on
\* their way at once, one has settled the pool, and to the others, as to one that
\* retries after a lost confirmation or a restart, the refusal "already settled"
\* never counts as a settlement of their own.
OneKeeperSettles ==
    \A p \in Pools : \A k, other \in Credited(p) : k = other

\* A completed run has dealt with every pool in its scope: no failure of one
\* pool keeps the run from the pools listed after it.
RunsCoverTheirScope ==
    \A k \in Keepers :
       pc[k] = "Sleeping" => \A p \in Scope[k] : result[k][p].status # "None"

(* The inductive invariant behind the theorems of KeeperProofs.             *)

\* What a keeper in the middle of a pool has established about it: each phase
\* adds its own result to those of the phases before it, and nothing that
\* happens meanwhile takes one back.
JobIsCoherent(k) ==
    LET pool == job[k].pool IN
    /\ pc[k] \in Phases => pool \in Pools /\ chain[pool].state # "Open"
    /\ pc[k] \in Phases \ {"History"} =>
          [sequence |-> job[k].sequence, final |-> TRUE] \in feed[pool]
    /\ pc[k] \in {"Refresh", "Submit", "Confirm"} => pool \notin Unprovable
    /\ pc[k] \in {"Submit", "Confirm"} => k \notin dryRun
    /\ pc[k] = "Confirm" /\ job[k].answer = "Landed" =>
          chain[pool].state \in Outcomes /\ chain[pool].sequence = job[k].sequence
    /\ pc[k] = "Confirm" /\ job[k].answer = "Rejected" => chain[pool].state \in Outcomes

\* A list grows old, but no pool on it goes back in its life.
ListAgesWell(k) ==
    \A p \in Pools :
       /\ listed[k][p] = "Locked" => chain[p].state # "Open"
       /\ listed[k][p] \in Outcomes => chain[p].state \in Outcomes

\* During a run every pool in scope is on the list, in hand or reported.
NoneIsLost(k) ==
    pc[k] \in {"Choosing"} \cup Phases =>
       \A p \in Scope[k] :
          \/ listed[k][p] # "None"
          \/ result[k][p].status # "None"
          \/ pc[k] \in Phases /\ job[k].pool = p

\* A transaction somebody still waits for is the one of its sender's job, and
\* has no answer yet.
AwaitedIsTheJob ==
    \A tx \in inflight :
       tx.awaited =>
          /\ pc[tx.by] = "Confirm"
          /\ job[tx.by].pool = tx.pool
          /\ job[tx.by].sequence = tx.sequence
          /\ job[tx.by].answer = "Pending"

IInv ==
    /\ TypeOK
    /\ \A p \in Pools : IsFiniteSet(feed[p])
    /\ \A k \in Keepers : JobIsCoherent(k) /\ ListAgesWell(k) /\ NoneIsLost(k)
    /\ AwaitedIsTheJob
    /\ OnlyProvenFinalsAreSent
    /\ ReportsAreTrue
    /\ RunsCoverTheirScope

-----------------------------------------------------------------------------
(* Liveness                                                                *)

(* Calls return or throw and backoffs elapse; a service that is asked over   *)
(* and over for the same provable pool answers some day, and a transaction   *)
(* sent over and over lands.  Nothing restarts a keeper for ever, and        *)
(* nothing need restart it at all.                                           *)
For(p, k) == job[k].pool = p

Fairness ==
    /\ \A k \in Keepers : WF_vars(KeeperStep(k))
    /\ \A p \in Pools \ Unprovable :
          /\ \A k \in Keepers :
                /\ SF_vars(For(p, k) /\ HistoryFetched(k))
                /\ SF_vars(For(p, k) /\ ProofFetched(k))
                /\ SF_vars(For(p, k) /\ Refreshed(k))
                /\ SF_vars(For(p, k) /\ Send(k))
          /\ SF_vars(\E tx \in inflight : tx.pool = p /\ Land(tx))
    /\ <>[][\A k \in Keepers : ~Restart(k)]_vars

FairSpec == Spec /\ Fairness

Settleable(p) == chain[p].state = "Locked" /\ FinalSequences(p) # {}
Down(p) == \A k \in Keepers \ dryRun : p \in Scope[k] => pc[k] \in {"Halted", "Crashed"}

\* A locked pool with a provable final result is resolved, unless all keepers
\* that serve it have ended for good.
SettlesWhatItCan ==
    \A p \in Pools \ Unprovable :
       Settleable(p) ~> (chain[p].state \in Outcomes \/ []Down(p))
=============================================================================
