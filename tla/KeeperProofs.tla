---------------------------- MODULE KeeperProofs ----------------------------
(***************************************************************************)
(* What Keeper guarantees for any keepers, pools and scopes: the reports of *)
(* a run are true, a run deals with its whole scope, only proven finals are *)
(* sent, and a settlement is credited to one keeper.                        *)
(***************************************************************************)
EXTENDS Keeper, FiniteSetTheorems, TLAPS

-----------------------------------------------------------------------------
(* The invariant, keeper by keeper                                          *)

Jobs == [pool : Pools \cup {NoPool}, attempt : 1 .. MaxAttempts,
         sequence : 0 .. MaxSequence,
         answer : {"None", "Pending", "Landed", "Rejected"}]
Results == [status : Statuses, cause : Causes \cup {"None"}, sequence : 0 .. MaxSequence]
Lists == [Pools -> Unresolved \cup Outcomes \cup {"None"}]
Chains == [Pools -> [state : Unresolved \cup Outcomes, sequence : 0 .. MaxSequence]]
Transactions == [by : Keepers, pool : Pools, sequence : Sequences, awaited : BOOLEAN]

OwnRun(k) ==
    /\ NoneIsLost(k)
    /\ pc[k] = "Sleeping" => \A p \in Scope[k] : result[k][p].status # "None"

OwnReports(k) ==
    \A p \in Pools :
       LET report == result[k][p] IN
       /\ report.status = "settled" =>
             /\ chain[p].state \in Outcomes
             /\ chain[p].sequence = report.sequence
       /\ report.status = "alreadySettled" => chain[p].state \in Outcomes

Own(k) == JobIsCoherent(k) /\ ListAgesWell(k) /\ OwnRun(k) /\ OwnReports(k)

Wire == AwaitedIsTheJob /\ OnlyProvenFinalsAreSent

\* The invariant, keeper by keeper.
LEMMA ByKeeper ==
    IInv <=> /\ TypeOK
             /\ \A p \in Pools : IsFiniteSet(feed[p])
             /\ Wire
             /\ \A k \in Keepers : Own(k)
  BY DEF IInv, Wire, Own, OwnRun, OwnReports, ReportsAreTrue, RunsCoverTheirScope

\* The same after a step.
LEMMA EveryKeeper ==
    ASSUME TypeOK', Wire', \A p \in Pools : IsFiniteSet(feed'[p]),
           \A k \in Keepers : Own(k)'
    PROVE  IInv'
  <1>1. \A k \in Keepers : (JobIsCoherent(k) /\ ListAgesWell(k) /\ NoneIsLost(k))'
    BY DEF Own, OwnRun
  <1>2. RunsCoverTheirScope'
    BY DEF RunsCoverTheirScope, Own, OwnRun
  <1>3. ReportsAreTrue'
    BY DEF ReportsAreTrue, Own, OwnReports
  <1> QED
    BY <1>1, <1>2, <1>3 DEF IInv, Wire

\* A step of one keeper leaves the others' parts alone.
Alone(k) ==
    \A j \in Keepers \ {k} : /\ pc'[j] = pc[j] /\ listed'[j] = listed[j]
                             /\ job'[j] = job[j] /\ result'[j] = result[j]

\* A step of one keeper that leaves the chain alone has only its own part to keep.
LEMMA OneKeeper ==
    ASSUME IInv, NEW k \in Keepers, UNCHANGED <<chain, given>>,
           TypeOK', Alone(k), Own(k)', Wire'
    PROVE  IInv'
  <1>1. ASSUME NEW j \in Keepers \ {k}
        PROVE  Own(j)'
    <2>1. Own(j)
      BY <1>1, ByKeeper
    <2>2. /\ pc'[j] = pc[j] /\ listed'[j] = listed[j]
          /\ job'[j] = job[j] /\ result'[j] = result[j]
      BY DEF Alone
    <2> QED
      BY <2>1, <2>2 DEF given, Own, JobIsCoherent, ListAgesWell, OwnRun, NoneIsLost,
                            OwnReports
  <1>2. \A p \in Pools : IsFiniteSet(feed'[p])
    BY DEF IInv, given
  <1>3. \A j \in Keepers : Own(j)'
    BY <1>1
  <1> QED
    BY <1>2, <1>3, EveryKeeper

-----------------------------------------------------------------------------
(* What is on the wire                                                      *)

\* k gives up waiting: for the transactions it leaves, or because none is its.
Released(k) ==
    \/ inflight' = Orphaned(k)
    \/ /\ inflight' = inflight
       /\ \A tx \in inflight : tx.by = k => ~tx.awaited

\* A keeper whose answer is not pending waits for nothing.
LEMMA NothingAwaited ==
    ASSUME IInv, NEW k \in Keepers, UNCHANGED inflight,
           pc[k] # "Confirm" \/ job[k].answer # "Pending"
    PROVE  Released(k)
  BY DEF IInv, AwaitedIsTheJob, Released

\* A keeper that lets go of its job leaves the wire in order.
LEMMA WireReleased ==
    ASSUME IInv, NEW k \in Keepers, UNCHANGED <<chain, given>>, Alone(k), Released(k)
    PROVE  inflight' \subseteq Transactions /\ Wire'
  <1>1. inflight \subseteq Transactions
    BY DEF IInv, TypeOK, Transactions
  <1>2. ASSUME NEW tx \in inflight'
        PROVE  \E old \in inflight :
                  /\ tx \in Transactions
                  /\ tx.by = old.by /\ tx.pool = old.pool /\ tx.sequence = old.sequence
                  /\ tx.awaited => old.awaited /\ tx.by # k
    <2>1. CASE inflight' = Orphaned(k)
      <3>1. PICK old \in inflight :
               tx = IF old.by = k THEN [old EXCEPT !.awaited = FALSE] ELSE old
        BY <2>1 DEF Orphaned
      <3> QED
        BY <1>1, <3>1 DEF Transactions
    <2>2. CASE inflight' = inflight /\ \A t \in inflight : t.by = k => ~t.awaited
      BY <1>1, <2>2 DEF Transactions
    <2> QED
      BY <2>1, <2>2 DEF Released
  <1>3. AwaitedIsTheJob'
    <2> SUFFICES ASSUME NEW tx \in inflight', tx.awaited
                 PROVE  /\ pc'[tx.by] = "Confirm"
                        /\ job'[tx.by].pool = tx.pool
                        /\ job'[tx.by].sequence = tx.sequence
                        /\ job'[tx.by].answer = "Pending"
      BY DEF AwaitedIsTheJob
    <2>1. PICK old \in inflight :
             /\ tx \in Transactions
             /\ tx.by = old.by /\ tx.pool = old.pool /\ tx.sequence = old.sequence
             /\ old.awaited /\ tx.by # k
      BY <1>2
    <2>2. tx.by \in Keepers \ {k}
      BY <2>1 DEF Transactions
    <2> QED
      BY <2>1, <2>2 DEF IInv, AwaitedIsTheJob, Alone
  <1>4. OnlyProvenFinalsAreSent'
    <2> SUFFICES ASSUME NEW tx \in inflight'
                 PROVE  /\ [sequence |-> tx.sequence, final |-> TRUE] \in feed'[tx.pool]
                        /\ tx.pool \notin Unprovable
                        /\ tx.by \notin dryRun'
      BY DEF OnlyProvenFinalsAreSent
    <2>1. PICK old \in inflight :
             tx.by = old.by /\ tx.pool = old.pool /\ tx.sequence = old.sequence
      BY <1>2
    <2>2. [sequence |-> tx.sequence, final |-> TRUE]
             = [sequence |-> old.sequence, final |-> TRUE]
      BY <2>1
    <2> QED
      BY <2>1, <2>2 DEF IInv, OnlyProvenFinalsAreSent, given
  <1> QED
    BY <1>2, <1>3, <1>4 DEF Wire

-----------------------------------------------------------------------------
(* How a pool's processing goes on, or ends                                 *)

\* A report that is true of the chain.
LEMMA Reporting ==
    ASSUME IInv, NEW k \in Keepers, NEW status \in Statuses \ {"None"},
           NEW cause \in Causes \cup {"None"}, pc[k] \in Phases,
           Report(k, status, cause), UNCHANGED <<chain, given>>, Released(k),
           status = "settled" => /\ chain[job[k].pool].state \in Outcomes
                                 /\ chain[job[k].pool].sequence = job[k].sequence,
           status = "alreadySettled" => chain[job[k].pool].state \in Outcomes
    PROVE  IInv'
  <1> DEFINE p == job[k].pool
             report == [status |-> status, cause |-> cause, sequence |-> job[k].sequence]
  <1>1. p \in Pools /\ job[k] \in Jobs /\ NoJob \in Jobs /\ report \in Results
    <2>1. p \in Pools /\ job[k] \in Jobs
      BY DEF IInv, JobIsCoherent, TypeOK, Jobs
    <2>2. NoJob \in Jobs
      BY AttemptsAssumption DEF Jobs, NoJob
    <2> QED
      BY <2>1, <2>2 DEF Jobs, Results
  <1>2. /\ pc' = [pc EXCEPT ![k] = "Choosing"]
        /\ job' = [job EXCEPT ![k] = NoJob]
        /\ result' = [result EXCEPT ![k][p] = report]
        /\ listed' = listed
    BY DEF Report, AfterReport
  <1> HIDE DEF p, report
  <1>3. /\ pc'[k] = "Choosing" /\ job'[k] = NoJob /\ listed'[k] = listed[k]
        /\ result'[k][p] = report
        /\ \A x \in Pools \ {p} : result'[k][x] = result[k][x]
        /\ Alone(k)
    BY <1>1, <1>2 DEF IInv, TypeOK, Alone
  <1>4. TypeOK'
    <2>1. inflight' \subseteq Transactions
      BY <1>3, WireReleased
    <2>2. pc' \in [Keepers -> Places] /\ job' \in [Keepers -> Jobs]
          /\ result' \in [Keepers -> [Pools -> Results]]
      BY <1>1, <1>2 DEF IInv, TypeOK, Places, Jobs, Results
    <2> QED
      BY <1>2, <2>1, <2>2 DEF IInv, TypeOK, given, Jobs, Results, Transactions
  <1>5. Own(k)'
    <2>1. Own(k)
      BY ByKeeper
    <2>2. JobIsCoherent(k)' /\ ListAgesWell(k)'
      BY <1>3, <2>1 DEF Own, JobIsCoherent, ListAgesWell, Phases
    <2>3. OwnRun(k)'
      <3> SUFFICES ASSUME NEW x \in Scope[k]
                   PROVE  listed'[k][x] # "None" \/ result'[k][x].status # "None"
        BY <1>3 DEF OwnRun, NoneIsLost, Phases
      <3>1. x \in Pools
        BY ScopeAssumption
      <3>2. CASE x = p
        BY <1>3, <3>2 DEF report
      <3>3. CASE x # p
        BY <1>3, <2>1, <3>1, <3>3 DEF Own, OwnRun, NoneIsLost, p
      <3> QED
        BY <3>2, <3>3
    <2>4. OwnReports(k)'
      <3> SUFFICES ASSUME NEW x \in Pools
                   PROVE  /\ result'[k][x].status = "settled" =>
                                /\ chain'[x].state \in Outcomes
                                /\ chain'[x].sequence = result'[k][x].sequence
                          /\ result'[k][x].status = "alreadySettled" =>
                                chain'[x].state \in Outcomes
        BY DEF OwnReports
      <3>1. CASE x = p
        BY <1>3, <3>1 DEF report, p
      <3>2. CASE x # p
        BY <1>3, <2>1, <3>2 DEF Own, OwnReports
      <3> QED
        BY <3>1, <3>2
    <2> QED
      BY <2>2, <2>3, <2>4 DEF Own
  <1>6. Wire'
    BY <1>3, WireReleased
  <1> QED
    BY <1>3, <1>4, <1>5, <1>6, OneKeeper

\* Going to a phase, or back to it, with what that phase needs established.
LEMMA Proceeding ==
    ASSUME IInv, NEW k \in Keepers, NEW phase \in Phases \ {"Confirm"},
           NEW updated \in Jobs, pc[k] \in Phases,
           pc' = [pc EXCEPT ![k] = phase], job' = [job EXCEPT ![k] = updated],
           UNCHANGED <<listed, result, chain, given>>, Released(k),
           updated.pool = job[k].pool,
           phase # "History" =>
              [sequence |-> updated.sequence, final |-> TRUE] \in feed[updated.pool],
           phase \in {"Refresh", "Submit"} => updated.pool \notin Unprovable,
           phase = "Submit" => k \notin dryRun
    PROVE  IInv'
  <1>1. /\ pc'[k] = phase /\ job'[k] = updated
        /\ Alone(k)
    BY DEF IInv, TypeOK, Alone
  <1>2. TypeOK'
    <2>1. inflight' \subseteq Transactions
      BY <1>1, WireReleased
    <2>2. pc' \in [Keepers -> Places] /\ job' \in [Keepers -> Jobs]
      BY DEF IInv, TypeOK, Places, Jobs
    <2> QED
      BY <2>1, <2>2 DEF IInv, TypeOK, given, Jobs, Transactions
  <1>3. Own(k)'
    <2>1. Own(k)
      BY ByKeeper
    <2>2. JobIsCoherent(k)'
      BY <1>1, <2>1 DEF Own, JobIsCoherent, given, Phases
    <2>3. ListAgesWell(k)' /\ OwnReports(k)'
      BY <2>1 DEF Own, ListAgesWell, OwnReports
    <2>4. OwnRun(k)'
      BY <1>1, <2>1 DEF Own, OwnRun, NoneIsLost, Phases
    <2> QED
      BY <2>2, <2>3, <2>4 DEF Own
  <1>4. Wire'
    BY <1>1, WireReleased
  <1> QED
    BY <1>1, <1>2, <1>3, <1>4, OneKeeper

\* A phase that fails starts over or ends with a report.
LEMMA Failing ==
    ASSUME IInv, NEW k \in Keepers, NEW phase, NEW cause \in Causes, pc[k] \in Phases,
           phase \in {"History", "Proof", "Submit"},
           pc[k] = phase \/ (pc[k] = "Confirm" /\ phase = "Submit"),
           PhaseFails(k, phase, cause), UNCHANGED <<chain, given>>, Released(k),
           cause = "resolved" => chain[job[k].pool].state \in Outcomes
    PROVE  IInv'
  <1>1. CASE Report(k, FailureStatus(cause), cause)
    <2>1. /\ FailureStatus(cause) \in Statuses \ {"None", "settled"}
          /\ FailureStatus(cause) = "alreadySettled" => cause = "resolved"
      BY DEF FailureStatus, Causes, Statuses
    <2> QED
      BY <1>1, <2>1, Reporting
  <1>2. CASE /\ MayRetry(k, cause)
             /\ pc' = [pc EXCEPT ![k] = phase]
             /\ job' = [job EXCEPT ![k].attempt = @ + 1, ![k].answer = "None"]
             /\ UNCHANGED <<listed, result>>
    <2> DEFINE updated == [job[k] EXCEPT !.attempt = @ + 1, !.answer = "None"]
    <2>1. job[k] \in Jobs /\ Own(k)
      BY ByKeeper DEF TypeOK, Jobs
    <2>2. job[k].attempt < MaxAttempts
      BY <1>2 DEF MayRetry
    <2>3. updated \in Jobs /\ updated.pool = job[k].pool
          /\ updated.sequence = job[k].sequence
      <3> DEFINE attempt == job[k].attempt + 1
      <3>1. attempt \in 1 .. MaxAttempts
        BY <2>1, <2>2, AttemptsAssumption DEF Jobs
      <3> HIDE DEF attempt
      <3>2. updated = [job[k] EXCEPT !.attempt = attempt, !.answer = "None"]
        BY DEF attempt
      <3> QED
        BY <2>1, <3>1, <3>2 DEF Jobs
    <2>4. job' = [job EXCEPT ![k] = updated]
      BY <1>2 DEF IInv, TypeOK
    <2> HIDE DEF updated
    <2>5. PICK u \in Jobs : u = updated
      BY <2>3
    <2> QED
      BY <1>2, <2>1, <2>3, <2>4, <2>5, Proceeding DEF Own, JobIsCoherent, Phases
  <1> QED
    BY <1>1, <1>2 DEF PhaseFails

-----------------------------------------------------------------------------
(* The steps of a keeper                                                    *)

\* The start of a cycle keeps the invariant.
LEMMA Listing ==
    ASSUME IInv, NEW k \in Keepers, List(k)
    PROVE  IInv'
  <1> DEFINE seen == [p \in Pools |-> IF p \in Scope[k] THEN chain[p].state ELSE "None"]
             blank == [p \in Pools |-> NoResult]
  <1>1. /\ listed' = [listed EXCEPT ![k] = seen]
        /\ result' = [result EXCEPT ![k] = blank]
        /\ pc' = [pc EXCEPT ![k] = "Choosing"]
        /\ pc[k] \in {"Starting", "Sleeping"}
        /\ UNCHANGED <<chain, given, inflight, job>>
    BY DEF List
  <1>2. seen \in Lists /\ blank \in [Pools -> Results]
    <2>1. seen \in Lists
      BY DEF IInv, TypeOK, Lists
    <2>2. NoResult \in Results
      BY AttemptsAssumption DEF Results, NoResult, Statuses
    <2> QED
      BY <2>1, <2>2
  <1>3. /\ \A p \in Pools : seen[p] \in {chain[p].state, "None"}
        /\ \A p \in Scope[k] : seen[p] = chain[p].state /\ chain[p].state # "None"
        /\ \A p \in Pools : blank[p].status = "None"
    BY ScopeAssumption DEF IInv, TypeOK, Unresolved, Outcomes, NoResult
  <1> HIDE DEF seen, blank
  <1>4. pc'[k] = "Choosing" /\ listed'[k] = seen /\ result'[k] = blank /\ Alone(k)
    BY <1>1 DEF IInv, TypeOK, Alone
  <1>5. Released(k)
    BY <1>1, NothingAwaited
  <1>6. inflight' \subseteq Transactions /\ Wire'
    BY <1>1, <1>4, <1>5, WireReleased
  <1>7. TypeOK'
    <2>1. /\ pc' \in [Keepers -> Places] /\ listed' \in [Keepers -> Lists]
          /\ result' \in [Keepers -> [Pools -> Results]]
      BY <1>1, <1>2 DEF IInv, TypeOK, Places, Lists, Results
    <2> QED
      BY <1>1, <2>1 DEF IInv, TypeOK, given, Lists, Results
  <1>8. Own(k)'
    <2>1. JobIsCoherent(k)'
      BY <1>4 DEF JobIsCoherent, Phases
    <2>2. ListAgesWell(k)'
      BY <1>1, <1>3, <1>4 DEF ListAgesWell, Outcomes
    <2>3. OwnRun(k)'
      BY <1>3, <1>4 DEF OwnRun, NoneIsLost
    <2>4. OwnReports(k)'
      BY <1>3, <1>4 DEF OwnReports
    <2> QED
      BY <2>1, <2>2, <2>3, <2>4 DEF Own
  <1> QED
    BY <1>1, <1>4, <1>6, <1>7, <1>8, OneKeeper

\* A keeper that rests, ends or starts again keeps what it knew.
LEMMA Resting ==
    ASSUME IInv, NEW k \in Keepers, NEW place \in {"Sleeping", "Halted", "Starting"},
           pc[k] \notin Phases,
           pc' = [pc EXCEPT ![k] = place], UNCHANGED <<chain, given, inflight, local>>,
           place = "Sleeping" => pc[k] = "Choosing" /\ \A p \in Pools : listed[k][p] = "None"
    PROVE  IInv'
  <1>1. pc'[k] = place /\ Alone(k) /\ pc' \in [Keepers -> Places]
    BY DEF IInv, TypeOK, Alone, local, Places
  <1>2. Released(k)
    BY NothingAwaited DEF Phases
  <1>3. inflight' \subseteq Transactions /\ Wire'
    BY <1>1, <1>2, WireReleased
  <1>4. TypeOK'
    BY <1>1, <1>3 DEF IInv, TypeOK, given, local, Transactions
  <1>5. Own(k)'
    <2>1. Own(k)
      BY ByKeeper
    <2>2. JobIsCoherent(k)'
      BY <1>1 DEF JobIsCoherent, Phases
    <2>3. ListAgesWell(k)' /\ OwnReports(k)'
      BY <2>1 DEF Own, ListAgesWell, OwnReports, local
    <2>4. OwnRun(k)'
      BY <1>1, <2>1, ScopeAssumption DEF Own, OwnRun, NoneIsLost, Phases, local
    <2> QED
      BY <2>2, <2>3, <2>4 DEF Own
  <1> QED
    BY <1>1, <1>3, <1>4, <1>5, OneKeeper

\* What the listed state alone decides is reported as it was listed.
LEMMA Skipping ==
    ASSUME IInv, NEW k \in Keepers, NEW p \in Pools, Skip(k, p)
    PROVE  IInv'
  <1> DEFINE status == ReportOfListed(listed[k][p])
             report == [result[k][p] EXCEPT !.status = status]
  <1>1. /\ pc[k] = "Choosing" /\ listed[k][p] \notin {"None", "Locked"}
        /\ listed' = [listed EXCEPT ![k][p] = "None"]
        /\ UNCHANGED <<chain, given, inflight, pc, job>>
    BY DEF Skip
  <1>2. Own(k) /\ result[k][p] \in Results
    BY ByKeeper DEF IInv, TypeOK, Results
  <1>3. /\ status \in Statuses \ {"None", "settled"}
        /\ status = "alreadySettled" => chain[p].state \in Outcomes
    <2>1. listed[k][p] \in {"Open"} \cup Outcomes
      BY <1>1 DEF IInv, TypeOK, Unresolved
    <2> QED
      BY <1>2, <2>1 DEF ReportOfListed, Statuses, Own, ListAgesWell, Outcomes
  <1> HIDE DEF status
  <1>4. report \in Results /\ report.status = status
    BY <1>2, <1>3 DEF Results
  <1>5. result' = [result EXCEPT ![k][p] = report]
    BY DEF Skip, status, IInv, TypeOK
  <1> HIDE DEF report
  <1>6. /\ listed'[k][p] = "None" /\ result'[k][p] = report
        /\ \A x \in Pools \ {p} : listed'[k][x] = listed[k][x] /\ result'[k][x] = result[k][x]
        /\ Alone(k)
    BY <1>1, <1>5 DEF IInv, TypeOK, Alone
  <1>7. Released(k)
    BY <1>1, NothingAwaited
  <1>8. inflight' \subseteq Transactions /\ Wire'
    BY <1>1, <1>6, <1>7, WireReleased
  <1>9. TypeOK'
    <2>1. listed' \in [Keepers -> Lists] /\ result' \in [Keepers -> [Pools -> Results]]
      BY <1>1, <1>4, <1>5 DEF IInv, TypeOK, Lists, Results
    <2> QED
      BY <1>1, <2>1 DEF IInv, TypeOK, given, Lists, Results
  <1>10. Own(k)'
    <2>1. JobIsCoherent(k)'
      BY <1>1 DEF JobIsCoherent, Phases
    <2>2. ListAgesWell(k)'
      BY <1>1, <1>2, <1>6 DEF Own, ListAgesWell, Outcomes
    <2>3. OwnRun(k)'
      <3> SUFFICES ASSUME NEW x \in Scope[k]
                   PROVE  listed'[k][x] # "None" \/ result'[k][x].status # "None"
        BY <1>1 DEF OwnRun, NoneIsLost
      <3>1. x \in Pools
        BY ScopeAssumption
      <3> QED
        BY <1>1, <1>2, <1>3, <1>4, <1>6, <3>1 DEF Own, OwnRun, NoneIsLost, Phases
    <2>4. OwnReports(k)'
      BY <1>1, <1>2, <1>3, <1>4, <1>6 DEF Own, OwnReports
    <2> QED
      BY <2>1, <2>2, <2>3, <2>4 DEF Own
  <1> QED
    BY <1>1, <1>6, <1>8, <1>9, <1>10, OneKeeper

\* So does taking up the next pool of the list.
LEMMA TakingUp ==
    ASSUME IInv, NEW k \in Keepers, NEW p \in Pools, TakeUp(k, p)
    PROVE  IInv'
  <1> DEFINE taken == [NoJob EXCEPT !.pool = p]
  <1>1. /\ pc[k] = "Choosing" /\ listed[k][p] = "Locked"
        /\ listed' = [listed EXCEPT ![k][p] = "None"]
        /\ job' = [job EXCEPT ![k] = taken]
        /\ pc' = [pc EXCEPT ![k] = "History"]
        /\ UNCHANGED <<chain, given, inflight, result>>
    BY DEF TakeUp
  <1>2. taken \in Jobs /\ taken.pool = p
    BY AttemptsAssumption DEF NoJob, Jobs
  <1> HIDE DEF taken
  <1>3. /\ pc'[k] = "History" /\ job'[k] = taken /\ listed'[k][p] = "None"
        /\ \A x \in Pools \ {p} : listed'[k][x] = listed[k][x]
        /\ Alone(k)
    BY <1>1 DEF IInv, TypeOK, Alone
  <1>4. Released(k)
    BY <1>1, NothingAwaited
  <1>5. inflight' \subseteq Transactions /\ Wire'
    BY <1>1, <1>3, <1>4, WireReleased
  <1>6. TypeOK'
    <2>1. /\ pc' \in [Keepers -> Places] /\ listed' \in [Keepers -> Lists]
          /\ job' \in [Keepers -> Jobs]
      BY <1>1, <1>2 DEF IInv, TypeOK, Places, Phases, Lists, Jobs
    <2> QED
      BY <1>1, <2>1 DEF IInv, TypeOK, given, Lists, Jobs
  <1>7. Own(k)'
    <2>1. Own(k)
      BY ByKeeper
    <2>2. JobIsCoherent(k)'
      BY <1>1, <1>2, <1>3, <2>1 DEF Own, JobIsCoherent, ListAgesWell, Phases
    <2>3. ListAgesWell(k)'
      BY <1>1, <1>3, <2>1 DEF Own, ListAgesWell, Outcomes
    <2>4. OwnRun(k)'
      <3> SUFFICES ASSUME NEW x \in Scope[k], x # p
                   PROVE  listed'[k][x] # "None" \/ result'[k][x].status # "None"
        BY <1>2, <1>3 DEF OwnRun, NoneIsLost, Phases
      <3>1. x \in Pools
        BY ScopeAssumption
      <3> QED
        BY <1>1, <1>3, <2>1, <3>1 DEF Own, OwnRun, NoneIsLost, Phases
    <2>5. OwnReports(k)'
      BY <1>1, <2>1 DEF Own, OwnReports
    <2> QED
      BY <2>2, <2>3, <2>4, <2>5 DEF Own
  <1> QED
    BY <1>1, <1>3, <1>5, <1>6, <1>7, OneKeeper

\* A job begins each phase with a first attempt.
LEMMA FirstAttempt ==
    ASSUME NEW j \in Jobs
    PROVE  \E u \in Jobs : /\ u = [j EXCEPT !.attempt = 1]
                           /\ u.pool = j.pool /\ u.sequence = j.sequence
  <1>1. 1 \in 1 .. MaxAttempts
    BY AttemptsAssumption
  <1>2. [j EXCEPT !.attempt = 1] \in Jobs
    BY <1>1 DEF Jobs
  <1> WITNESS [j EXCEPT !.attempt = 1] \in Jobs
  <1> QED
    BY <1>1 DEF Jobs

\* A job with its sequence number filled in is a job.
LEMMA ChosenSequence ==
    ASSUME NEW j \in Jobs, NEW n \in Sequences
    PROVE  \E u \in Jobs : /\ u = [j EXCEPT !.sequence = n]
                           /\ u.pool = j.pool /\ u.sequence = n
  <1>1. n \in 0 .. MaxSequence
    BY AttemptsAssumption DEF Sequences
  <1>2. [j EXCEPT !.sequence = n] \in Jobs
    BY <1>1 DEF Jobs
  <1> WITNESS [j EXCEPT !.sequence = n] \in Jobs
  <1> QED
    BY <1>1 DEF Jobs

\* A record that is final is chosen, and stays what it is.
LEMMA HistoryPhase ==
    ASSUME IInv, NEW k \in Keepers, HistoryFetched(k)
    PROVE  IInv'
  <1> DEFINE finals == FinalSequences(job[k].pool)
  <1>1. pc[k] = "History" /\ pc[k] \in Phases /\ UNCHANGED <<chain, given, inflight>>
    BY DEF HistoryFetched, Phases
  <1>2. Released(k) /\ job[k].pool \in Pools /\ job[k] \in Jobs
    BY <1>1, NothingAwaited DEF IInv, JobIsCoherent, TypeOK, Jobs
  <1>3. CASE Report(k, "awaitingFinalRecord", "None")
    BY <1>1, <1>2, <1>3, Reporting DEF Statuses
  <1>4. ASSUME NEW newest \in finals,
               Advance(k, "Proof", [job[k] EXCEPT !.sequence = newest])
        PROVE  IInv'
    <2>1. PICK r \in feed[job[k].pool] : r.final /\ r.sequence = newest
      BY DEF FinalSequences
    <2>2. newest \in Sequences /\ r = [sequence |-> newest, final |-> TRUE]
      BY <1>2, <2>1 DEF IInv, TypeOK
    <2>3. PICK j \in Jobs : j = [job[k] EXCEPT !.sequence = newest]
                           /\ j.pool = job[k].pool /\ j.sequence = newest
      BY <1>2, <2>2, ChosenSequence
    <2>4. PICK u \in Jobs : u = [j EXCEPT !.attempt = 1]
                           /\ u.pool = j.pool /\ u.sequence = j.sequence
      BY FirstAttempt
    <2>5. /\ pc' = [pc EXCEPT ![k] = "Proof"] /\ job' = [job EXCEPT ![k] = u]
          /\ UNCHANGED <<listed, result>>
      BY <1>4, <2>3, <2>4 DEF Advance
    <2> QED
      BY <1>1, <1>2, <2>1, <2>2, <2>3, <2>4, <2>5, Proceeding DEF Phases
  <1> QED
    BY <1>3, <1>4 DEF HistoryFetched

\* An established phase leads to the next one.
LEMMA Advancing ==
    ASSUME IInv, NEW k \in Keepers, NEW phase \in {"Refresh", "Submit"},
           pc[k] \in {"Proof", "Refresh"}, Advance(k, phase, job[k]),
           UNCHANGED <<chain, given, inflight>>,
           job[k].pool \notin Unprovable,
           phase = "Submit" => k \notin dryRun
    PROVE  IInv'
  <1>1. job[k] \in Jobs /\ Own(k) /\ Released(k)
    BY ByKeeper, NothingAwaited DEF TypeOK, Jobs
  <1>2. PICK u \in Jobs : /\ u = [job[k] EXCEPT !.attempt = 1]
                         /\ u.pool = job[k].pool
                         /\ u.sequence = job[k].sequence
    BY <1>1, FirstAttempt
  <1>3. /\ pc' = [pc EXCEPT ![k] = phase] /\ job' = [job EXCEPT ![k] = u]
        /\ UNCHANGED <<listed, result>>
    BY <1>2 DEF Advance
  <1>4. [sequence |-> job[k].sequence, final |-> TRUE] \in feed[job[k].pool]
    BY <1>1 DEF Own, JobIsCoherent, Phases
  <1> QED
    BY <1>1, <1>2, <1>3, <1>4, Proceeding DEF Phases

\* A proof that arrives keeps the invariant.
LEMMA ProofPhase ==
    ASSUME IInv, NEW k \in Keepers, ProofFetched(k)
    PROVE  IInv'
  <1>1. pc[k] = "Proof" /\ pc[k] \in Phases /\ UNCHANGED <<chain, given, inflight>>
    BY DEF ProofFetched, Phases
  <1>2. CASE ProofMatches(job[k].pool) /\ Advance(k, "Refresh", job[k])
    BY <1>1, <1>2, Advancing DEF ProofMatches
  <1>3. CASE Report(k, "terminalFailure", "fatal")
    BY <1>1, <1>3, NothingAwaited, Reporting DEF Statuses, Causes
  <1> QED
    BY <1>2, <1>3 DEF ProofFetched

\* A pool that was locked and is not any more is resolved.
LEMMA RefreshPhase ==
    ASSUME IInv, NEW k \in Keepers, Refreshed(k)
    PROVE  IInv'
  <1>1. pc[k] = "Refresh" /\ pc[k] \in Phases /\ UNCHANGED <<chain, given, inflight>>
    BY DEF Refreshed, Phases
  <1>2. Own(k) /\ Released(k) /\ job[k].pool \in Pools
    BY <1>1, ByKeeper, NothingAwaited DEF Own, JobIsCoherent
  <1>3. CASE chain[job[k].pool].state # "Locked" /\ Report(k, "alreadySettled", "None")
    <2>1. chain[job[k].pool].state \in Outcomes
      BY <1>1, <1>2, <1>3 DEF Own, JobIsCoherent, IInv, TypeOK, Unresolved
    <2> QED
      BY <1>1, <1>2, <1>3, <2>1, Reporting DEF Statuses
  <1>4. CASE MaySubmit(k) /\ Advance(k, "Submit", job[k])
    BY <1>1, <1>2, <1>4, Advancing DEF MaySubmit, Own, JobIsCoherent
  <1>5. CASE Report(k, "readyDryRun", "None")
    BY <1>1, <1>2, <1>5, Reporting DEF Statuses
  <1> QED
    BY <1>3, <1>4, <1>5 DEF Refreshed

\* A transaction carries what the phases before have established.
LEMMA Sending ==
    ASSUME IInv, NEW k \in Keepers, Send(k)
    PROVE  IInv'
  <1> DEFINE sent == [by |-> k, pool |-> job[k].pool, sequence |-> job[k].sequence,
                      awaited |-> TRUE]
             waiting == [job[k] EXCEPT !.answer = "Pending"]
  <1>1. /\ pc[k] = "Submit" /\ pc[k] \in Phases
        /\ inflight' = inflight \cup {sent}
        /\ pc' = [pc EXCEPT ![k] = "Confirm"]
        /\ UNCHANGED <<chain, given, listed, result>>
    BY DEF Send, Phases
  <1>2. Own(k) /\ job[k] \in Jobs /\ job[k].pool \in Pools
    BY <1>1, ByKeeper DEF TypeOK, Jobs, Own, JobIsCoherent
  <1>3. /\ [sequence |-> job[k].sequence, final |-> TRUE] \in feed[job[k].pool]
        /\ job[k].pool \notin Unprovable /\ k \notin dryRun
    BY <1>1, <1>2 DEF Own, JobIsCoherent
  <1>4. job[k].sequence \in Sequences
    BY <1>2, <1>3 DEF IInv, TypeOK
  <1>5. /\ sent \in Transactions
        /\ waiting \in Jobs /\ waiting.pool = job[k].pool
        /\ waiting.sequence = job[k].sequence /\ waiting.answer = "Pending"
    BY <1>2, <1>4 DEF Transactions, Jobs
  <1>6. job' = [job EXCEPT ![k] = waiting]
    BY DEF Send, IInv, TypeOK
  <1>7. sent.by = k /\ sent.pool = job[k].pool /\ sent.sequence = job[k].sequence
    OBVIOUS
  <1> HIDE DEF sent, waiting
  <1>8. pc'[k] = "Confirm" /\ job'[k] = waiting /\ Alone(k)
    BY <1>1, <1>6 DEF IInv, TypeOK, Alone
  <1>9. Wire'
    <2>1. ASSUME NEW tx \in inflight
          PROVE  tx.awaited => tx.by # k
      BY <1>1 DEF IInv, AwaitedIsTheJob
    <2>2. AwaitedIsTheJob'
      <3> SUFFICES ASSUME NEW tx \in inflight', tx.awaited
                   PROVE  /\ pc'[tx.by] = "Confirm"
                          /\ job'[tx.by].pool = tx.pool
                          /\ job'[tx.by].sequence = tx.sequence
                          /\ job'[tx.by].answer = "Pending"
        BY DEF AwaitedIsTheJob
      <3>1. CASE tx = sent
        BY <1>5, <1>7, <1>8, <3>1
      <3>2. CASE tx \in inflight
        <4>1. tx.by \in Keepers \ {k}
          BY <2>1, <3>2 DEF IInv, TypeOK
        <4> QED
          BY <1>8, <3>2, <4>1 DEF Alone, IInv, AwaitedIsTheJob
      <3> QED
        BY <1>1, <3>1, <3>2
    <2>3. OnlyProvenFinalsAreSent'
      <3> SUFFICES ASSUME NEW tx \in inflight'
                   PROVE  /\ [sequence |-> tx.sequence, final |-> TRUE] \in feed'[tx.pool]
                          /\ tx.pool \notin Unprovable
                          /\ tx.by \notin dryRun'
        BY DEF OnlyProvenFinalsAreSent
      <3>1. CASE tx = sent
        BY <1>1, <1>3, <1>7, <3>1 DEF given
      <3>2. CASE tx \in inflight
        BY <1>1, <3>2 DEF IInv, OnlyProvenFinalsAreSent, given
      <3> QED
        BY <1>1, <3>1, <3>2
    <2> QED
      BY <2>2, <2>3 DEF Wire
  <1>10. TypeOK'
    <2>1. /\ pc' \in [Keepers -> Places] /\ job' \in [Keepers -> Jobs]
          /\ inflight' \subseteq Transactions
      BY <1>1, <1>5, <1>6 DEF IInv, TypeOK, Places, Phases, Jobs, Transactions
    <2> QED
      BY <1>1, <2>1 DEF IInv, TypeOK, given, Jobs, Transactions
  <1>11. Own(k)'
    <2>1. JobIsCoherent(k)'
      BY <1>1, <1>2, <1>3, <1>5, <1>8 DEF Own, JobIsCoherent, given, Phases
    <2>2. ListAgesWell(k)' /\ OwnReports(k)'
      BY <1>1, <1>2 DEF Own, ListAgesWell, OwnReports
    <2>3. OwnRun(k)'
      BY <1>1, <1>2, <1>5, <1>8 DEF Own, OwnRun, NoneIsLost, Phases
    <2> QED
      BY <2>1, <2>2, <2>3 DEF Own
  <1> QED
    BY <1>1, <1>8, <1>9, <1>10, <1>11, OneKeeper

\* What a submission comes to.
LEMMA Concluding ==
    ASSUME IInv, NEW k \in Keepers, NEW cause \in Causes,
           \/ PreflightRefuses(k)
           \/ SendFails(k, cause)
           \/ Confirmed(k)
           \/ ConfirmedFailed(k, cause)
           \/ ConfirmationLost(k, cause)
    PROVE  IInv'
  <1>1. /\ pc[k] \in {"Submit", "Confirm"} /\ pc[k] \in Phases
        /\ UNCHANGED <<chain, given>>
    BY DEF PreflightRefuses, SendFails, Confirmed, ConfirmedFailed, ConfirmationLost, Phases
  <1>2. Own(k) /\ job[k].pool \in Pools
    BY <1>1, ByKeeper DEF Own, JobIsCoherent
  <1>3. CASE PreflightRefuses(k)
    <2>1. chain[job[k].pool].state \in Outcomes
      BY <1>1, <1>2, <1>3 DEF PreflightRefuses, Own, JobIsCoherent, IInv, TypeOK, Unresolved
    <2> QED
      BY <1>1, <1>3, <2>1, NothingAwaited, Failing DEF PreflightRefuses, Causes
  <1>4. CASE SendFails(k, cause)
    BY <1>1, <1>4, NothingAwaited, Failing DEF SendFails
  <1>5. CASE Confirmed(k)
    <2>1. /\ pc[k] = "Confirm" /\ job[k].answer = "Landed"
          /\ Report(k, "settled", "None") /\ UNCHANGED inflight
      BY <1>5 DEF Confirmed, Confirms
    <2>2. /\ chain[job[k].pool].state \in Outcomes
          /\ chain[job[k].pool].sequence = job[k].sequence
      BY <1>2, <2>1 DEF Own, JobIsCoherent
    <2> QED
      BY <1>1, <2>1, <2>2, NothingAwaited, Reporting DEF Statuses
  <1>6. CASE ConfirmedFailed(k, cause)
    <2>1. /\ pc[k] = "Confirm" /\ job[k].answer = "Rejected"
          /\ PhaseFails(k, "Submit", cause) /\ UNCHANGED inflight
      BY <1>6 DEF ConfirmedFailed
    <2>2. chain[job[k].pool].state \in Outcomes
      BY <1>2, <2>1 DEF Own, JobIsCoherent
    <2> QED
      BY <1>1, <2>1, <2>2, NothingAwaited, Failing
  <1>7. CASE ConfirmationLost(k, cause)
    BY <1>1, <1>7, Failing DEF ConfirmationLost, Released
  <1> QED
    BY <1>3, <1>4, <1>5, <1>6, <1>7

\* Every step of a keeper keeps it ...
LEMMA KeeperSteps ==
    ASSUME IInv, NEW k \in Keepers, KeeperStep(k)
    PROVE  IInv'
  <1>1. CASE List(k)
    BY <1>1, Listing
  <1>2. CASE ListFails(k) \/ EndRun(k)
    BY <1>2, Resting DEF ListFails, EndRun, Phases
  <1>3. ASSUME NEW p \in Pools, Skip(k, p) \/ TakeUp(k, p)
        PROVE  IInv'
    BY <1>3, Skipping, TakingUp
  <1>4. CASE HistoryFetched(k) \/ ProofFetched(k) \/ Refreshed(k) \/ Send(k)
    BY <1>4, HistoryPhase, ProofPhase, RefreshPhase, Sending
  <1>5. ASSUME NEW cause \in Causes,
               HistoryFails(k, cause) \/ ProofFails(k, cause) \/ RefreshFails(k, cause)
        PROVE  IInv'
    <2>1. ASSUME NEW phase \in {"History", "Proof"}, pc[k] = phase, cause # "resolved",
                 PhaseFails(k, phase, cause), UNCHANGED <<chain, given, inflight>>
          PROVE  IInv'
      <3>1. pc[k] \in Phases /\ Released(k)
        BY <2>1, NothingAwaited DEF Phases
      <3> QED
        BY <2>1, <3>1, Failing
    <2>2. CASE HistoryFails(k, cause) \/ ProofFails(k, cause)
      BY <2>1, <2>2 DEF HistoryFails, ProofFails
    <2>3. CASE RefreshFails(k, cause)
      BY <2>3, NothingAwaited, Reporting DEF RefreshFails, Phases, Statuses
    <2> QED
      BY <1>5, <2>2, <2>3
  <1>6. CASE PreflightRefuses(k) \/ Confirmed(k)
    <2>1. "fatal" \in Causes
      BY DEF Causes
    <2> QED
      BY <1>6, <2>1, Concluding
  <1>7. ASSUME NEW cause \in Causes,
               SendFails(k, cause) \/ ConfirmedFailed(k, cause) \/ ConfirmationLost(k, cause)
        PROVE  IInv'
    BY <1>7, Concluding
  <1> QED
    BY <1>1, <1>2, <1>3, <1>4, <1>5, <1>6, <1>7 DEF KeeperStep

\* A crash forgets everything but the transactions already sent.
LEMMA Crashing ==
    ASSUME IInv, NEW k \in Keepers, Crash(k)
    PROVE  IInv'
  <1> DEFINE none == [p \in Pools |-> "None"]
             blank == [p \in Pools |-> NoResult]
  <1>1. /\ pc' = [pc EXCEPT ![k] = "Crashed"]
        /\ listed' = [listed EXCEPT ![k] = none]
        /\ job' = [job EXCEPT ![k] = NoJob]
        /\ result' = [result EXCEPT ![k] = blank]
        /\ inflight' = Orphaned(k)
        /\ UNCHANGED <<chain, given>>
    BY DEF Crash
  <1>2. none \in Lists /\ blank \in [Pools -> Results] /\ NoJob \in Jobs
    <2>1. NoResult \in Results /\ NoJob \in Jobs
      BY AttemptsAssumption DEF Results, NoResult, Statuses, Jobs, NoJob
    <2> QED
      BY <2>1 DEF Lists
  <1>3. /\ \A p \in Pools : none[p] = "None"
        /\ \A p \in Pools : blank[p].status = "None"
    BY DEF NoResult
  <1> HIDE DEF none, blank
  <1>4. pc'[k] = "Crashed" /\ listed'[k] = none /\ result'[k] = blank /\ Alone(k)
    BY <1>1 DEF IInv, TypeOK, Alone
  <1>5. inflight' \subseteq Transactions /\ Wire'
    BY <1>1, <1>4, WireReleased DEF Released
  <1>6. TypeOK'
    <2>1. /\ pc' \in [Keepers -> Places] /\ listed' \in [Keepers -> Lists]
          /\ result' \in [Keepers -> [Pools -> Results]] /\ job' \in [Keepers -> Jobs]
      BY <1>1, <1>2 DEF IInv, TypeOK, Places, Lists, Results, Jobs
    <2> QED
      BY <1>1, <1>5, <2>1 DEF IInv, TypeOK, given, Lists, Results, Jobs, Transactions
  <1>7. Own(k)'
    <2>1. JobIsCoherent(k)' /\ OwnRun(k)'
      BY <1>4 DEF JobIsCoherent, OwnRun, NoneIsLost, Phases
    <2>2. ListAgesWell(k)' /\ OwnReports(k)'
      BY <1>3, <1>4 DEF ListAgesWell, OwnReports, Outcomes
    <2> QED
      BY <2>1, <2>2 DEF Own
  <1> QED
    BY <1>1, <1>4, <1>5, <1>6, <1>7, OneKeeper

\* ... and so does starting a stopped one again ...
LEMMA Restarting ==
    ASSUME IInv, NEW k \in Keepers, Restart(k)
    PROVE  IInv'
  BY Resting DEF Restart, Phases

-----------------------------------------------------------------------------
(* The steps of the chain and of TxLINE                                     *)

\* A pool only grows older: it is never open again, and an outcome stays.
Aged ==
    \A p \in Pools :
       /\ chain'[p].state = "Open" => chain[p].state = "Open"
       /\ chain[p].state \in Outcomes =>
             chain'[p].state \in Outcomes /\ chain'[p].sequence = chain[p].sequence

\* What keepers know stays true while pools grow older and records arrive.
LEMMA Ageing ==
    ASSUME IInv, NEW k \in Keepers, Aged, \A p \in Pools : feed[p] \subseteq feed'[p],
           UNCHANGED <<dryRun, pc, listed, result>>,
           job'[k].pool = job[k].pool, job'[k].sequence = job[k].sequence,
           pc[k] = "Confirm" /\ job'[k].answer = "Landed" =>
              /\ chain'[job[k].pool].state \in Outcomes
              /\ chain'[job[k].pool].sequence = job[k].sequence,
           pc[k] = "Confirm" /\ job'[k].answer = "Rejected" =>
              chain'[job[k].pool].state \in Outcomes
    PROVE  Own(k)'
  <1>1. Own(k)
    BY ByKeeper
  <1>2. JobIsCoherent(k)'
    <2>1. pc[k] \in Phases \/ pc[k] \notin Phases
      OBVIOUS
    <2> QED
      BY <1>1 DEF Own, JobIsCoherent, Aged, Phases
  <1>3. ListAgesWell(k)'
    BY <1>1 DEF Own, ListAgesWell, Aged
  <1>4. OwnRun(k)'
    BY <1>1 DEF Own, OwnRun, NoneIsLost
  <1>5. OwnReports(k)'
    BY <1>1 DEF Own, OwnReports, Aged
  <1> QED
    BY <1>2, <1>3, <1>4, <1>5 DEF Own

\* The answer to a transaction reaches the keeper that waits for it, if any.
LEMMA Answering ==
    ASSUME IInv, NEW tx \in inflight, NEW answer, answer \in {"Landed", "Rejected"},
           Answered(tx, answer), Aged, chain' \in Chains,
           chain'[tx.pool].state \in Outcomes \/ (answer = "Rejected" /\ ~tx.awaited),
           answer = "Landed" => chain'[tx.pool].sequence = tx.sequence
    PROVE  IInv'
  <1>1. /\ inflight' = inflight \ {tx} /\ UNCHANGED <<feed, dryRun, pc, listed, result>>
        /\ tx \in Transactions /\ tx.by \in Keepers
    BY DEF Answered, given, IInv, TypeOK, Transactions
  <1>2. /\ ~tx.awaited => job' = job
        /\ tx.awaited => job' = [job EXCEPT ![tx.by].answer = answer]
    BY DEF Answered
  <1>3. /\ \A k \in Keepers : job'[k].pool = job[k].pool /\ job'[k].sequence = job[k].sequence
        /\ \A k \in Keepers : ~tx.awaited \/ k # tx.by => job'[k] = job[k]
        /\ tx.awaited => job'[tx.by].answer = answer
        /\ job' \in [Keepers -> Jobs]
    <2>1. CASE tx.awaited
      <3> DEFINE told == [job[tx.by] EXCEPT !.answer = answer]
      <3>1. job \in [Keepers -> Jobs] /\ job[tx.by] \in Jobs
        BY <1>1 DEF IInv, TypeOK, Jobs
      <3>2. /\ told \in Jobs /\ told.answer = answer
            /\ told.pool = job[tx.by].pool /\ told.sequence = job[tx.by].sequence
        BY <3>1 DEF Jobs
      <3>3. job' = [job EXCEPT ![tx.by] = told]
        BY <1>2, <2>1, <3>1
      <3> HIDE DEF told
      <3>4. /\ job'[tx.by] = told
            /\ \A k \in Keepers \ {tx.by} : job'[k] = job[k]
            /\ job' \in [Keepers -> Jobs]
        BY <1>1, <3>1, <3>2, <3>3
      <3>5. ASSUME NEW k \in Keepers
            PROVE  job'[k].pool = job[k].pool /\ job'[k].sequence = job[k].sequence
        BY <3>2, <3>4
      <3> QED
        BY <2>1, <3>2, <3>4, <3>5
    <2>2. CASE ~tx.awaited
      BY <1>2, <2>2 DEF IInv, TypeOK, Jobs
    <2> QED
      BY <2>1, <2>2
  <1>4. tx.awaited => /\ pc[tx.by] = "Confirm"
                      /\ job[tx.by].pool = tx.pool /\ job[tx.by].sequence = tx.sequence
    BY DEF IInv, AwaitedIsTheJob
  <1>5. TypeOK'
    BY <1>1, <1>3 DEF IInv, TypeOK, Jobs, Chains
  <1>6. ASSUME NEW k \in Keepers
        PROVE  Own(k)'
    <2>1. Own(k)
      BY ByKeeper
    <2>2. CASE tx.awaited /\ k = tx.by
      <3>1. /\ job'[k].answer = answer
            /\ job[k].pool = tx.pool /\ job[k].sequence = tx.sequence
        BY <1>3, <1>4, <2>2
      <3>2. /\ chain'[job[k].pool].state \in Outcomes
            /\ answer = "Landed" => chain'[job[k].pool].sequence = job[k].sequence
        BY <2>2, <3>1
      <3> QED
        BY <1>1, <1>3, <3>1, <3>2, Ageing
    <2>3. CASE ~tx.awaited \/ k # tx.by
      <3>1. job'[k] = job[k]
        BY <1>3, <2>3
      <3>2. /\ pc[k] = "Confirm" /\ job[k].answer = "Landed" =>
                  /\ chain'[job[k].pool].state \in Outcomes
                  /\ chain'[job[k].pool].sequence = job[k].sequence
            /\ pc[k] = "Confirm" /\ job[k].answer = "Rejected" =>
                  chain'[job[k].pool].state \in Outcomes
        BY <2>1 DEF Own, JobIsCoherent, Aged, Phases
      <3> QED
        BY <1>1, <3>1, <3>2, Ageing
    <2> QED
      BY <2>2, <2>3
  <1>7. Wire'
    <2>1. AwaitedIsTheJob'
      <3> SUFFICES ASSUME NEW t \in inflight \ {tx}, t.awaited
                   PROVE  /\ pc'[t.by] = "Confirm"
                          /\ job'[t.by].pool = t.pool
                          /\ job'[t.by].sequence = t.sequence
                          /\ job'[t.by].answer = "Pending"
        BY <1>1 DEF AwaitedIsTheJob
      <3>1. /\ t \in Transactions /\ t.by \in Keepers /\ pc[t.by] = "Confirm"
            /\ job[t.by].pool = t.pool /\ job[t.by].sequence = t.sequence
            /\ job[t.by].answer = "Pending"
        BY DEF IInv, TypeOK, Transactions, AwaitedIsTheJob
      <3>2. ~(tx.awaited /\ t.by = tx.by)
        BY <1>1, <1>4, <3>1 DEF Transactions
      <3> QED
        BY <1>1, <1>3, <3>1, <3>2
    <2>2. OnlyProvenFinalsAreSent'
      BY <1>1 DEF IInv, OnlyProvenFinalsAreSent
    <2> QED
      BY <2>1, <2>2 DEF Wire
  <1>8. \A p \in Pools : IsFiniteSet(feed'[p])
    BY <1>1 DEF IInv
  <1> QED
    BY <1>5, <1>6, <1>7, <1>8, EveryKeeper

\* A transaction lands on a locked pool only.
LEMMA Landing ==
    ASSUME IInv, NEW tx \in inflight, Land(tx)
    PROVE  IInv'
  <1>1. PICK outcome \in Outcomes :
           chain' = [chain EXCEPT ![tx.pool] = [state |-> outcome, sequence |-> tx.sequence]]
    BY DEF Land
  <1>2. tx.pool \in Pools /\ tx.sequence \in 0 .. MaxSequence
    BY AttemptsAssumption DEF IInv, TypeOK, Sequences
  <1>3. chain[tx.pool].state = "Locked" /\ Answered(tx, "Landed")
    BY DEF Land, AcceptsSettlement
  <1>4. /\ chain'[tx.pool].state = outcome /\ chain'[tx.pool].sequence = tx.sequence
        /\ \A p \in Pools \ {tx.pool} : chain'[p] = chain[p]
    BY <1>1, <1>2 DEF IInv, TypeOK
  <1>5. chain' \in Chains
    BY <1>1, <1>2 DEF IInv, TypeOK, Chains
  <1>6. Aged
    BY <1>3, <1>4 DEF Aged, Outcomes
  <1>7. chain'[tx.pool].state \in Outcomes /\ "Landed" \in {"Landed", "Rejected"}
    BY <1>4
  <1> QED
    BY <1>3, <1>4, <1>5, <1>6, <1>7, Answering

\* ... and a transaction that the chain refuses ...
LEMMA Refusing ==
    ASSUME IInv, NEW tx \in inflight, Refuse(tx)
    PROVE  IInv'
  <1>1. chain[tx.pool].state # "Locked" /\ Answered(tx, "Rejected") /\ chain' = chain
    BY DEF Refuse, AcceptsSettlement
  <1>2. tx.pool \in Pools /\ tx.by \in Keepers
    BY DEF IInv, TypeOK
  <1>3. tx.awaited => chain[tx.pool].state # "Open"
    BY <1>2 DEF IInv, AwaitedIsTheJob, JobIsCoherent, Phases
  <1>4. tx.awaited => chain[tx.pool].state \in Outcomes
    BY <1>1, <1>2, <1>3 DEF IInv, TypeOK, Unresolved
  <1>5. Aged /\ chain' \in Chains
    BY <1>1 DEF Aged, IInv, TypeOK, Chains
  <1>6. chain'[tx.pool].state \in Outcomes \/ ~tx.awaited
    BY <1>1, <1>4
  <1>7. "Rejected" \in {"Landed", "Rejected"}
    OBVIOUS
  <1> QED
    BY <1>1, <1>5, <1>6, <1>7, Answering

\* ... or one whose blockhash expires.
LEMMA Expiring ==
    ASSUME IInv, NEW tx \in inflight, Expire(tx)
    PROVE  IInv'
  <1>1. inflight' \subseteq inflight /\ UNCHANGED <<chain, feed, dryRun, pc, listed, job, result>>
    BY DEF Expire, given, local
  <1>2. Wire'
    BY <1>1 DEF IInv, Wire, AwaitedIsTheJob, OnlyProvenFinalsAreSent
  <1>3. \A k \in Keepers : Own(k)'
    BY <1>1, ByKeeper DEF Own, JobIsCoherent, ListAgesWell, OwnRun, NoneIsLost, OwnReports
  <1>4. TypeOK' /\ \A p \in Pools : IsFiniteSet(feed'[p])
    BY <1>1 DEF IInv, TypeOK
  <1> QED
    BY <1>2, <1>3, <1>4, EveryKeeper

\* Whoever acts on a pool makes a step of its life.
LEMMA OthersMoving ==
    ASSUME IInv, NEW p \in Pools, OthersMove(p)
    PROVE  IInv'
  <1>1. PICK next \in [state : Unresolved \cup Outcomes, sequence : 0 .. MaxSequence] :
           chain' = [chain EXCEPT ![p] = next]
    BY DEF OthersMove
  <1>2. /\ Life(p)!Next
        /\ UNCHANGED <<feed, dryRun, inflight, pc, listed, job, result>>
    BY DEF OthersMove, given, local
  <1>3. /\ chain'[p] = next
        /\ \A x \in Pools \ {p} : chain'[x] = chain[x]
        /\ chain' \in Chains
    BY <1>1 DEF IInv, TypeOK, Chains
  <1>4. /\ chain'[p].state = "Open" => chain[p].state = "Open"
        /\ chain[p].state \in Outcomes =>
              chain'[p].state \in Outcomes /\ chain'[p].sequence = chain[p].sequence
    <2>1. chain[p].state \in Unresolved \cup Outcomes
      BY DEF IInv, TypeOK
    <2> QED
      BY <1>2, <2>1
      DEF Life!Next, Life!Create, Life!Lock, Life!RecordOutcome, Life!Cancel,
          Life!PayTheLast, Life!Outcomes, Life!Cancellations, Life!Unresolved,
          Life!Payable, Outcomes, Unresolved
  <1>5. Aged
    BY <1>3, <1>4 DEF Aged
  <1>6. ASSUME NEW k \in Keepers
        PROVE  Own(k)'
    <2>1. Own(k)
      BY ByKeeper
    <2>2. /\ pc[k] = "Confirm" /\ job[k].answer = "Landed" =>
                /\ chain'[job[k].pool].state \in Outcomes
                /\ chain'[job[k].pool].sequence = job[k].sequence
          /\ pc[k] = "Confirm" /\ job[k].answer = "Rejected" =>
                chain'[job[k].pool].state \in Outcomes
      BY <1>5, <2>1 DEF Own, JobIsCoherent, Aged, Phases
    <2> QED
      BY <1>2, <1>5, <2>2, Ageing
  <1>7. Wire'
    BY <1>2 DEF IInv, Wire, AwaitedIsTheJob, OnlyProvenFinalsAreSent
  <1>8. TypeOK' /\ \A x \in Pools : IsFiniteSet(feed'[x])
    BY <1>2, <1>3 DEF IInv, TypeOK, Chains
  <1> QED
    BY <1>6, <1>7, <1>8, EveryKeeper

\* Records only arrive.
LEMMA Arriving ==
    ASSUME IInv, NEW p \in Pools, NEW final \in BOOLEAN, ScoreArrives(p, final)
    PROVE  IInv'
  <1> DEFINE arrived == [sequence |-> Cardinality(feed[p]) + 1, final |-> final]
             grown == feed[p] \cup {arrived}
  <1>1. /\ feed' = [feed EXCEPT ![p] = grown]
        /\ Cardinality(feed[p]) < MaxSequence
        /\ UNCHANGED <<chain, inflight, dryRun, pc, listed, job, result>>
    BY DEF ScoreArrives, local
  <1>2. Cardinality(feed[p]) \in Nat
    BY FS_CardinalityType DEF IInv
  <1>3. arrived \in [sequence : Sequences, final : BOOLEAN]
    BY <1>1, <1>2, AttemptsAssumption DEF Sequences
  <1>4. /\ grown \subseteq [sequence : Sequences, final : BOOLEAN]
        /\ IsFiniteSet(grown)
        /\ feed[p] \subseteq grown
    <2> HIDE DEF arrived
    <2> QED
      BY <1>3, FS_AddElement DEF IInv, TypeOK
  <1> HIDE DEF grown
  <1>5. /\ feed' \in [Pools -> SUBSET [sequence : Sequences, final : BOOLEAN]]
        /\ \A x \in Pools : IsFiniteSet(feed'[x]) /\ feed[x] \subseteq feed'[x]
    BY <1>1, <1>4 DEF IInv, TypeOK
  <1>6. TypeOK'
    BY <1>1, <1>5 DEF IInv, TypeOK
  <1>7. ASSUME NEW k \in Keepers
        PROVE  Own(k)'
    <2>1. Own(k) /\ Aged
      BY <1>1, ByKeeper DEF Aged
    <2> QED
      BY <1>1, <1>5, <2>1, Ageing DEF Own, JobIsCoherent
  <1>8. Wire'
    <2>1. \A tx \in inflight : tx.pool \in Pools
      BY DEF IInv, TypeOK
    <2> QED
      BY <1>1, <1>5, <2>1 DEF IInv, Wire, AwaitedIsTheJob, OnlyProvenFinalsAreSent
  <1> QED
    BY <1>5, <1>6, <1>7, <1>8, EveryKeeper

-----------------------------------------------------------------------------
(* The invariant                                                            *)

\* The invariant holds at the start.
LEMMA InvInit == Init => IInv
  <1> SUFFICES ASSUME Init PROVE IInv
    OBVIOUS
  <1>1. NoResult \in Results /\ NoJob \in Jobs
    BY AttemptsAssumption DEF Results, NoResult, Statuses, Jobs, NoJob
  <1>2. TypeOK
    BY <1>1, AttemptsAssumption DEF Init, TypeOK, Places, Unresolved, Results, Jobs
  <1>3. \A p \in Pools : IsFiniteSet(feed[p])
    BY FS_EmptySet DEF Init
  <1>4. /\ RunsCoverTheirScope
        /\ \A k \in Keepers : JobIsCoherent(k) /\ NoneIsLost(k)
    BY DEF Init, JobIsCoherent, NoneIsLost, RunsCoverTheirScope, Phases
  <1>5. AwaitedIsTheJob /\ OnlyProvenFinalsAreSent
    BY DEF Init, AwaitedIsTheJob, OnlyProvenFinalsAreSent
  <1>6. ReportsAreTrue /\ \A k \in Keepers : ListAgesWell(k)
    BY DEF Init, ListAgesWell, ReportsAreTrue, NoResult, Outcomes
  <1> QED
    BY <1>2, <1>3, <1>4, <1>5, <1>6 DEF IInv

\* Every step keeps it.
LEMMA InvInduction == IInv /\ [Next]_vars => IInv'
  <1> SUFFICES ASSUME IInv, [Next]_vars PROVE IInv'
    OBVIOUS
  <1>1. CASE Next
    BY <1>1, KeeperSteps, Crashing, Restarting, Landing, Refusing, Expiring,
       OthersMoving, Arriving
    DEF Next
  <1>2. CASE UNCHANGED vars
    <2>1. UNCHANGED <<chain, feed, dryRun, inflight, pc, listed, job, result>>
      BY <1>2 DEF vars, given, local
    <2>2. \A k \in Keepers : Own(k)'
      BY <2>1, ByKeeper DEF Own, JobIsCoherent, ListAgesWell, OwnRun, NoneIsLost, OwnReports
    <2>3. Wire' /\ TypeOK' /\ \A p \in Pools : IsFiniteSet(feed'[p])
      BY <2>1 DEF IInv, TypeOK, Wire, AwaitedIsTheJob, OnlyProvenFinalsAreSent
    <2> QED
      BY <2>2, <2>3, EveryKeeper
  <1> QED
    BY <1>1, <1>2

\* The pipelines, the wire and the chain fit together in every reachable
\* state, whatever crashes, is lost or comes late.
THEOREM Invariant == Spec => []IInv
  BY InvInit, InvInduction, PTL DEF Spec

\* Nothing reaches the chain that was not finalized, proved and allowed.
THEOREM SendsOnlyProvenFinals == Spec => []OnlyProvenFinalsAreSent
  <1>1. IInv => OnlyProvenFinalsAreSent
    BY DEF IInv
  <1> QED
    BY <1>1, Invariant, PTL

\* What a run reports stays true.
THEOREM TellsTheTruth == Spec => []ReportsAreTrue
  <1>1. IInv => ReportsAreTrue
    BY DEF IInv
  <1> QED
    BY <1>1, Invariant, PTL

\* A completed run has dealt with every pool in its scope.
THEOREM CoversItsScope == Spec => []RunsCoverTheirScope
  <1>1. IInv => RunsCoverTheirScope
    BY DEF IInv
  <1> QED
    BY <1>1, Invariant, PTL

-----------------------------------------------------------------------------
(* Whose settlement it was                                                  *)

\* No pool is credited to k that was not before.
NoNewCredit(k) == \A p \in Pools : k \in Credited(p)' => k \in Credited(p)

\* A keeper that reports anything but a settlement earns no credit.
LEMMA ReportEarnsNothing ==
    ASSUME IInv, NEW k \in Keepers, NEW status \in Statuses, NEW cause,
           pc[k] \in Phases, Report(k, status, cause),
           status # "settled" \/ (pc[k] = "Confirm" /\ job[k].answer = "Landed")
    PROVE  NoNewCredit(k)
  <1>1. job[k].pool \in Pools /\ k \in DOMAIN result /\ DOMAIN result[k] = Pools
    BY DEF IInv, TypeOK, JobIsCoherent
  <1>2. pc'[k] = "Choosing"
    BY DEF Report, AfterReport, IInv, TypeOK
  <1>3. /\ result'[k][job[k].pool].status = status
        /\ \A p \in Pools \ {job[k].pool} : result'[k][p] = result[k][p]
    BY <1>1 DEF Report
  <1> QED
    BY <1>1, <1>2, <1>3 DEF NoNewCredit, Credited

\* Neither does one that starts a phase or an attempt.
LEMMA WorkEarnsNothing ==
    ASSUME IInv, NEW k \in Keepers, result'[k] = result[k],
           pc'[k] # "Confirm" \/ job'[k].answer # "Landed"
    PROVE  NoNewCredit(k)
  BY DEF NoNewCredit, Credited

\* A failure is reported as one, or as somebody's settlement.
LEMMA FailureEarnsNothing ==
    ASSUME IInv, NEW k \in Keepers, NEW phase \in Phases, NEW cause \in Causes,
           pc[k] \in Phases, phase # "Confirm", PhaseFails(k, phase, cause)
    PROVE  NoNewCredit(k)
  <1>1. FailureStatus(cause) \in Statuses \ {"settled"}
    BY DEF FailureStatus, Causes, Statuses
  <1>2. CASE Report(k, FailureStatus(cause), cause)
    BY <1>1, <1>2, ReportEarnsNothing
  <1>3. CASE pc' = [pc EXCEPT ![k] = phase] /\ UNCHANGED result
    <2>1. pc'[k] # "Confirm"
      BY <1>3 DEF IInv, TypeOK
    <2> QED
      BY <1>3, <2>1, WorkEarnsNothing
  <1> QED
    BY <1>2, <1>3 DEF PhaseFails

\* In its own steps a keeper takes credit only for what landed for it.
LEMMA StepEarnsNothing ==
    ASSUME IInv, NEW k \in Keepers, KeeperStep(k)
    PROVE  NoNewCredit(k)
  <1>1. k \in DOMAIN result /\ DOMAIN result[k] = Pools /\ k \in DOMAIN pc /\ k \in DOMAIN job
    BY DEF IInv, TypeOK
  <1>2. CASE List(k)
    BY <1>1, <1>2 DEF List, NoNewCredit, Credited, NoResult
  <1>3. ASSUME ListFails(k) \/ EndRun(k)
        PROVE  NoNewCredit(k)
    <2>1. pc'[k] # "Confirm" /\ result'[k] = result[k]
      BY <1>1, <1>3 DEF ListFails, EndRun, local
    <2> QED
      BY <2>1, WorkEarnsNothing
  <1>4. ASSUME NEW p \in Pools, Skip(k, p)
        PROVE  NoNewCredit(k)
    <2>1. /\ listed[k][p] \notin {"None", "Locked"} /\ pc' = pc /\ job' = job
          /\ result' = [result EXCEPT ![k][p].status = ReportOfListed(listed[k][p])]
      BY <1>4 DEF Skip
    <2>2. ReportOfListed(listed[k][p]) # "settled"
      BY <2>1 DEF ReportOfListed, IInv, TypeOK, Unresolved
    <2>3. /\ result'[k][p].status # "settled"
          /\ \A other \in Pools \ {p} : result'[k][other] = result[k][other]
      <3>1. result[k][p] \in Results
        BY DEF IInv, TypeOK, Results
      <3> QED
        BY <1>1, <2>1, <2>2, <3>1 DEF Results
    <2> QED
      BY <2>1, <2>3 DEF NoNewCredit, Credited
  <1>5. ASSUME NEW p \in Pools, TakeUp(k, p)
        PROVE  NoNewCredit(k)
    <2>1. pc'[k] # "Confirm" /\ result'[k] = result[k]
      BY <1>1, <1>5 DEF TakeUp
    <2> QED
      BY <2>1, WorkEarnsNothing
  <1>6. ASSUME NEW phase, NEW updated, phase # "Confirm", Advance(k, phase, updated)
        PROVE  NoNewCredit(k)
    <2>1. pc'[k] # "Confirm" /\ result'[k] = result[k]
      BY <1>1, <1>6 DEF Advance
    <2> QED
      BY <2>1, WorkEarnsNothing
  <1>7. ASSUME NEW status \in Statuses \ {"settled"}, NEW cause,
               pc[k] \in Phases, Report(k, status, cause)
        PROVE  NoNewCredit(k)
    BY <1>7, ReportEarnsNothing
  <1>8. CASE HistoryFetched(k)
    <2>1. CASE Report(k, "awaitingFinalRecord", "None")
      BY <1>7, <1>8, <2>1 DEF HistoryFetched, Statuses, Phases
    <2>2. CASE \E newest \in FinalSequences(job[k].pool) :
                  Advance(k, "Proof", [job[k] EXCEPT !.sequence = newest])
      BY <1>6, <2>2
    <2> QED
      BY <1>8, <2>1, <2>2 DEF HistoryFetched
  <1>9. CASE ProofFetched(k)
    <2>1. CASE Report(k, "terminalFailure", "fatal")
      BY <1>7, <1>9, <2>1 DEF ProofFetched, Statuses, Phases
    <2>2. CASE Advance(k, "Refresh", job[k])
      BY <1>6, <2>2
    <2> QED
      BY <1>9, <2>1, <2>2 DEF ProofFetched
  <1>10. CASE Refreshed(k)
    <2>1. CASE Report(k, "alreadySettled", "None") \/ Report(k, "readyDryRun", "None")
      BY <1>7, <1>10, <2>1 DEF Refreshed, Statuses, Phases
    <2>2. CASE Advance(k, "Submit", job[k])
      BY <1>6, <2>2
    <2> QED
      BY <1>10, <2>1, <2>2 DEF Refreshed
  <1>11. ASSUME NEW cause, RefreshFails(k, cause)
         PROVE  NoNewCredit(k)
    BY <1>7, <1>11 DEF RefreshFails, Statuses, Phases
  <1>12. CASE Send(k)
    <2>1. job'[k].answer = "Pending" /\ result'[k] = result[k]
      <3>1. job[k] \in Jobs
        BY DEF IInv, TypeOK, Jobs
      <3> QED
        BY <1>1, <1>12, <3>1 DEF Send, Jobs
    <2> QED
      BY <2>1, WorkEarnsNothing
  <1>13. ASSUME NEW cause \in Causes,
                \/ HistoryFails(k, cause) \/ ProofFails(k, cause) \/ SendFails(k, cause)
                \/ ConfirmedFailed(k, cause) \/ ConfirmationLost(k, cause)
         PROVE  NoNewCredit(k)
    <2>1. pc[k] \in Phases /\ \E phase \in Phases \ {"Confirm"} : PhaseFails(k, phase, cause)
      BY <1>13 DEF HistoryFails, ProofFails, SendFails, ConfirmedFailed, ConfirmationLost,
                   Phases
    <2> QED
      BY <2>1, FailureEarnsNothing
  <1>14. CASE PreflightRefuses(k)
    <2>1. pc[k] \in Phases /\ "Submit" \in Phases /\ "resolved" \in Causes
          /\ PhaseFails(k, "Submit", "resolved")
      BY <1>14 DEF PreflightRefuses, Phases, Causes
    <2> QED
      BY <2>1, FailureEarnsNothing
  <1>15. CASE Confirmed(k)
    <2>1. /\ pc[k] = "Confirm" /\ job[k].answer = "Landed" /\ pc[k] \in Phases
          /\ Report(k, "settled", "None") /\ "settled" \in Statuses
      BY <1>15 DEF Confirmed, Confirms, Phases, Statuses
    <2> QED
      BY <2>1, ReportEarnsNothing
  <1> QED
    BY <1>2, <1>3, <1>4, <1>5, <1>8, <1>9, <1>10, <1>11, <1>12, <1>13, <1>14, <1>15
    DEF KeeperStep

\* Credit comes with a transaction that lands, and then no other keeper has any:
\* what somebody has credit for is settled, and lands no more.
LEMMA LandingEarnsOnce ==
    ASSUME IInv, OneKeeperSettles, NEW tx \in inflight, Land(tx)
    PROVE  OneKeeperSettles'
  <1>1. /\ tx.pool \in Pools /\ tx.by \in Keepers /\ tx.awaited \in BOOLEAN
        /\ chain[tx.pool].state = "Locked"
        /\ pc' = pc /\ result' = result
        /\ job' = IF tx.awaited THEN [job EXCEPT ![tx.by].answer = "Landed"] ELSE job
    BY DEF IInv, TypeOK, Land, AcceptsSettlement, Answered
  <1>2. Credited(tx.pool) = {}
    <2> SUFFICES ASSUME NEW k \in Credited(tx.pool) PROVE FALSE
      OBVIOUS
    <2>1. chain[tx.pool].state \in Outcomes
      BY <1>1 DEF IInv, Credited, ReportsAreTrue, JobIsCoherent
    <2> QED
      BY <1>1, <2>1 DEF Outcomes
  <1>3. /\ \A k \in Keepers \ {tx.by} : job'[k] = job[k]
        /\ job'[tx.by].pool = job[tx.by].pool
        /\ ~tx.awaited => job' = job
        /\ tx.awaited => job[tx.by].pool = tx.pool
    <2>1. job \in [Keepers -> Jobs]
      BY DEF IInv, TypeOK, Jobs
    <2>2. tx.awaited => job[tx.by].pool = tx.pool
      BY DEF IInv, AwaitedIsTheJob
    <2> QED
      BY <1>1, <2>1, <2>2 DEF Jobs
  <1>4. ASSUME NEW p \in Pools, NEW k \in Credited(p)'
        PROVE  k \in Credited(p) \/ (p = tx.pool /\ k = tx.by)
    BY <1>1, <1>3, <1>4 DEF Credited
  <1> QED
    BY <1>2, <1>4 DEF OneKeeperSettles

\* A keeper moves nobody but itself.
LEMMA StepIsAlone ==
    ASSUME IInv, NEW k \in Keepers, KeeperStep(k)
    PROVE  Alone(k)
  <1>1. ASSUME NEW status, NEW cause, Report(k, status, cause)
        PROVE  Alone(k)
    BY <1>1 DEF Report, Alone, IInv, TypeOK
  <1>2. ASSUME NEW phase, NEW updated, Advance(k, phase, updated)
        PROVE  Alone(k)
    BY <1>2 DEF Advance, Alone, IInv, TypeOK
  <1>3. ASSUME NEW phase, NEW cause, PhaseFails(k, phase, cause)
        PROVE  Alone(k)
    <2>1. CASE Report(k, FailureStatus(cause), cause)
      BY <1>1, <2>1
    <2>2. CASE /\ pc' = [pc EXCEPT ![k] = phase]
               /\ job' = [job EXCEPT ![k].attempt = @ + 1, ![k].answer = "None"]
               /\ UNCHANGED <<listed, result>>
      BY <2>2 DEF Alone, IInv, TypeOK
    <2> QED
      BY <1>3, <2>1, <2>2 DEF PhaseFails
  <1>4. CASE List(k) \/ ListFails(k) \/ EndRun(k) \/ Send(k)
    BY <1>4 DEF List, ListFails, EndRun, Send, local, Alone, IInv, TypeOK
  <1>5. ASSUME NEW p \in Pools, Skip(k, p) \/ TakeUp(k, p)
        PROVE  Alone(k)
    BY <1>5 DEF Skip, TakeUp, Alone, IInv, TypeOK
  <1>6. CASE HistoryFetched(k)
    BY <1>1, <1>2, <1>6 DEF HistoryFetched
  <1>7. CASE ProofFetched(k)
    BY <1>1, <1>2, <1>7 DEF ProofFetched
  <1>8. CASE Refreshed(k)
    BY <1>1, <1>2, <1>8 DEF Refreshed
  <1>9. CASE PreflightRefuses(k) \/ Confirmed(k)
    BY <1>1, <1>3, <1>9 DEF PreflightRefuses, Confirmed
  <1>10. ASSUME NEW cause,
                \/ HistoryFails(k, cause) \/ ProofFails(k, cause) \/ SendFails(k, cause)
                \/ ConfirmedFailed(k, cause) \/ ConfirmationLost(k, cause)
                \/ RefreshFails(k, cause)
         PROVE  Alone(k)
    BY <1>1, <1>3, <1>10 DEF HistoryFails, ProofFails, SendFails, ConfirmedFailed,
                             ConfirmationLost, RefreshFails
  <1> QED
    BY <1>4, <1>5, <1>6, <1>7, <1>8, <1>9, <1>10 DEF KeeperStep

\* Everybody else leaves the keepers' answers and reports as they are, or takes
\* them away.
LEMMA OthersEarnNothing ==
    ASSUME IInv, NEW k \in Keepers,
           \/ \E j \in Keepers : (KeeperStep(j) /\ j # k) \/ Crash(j) \/ Restart(j)
           \/ \E tx \in inflight : Refuse(tx) \/ Expire(tx)
           \/ \E p \in Pools : OthersMove(p)
           \/ \E p \in Pools, final \in BOOLEAN : ScoreArrives(p, final)
           \/ UNCHANGED vars
    PROVE  NoNewCredit(k)
  <1>1. ASSUME pc'[k] = pc[k], job'[k] = job[k], result'[k] = result[k]
        PROVE  NoNewCredit(k)
    BY <1>1 DEF NoNewCredit, Credited
  <1>2. ASSUME NEW j \in Keepers, KeeperStep(j), j # k
        PROVE  NoNewCredit(k)
    <2>1. pc'[k] = pc[k] /\ job'[k] = job[k] /\ result'[k] = result[k]
      BY <1>2, StepIsAlone DEF Alone
    <2> QED
      BY <1>1, <2>1
  <1>3. ASSUME NEW j \in Keepers, Crash(j)
        PROVE  NoNewCredit(k)
    BY <1>3 DEF Crash, NoNewCredit, Credited, NoResult, IInv, TypeOK
  <1>4. ASSUME NEW j \in Keepers, Restart(j)
        PROVE  NoNewCredit(k)
    BY <1>4 DEF Restart, NoNewCredit, Credited, local, IInv, TypeOK
  <1>5. ASSUME NEW tx \in inflight, Refuse(tx)
        PROVE  NoNewCredit(k)
    <2>1. /\ pc' = pc /\ result' = result
          /\ job' = IF tx.awaited THEN [job EXCEPT ![tx.by].answer = "Rejected"] ELSE job
      BY <1>5 DEF Refuse, Answered
    <2>2. job'[k] = job[k] \/ job'[k] = [job[k] EXCEPT !.answer = "Rejected"]
      BY <2>1 DEF IInv, TypeOK
    <2>3. job'[k].pool = job[k].pool /\ job'[k].answer \in {job[k].answer, "Rejected"}
      <3>1. job[k] \in Jobs
        BY DEF IInv, TypeOK, Jobs
      <3> QED
        BY <2>2, <3>1 DEF Jobs
    <2> QED
      BY <2>1, <2>3 DEF NoNewCredit, Credited
  <1>6. ASSUME NEW tx \in inflight, Expire(tx)
        PROVE  NoNewCredit(k)
    BY <1>1, <1>6 DEF Expire, local
  <1>7. ASSUME NEW p \in Pools, OthersMove(p)
        PROVE  NoNewCredit(k)
    BY <1>1, <1>7 DEF OthersMove, local
  <1>8. ASSUME NEW p \in Pools, NEW final \in BOOLEAN, ScoreArrives(p, final)
        PROVE  NoNewCredit(k)
    BY <1>1, <1>8 DEF ScoreArrives, local
  <1>9. CASE UNCHANGED vars
    BY <1>1, <1>9 DEF vars, local
  <1> QED
    BY <1>2, <1>3, <1>4, <1>5, <1>6, <1>7, <1>8, <1>9

\* Every step keeps the credit of a settlement with one keeper.
LEMMA CreditInduction ==
    ASSUME IInv, OneKeeperSettles, [Next]_vars
    PROVE  OneKeeperSettles'
  <1>1. ASSUME \A k \in Keepers : NoNewCredit(k)
        PROVE  OneKeeperSettles'
    BY <1>1 DEF OneKeeperSettles, NoNewCredit, Credited
  <1>2. CASE \E tx \in inflight : Land(tx)
    BY <1>2, LandingEarnsOnce
  <1>3. ASSUME NEW j \in Keepers, KeeperStep(j)
        PROVE  OneKeeperSettles'
    <2>1. NoNewCredit(j)
      BY <1>3, StepEarnsNothing
    <2>2. \A k \in Keepers \ {j} : NoNewCredit(k)
      BY <1>3, OthersEarnNothing
    <2> QED
      BY <1>1, <2>1, <2>2
  <1>4. CASE \/ \E j \in Keepers : Crash(j) \/ Restart(j)
             \/ \E tx \in inflight : Refuse(tx) \/ Expire(tx)
             \/ \E p \in Pools : OthersMove(p)
             \/ \E p \in Pools, final \in BOOLEAN : ScoreArrives(p, final)
             \/ UNCHANGED vars
    <2>1. \A k \in Keepers : NoNewCredit(k)
      BY <1>4, OthersEarnNothing
    <2> QED
      BY <1>1, <2>1
  <1> QED
    BY <1>2, <1>3, <1>4 DEF Next

\* However many keepers race for a pool, resend after lost confirmations or come
\* back after a crash, its settlement is reported by one of them only.
THEOREM CreditsOneKeeper == Spec => []OneKeeperSettles
  <1>1. Init => OneKeeperSettles
    BY DEF Init, OneKeeperSettles, Credited, NoResult
  <1>2. IInv /\ OneKeeperSettles /\ [Next]_vars => OneKeeperSettles'
    BY CreditInduction
  <1> QED
    BY <1>1, <1>2, Invariant, PTL DEF Spec
=============================================================================
