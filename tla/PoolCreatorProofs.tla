-------------------------- MODULE PoolCreatorProofs --------------------------
(***************************************************************************)
(* Proofs about PoolCreator: whatever the conditions, however many edits,    *)
(* estimates and clicks there are and in whichever order what they started   *)
(* ends, the preview is of the condition in the builder, and an estimate     *)
(* becomes one pool at most.                                                 *)
(***************************************************************************)
EXTENDS PoolCreator, SequenceTheorems, TLAPS

-----------------------------------------------------------------------------
(* The transactions there are                                              *)

\* The transactions that exist: prepared, being sent, on the network or landed.
LEMMA ExistingAre ==
    ASSUME NEW t
    PROVE  t \in Existing <=>
              \/ t = prepared /\ t # NotPrepared
              \/ \E send \in sends : t = send.transaction
              \/ \E signed \in network : t = signed.transaction
              \/ \E i \in DOMAIN pools : t = pools[i].transaction
BY DEF Existing

\* The same for the state after a step.
LEMMA ExistingAreThen ==
    ASSUME NEW t
    PROVE  t \in Existing' <=>
              \/ t = prepared' /\ t # NotPrepared
              \/ \E send \in sends' : t = send.transaction
              \/ \E signed \in network' : t = signed.transaction
              \/ \E i \in DOMAIN pools' : t = pools'[i].transaction
BY DEF Existing

\* Nothing new is estimated or made into a transaction.
LEMMA NoNewTransaction ==
    ASSUME OneTransactionPerEstimate, TypeOK,
           \A t \in Existing' : t \in Existing,
           estimates' = estimates, \A job \in estimating' : job \in estimating
    PROVE  OneTransactionPerEstimate'
BY DEF OneTransactionPerEstimate

Sends ==
    [click : 1 .. clicks, transaction : Transactions,
     reviewed : Conditions \cup {None}, stage : Stages]

\* A send that moves to another stage is still a send of the same transaction.
LEMMA SendFields ==
    ASSUME TypeOK, NEW send \in sends, NEW stage \in Stages
    PROVE  /\ [send EXCEPT !.stage = stage] \in Sends
           /\ [send EXCEPT !.stage = stage].transaction = send.transaction
<1>1. send \in Sends
    BY DEF TypeOK, Sends
<1> QED
    BY <1>1 DEF Sends

\* A step that only moves or ends a send brings no transaction into being.
LEMMA SendsOnly ==
    ASSUME TypeOK, NEW send \in sends, UNCHANGED <<prepared, network, pools>>,
           \/ \E stage \in Stages : MovesTo(send, stage)
           \/ sends' = sends \ {send}
    PROVE  \A t \in Existing' : t \in Existing
<1> TAKE t \in Existing'
<1>1. ASSUME NEW other \in sends', t = other.transaction
      PROVE  t \in Existing
    <2>1. \E old \in sends : other.transaction = old.transaction
        <3>1. CASE other \in sends
            BY <3>1
        <3>2. CASE other \notin sends
            <4>1. PICK stage \in Stages : MovesTo(send, stage)
                BY <1>1, <3>2
            <4>2. other = [send EXCEPT !.stage = stage]
                BY <1>1, <3>2, <4>1 DEF MovesTo
            <4>3. other.transaction = send.transaction
                BY <4>2, SendFields
            <4> QED
                BY <4>3
        <3> QED
            BY <3>1, <3>2
    <2> QED
        BY <1>1, <2>1, ExistingAre
<1> QED
    BY <1>1, ExistingAre, ExistingAreThen

\* A pool at the end of the list.
LEMMA Appended ==
    ASSUME NEW S, NEW s \in Seq(S), NEW e \in S
    PROVE  /\ Append(s, e) \in Seq(S)
           /\ \A i \in DOMAIN Append(s, e) :
                 \/ i \in DOMAIN s /\ Append(s, e)[i] = s[i]
                 \/ i = Len(s) + 1 /\ Append(s, e)[i] = e
<1>1. /\ Append(s, e) \in Seq(S)
      /\ Len(Append(s, e)) = Len(s) + 1
      /\ \A i \in 1 .. Len(s) : Append(s, e)[i] = s[i]
      /\ Append(s, e)[Len(s) + 1] = e
      /\ Len(s) \in Nat
    OBVIOUS
<1>2. DOMAIN Append(s, e) = 1 .. Len(s) + 1 /\ DOMAIN s = 1 .. Len(s)
    BY <1>1, LenProperties
<1> QED
    BY <1>1, <1>2

-----------------------------------------------------------------------------
(* Types                                                                   *)

\* It leaves sends that are sends.
LEMMA SendsStayTyped ==
    ASSUME TypeOK, NEW send \in sends, clicks' = clicks,
           \/ \E stage \in Stages : MovesTo(send, stage)
           \/ sends' = sends \ {send}
    PROVE  sends' \subseteq [click : 1 .. clicks', transaction : Transactions,
                            reviewed : Conditions \cup {None}, stage : Stages]
<1>1. sends \subseteq Sends
    BY DEF TypeOK, Sends
<1>2. sends' \subseteq Sends
    BY <1>1, SendFields DEF MovesTo
<1> QED
    BY <1>2 DEF Sends

\* Every step keeps the types ...
LEMMA NextKeepsType ==
    ASSUME TypeOK, [Next]_vars
    PROVE  TypeOK'
<1> USE ConditionsAssumption, BoundsAssumption DEF builder, review, jobs, sending, chain
<1>1. ASSUME NEW condition \in Conditions, EditLegs(condition) PROVE TypeOK'
    BY <1>1 DEF EditLegs, TypeOK
<1>2. ASSUME NEW condition \in Conditions, CompileSettles(condition) PROVE TypeOK'
    BY <1>2 DEF CompileSettles, CompileOf, TypeOK
<1>3. ASSUME Confirm PROVE TypeOK'
    BY <1>3 DEF Confirm, TypeOK, Phases
<1>4. ASSUME Prepare PROVE TypeOK'
    <2>1. estimates' \in 0 .. MaxEstimates /\ estimates' = estimates + 1
        BY <1>4 DEF Prepare, TypeOK
    <2>2. [estimate |-> estimates + 1, condition |-> draft]
             \in [estimate : 1 .. estimates', condition : Conditions]
        BY <1>4, <2>1 DEF Prepare, TypeOK
    <2>3. \A job \in [estimate : 1 .. estimates, condition : Conditions] :
             job \in [estimate : 1 .. estimates', condition : Conditions]
        BY <2>1 DEF TypeOK
    <2>4. estimating' \subseteq [estimate : 1 .. estimates', condition : Conditions]
        BY <1>4, <2>2, <2>3 DEF Prepare, TypeOK
    <2> QED
        BY <1>4, <2>1, <2>4 DEF Prepare, TypeOK, Phases
<1>5. ASSUME NEW job \in estimating, NEW address \in Addresses, PrepareSucceeds(job, address)
      PROVE  TypeOK'
    <2>1. job.estimate \in 1 .. MaxEstimates /\ job.condition \in Conditions
        BY DEF TypeOK
    <2>2. prepared' \in Transactions
        BY <1>5, <2>1 DEF PrepareSucceeds, Transactions
    <2> QED
        BY <1>5, <2>2 DEF PrepareSucceeds, TypeOK, Phases
<1>6. ASSUME NEW job \in estimating, PrepareFails(job) PROVE TypeOK'
    BY <1>6 DEF PrepareFails, TypeOK, Phases
<1>7. ASSUME Create PROVE TypeOK'
    <2>1. clicks' \in 0 .. MaxSends /\ clicks' = clicks + 1
        BY <1>7 DEF Create, TypeOK
    <2>2. prepared \in Transactions
        BY <1>7 DEF Create, MayCreate, TypeOK
    <2> DEFINE Wide == [click : 1 .. clicks', transaction : Transactions,
                        reviewed : Conditions \cup {None}, stage : Stages]
    <2>3. [click |-> clicks + 1, transaction |-> prepared, reviewed |-> draft,
           stage |-> "building"] \in Wide
        BY <2>1, <2>2 DEF TypeOK, Stages
    <2>4. \A send \in Sends : send \in Wide
        BY <2>1 DEF Sends, TypeOK
    <2>5. sends' \subseteq Wide
        BY <1>7, <2>3, <2>4 DEF Create, TypeOK, Sends
    <2> QED
        BY <1>7, <2>1, <2>5 DEF Create, TypeOK
<1>8. ASSUME CreateTooLate PROVE TypeOK'
    BY <1>8 DEF CreateTooLate, TypeOK, Phases
<1>9. ASSUME NEW send \in sends,
             AskWallet(send) \/ WalletAnswers(send) \/ ConfirmationFails(send)
      PROVE  TypeOK'
    <2>1. /\ clicks' = clicks
          /\ \/ \E stage \in Stages : MovesTo(send, stage)
             \/ sends' = sends \ {send}
        BY <1>9 DEF AskWallet, WalletAnswers, ConfirmationFails, SendFails, Stages
    <2>2. phase' \in Phases
        BY <1>9 DEF AskWallet, WalletAnswers, ConfirmationFails, SendFails, Shows, TypeOK, Phases
    <2>3. UNCHANGED <<builder, draft, prepared, jobs, chain>>
        BY <1>9 DEF AskWallet, WalletAnswers, ConfirmationFails
    <2> QED
        BY <2>1, <2>2, <2>3, SendsStayTyped DEF TypeOK
<1>10. ASSUME NEW send \in sends, Submit(send) PROVE TypeOK'
    <2>1. /\ clicks' = clicks
          /\ \/ \E stage \in Stages : MovesTo(send, stage)
             \/ sends' = sends \ {send}
        BY <1>10 DEF Submit, SendFails, Stages
    <2>2. phase' \in Phases
        BY <1>10 DEF Submit, SendFails, Shows, TypeOK, Phases
    <2>3. SignedOf(send) \in Signed
        BY DEF TypeOK, SignedOf, Signed
    <2>4. network' \subseteq Signed
        BY <1>10, <2>3 DEF Submit, TypeOK
    <2>5. UNCHANGED <<builder, draft, prepared, jobs, pools>>
        BY <1>10 DEF Submit
    <2> QED
        BY <2>1, <2>2, <2>4, <2>5, SendsStayTyped DEF TypeOK
<1>11. ASSUME NEW send \in sends, Confirmed(send) PROVE TypeOK'
    <2>1. clicks' = clicks /\ sends' = sends \ {send}
        BY <1>11 DEF Confirmed
    <2> QED
        BY <1>11, <2>1, SendsStayTyped DEF Confirmed, TypeOK
<1>12. ASSUME NEW signed \in network, Land(signed) PROVE TypeOK'
    <2>1. pools' \in Seq(Signed)
        BY <1>12 DEF Land, TypeOK
    <2> QED
        BY <1>12, <2>1 DEF Land, TypeOK
<1>13. ASSUME NEW signed \in network, Expire(signed) PROVE TypeOK'
    BY <1>13 DEF Expire, TypeOK
<1>14. ASSUME UNCHANGED vars PROVE TypeOK'
    BY <1>14 DEF vars, TypeOK
<1> QED
    BY <1>1, <1>2, <1>3, <1>4, <1>5, <1>6, <1>7, <1>8, <1>9, <1>10, <1>11, <1>12,
       <1>13, <1>14 DEF Next

-----------------------------------------------------------------------------
(* One transaction per estimate, one pool per address                      *)

\* ... one transaction per estimate ...
LEMMA NextKeepsTransactions ==
    ASSUME IInv, [Next]_vars
    PROVE  OneTransactionPerEstimate'
<1> USE DEF builder, review, jobs, sending, chain
<1>1. TypeOK /\ OneTransactionPerEstimate
    BY DEF IInv
<1>2. ASSUME NEW condition \in Conditions, EditLegs(condition) \/ CompileSettles(condition)
      PROVE  OneTransactionPerEstimate'
    <2>1. UNCHANGED <<prepared, sends, network, pools, estimates, estimating>>
        BY <1>2 DEF EditLegs, CompileSettles
    <2>2. \A t \in Existing' : t \in Existing
        BY <2>1, ExistingAre, ExistingAreThen
    <2> QED
        BY <1>1, <2>1, <2>2, NoNewTransaction
<1>3. ASSUME Confirm \/ CreateTooLate PROVE OneTransactionPerEstimate'
    <2>1. /\ prepared' = NotPrepared
          /\ UNCHANGED <<sends, network, pools, estimates, estimating>>
        BY <1>3 DEF Confirm, CreateTooLate
    <2>2. \A t \in Existing' : t \in Existing
        BY <2>1, ExistingAre, ExistingAreThen
    <2> QED
        BY <1>1, <2>1, <2>2, NoNewTransaction
<1>4. ASSUME Prepare PROVE OneTransactionPerEstimate'
    <2> DEFINE new == [estimate |-> estimates + 1, condition |-> draft]
    <2>1. /\ prepared' = NotPrepared
          /\ UNCHANGED <<sends, network, pools>>
          /\ estimates' = estimates + 1
          /\ estimating' = estimating \cup {new}
        BY <1>4 DEF Prepare
    <2>2. new.estimate = estimates + 1
        OBVIOUS
    <2> HIDE DEF new
    <2>3. \A t \in Existing' : t \in Existing
        BY <2>1, ExistingAre, ExistingAreThen
    <2>4. estimates \in Nat
        BY <1>1, BoundsAssumption DEF TypeOK
    <2>5. \A job \in estimating : job.estimate \in Nat /\ job.estimate <= estimates
        BY <1>1, <2>4 DEF TypeOK
    <2>6. \A t \in Existing : t.estimate \in Nat
        <3> TAKE t \in Existing
        <3>1. t \in Transactions
            <4>1. \A i \in DOMAIN pools : pools[i] \in Signed
                BY <1>1, LenProperties, ElementOfSeq DEF TypeOK
            <4> QED
                BY <1>1, <4>1, ExistingAre DEF TypeOK, Signed
        <3> QED
            BY <3>1 DEF Transactions
    <2> QED
        BY <1>1, <2>1, <2>2, <2>3, <2>4, <2>5, <2>6 DEF OneTransactionPerEstimate
<1>5. ASSUME NEW job \in estimating, NEW address \in Addresses, PrepareSucceeds(job, address)
      PROVE  OneTransactionPerEstimate'
    <2>1. /\ prepared'.estimate = job.estimate
          /\ UNCHANGED <<sends, network, pools, estimates>>
          /\ estimating' = estimating \ {job}
        BY <1>5 DEF PrepareSucceeds
    <2>2. \A t \in Existing' : t = prepared' \/ t \in Existing
        BY <2>1, ExistingAre, ExistingAreThen
    <2>3. job.estimate <= estimates
        BY <1>1 DEF TypeOK
    <2> QED
        BY <1>1, <2>1, <2>2, <2>3 DEF OneTransactionPerEstimate
<1>6. ASSUME NEW job \in estimating, PrepareFails(job) PROVE OneTransactionPerEstimate'
    <2>1. /\ UNCHANGED <<prepared, sends, network, pools, estimates>>
          /\ estimating' = estimating \ {job}
        BY <1>6 DEF PrepareFails
    <2>2. \A t \in Existing' : t \in Existing
        BY <2>1, ExistingAre, ExistingAreThen
    <2> QED
        BY <1>1, <2>1, <2>2, NoNewTransaction
<1>7. ASSUME Create PROVE OneTransactionPerEstimate'
    <2> DEFINE new == [click |-> clicks + 1, transaction |-> prepared,
                       reviewed |-> draft, stage |-> "building"]
    <2>1. /\ sends' = sends \cup {new}
          /\ prepared # NotPrepared
          /\ UNCHANGED <<prepared, network, pools, estimates, estimating>>
        BY <1>7 DEF Create, MayCreate
    <2>2. new.transaction = prepared
        OBVIOUS
    <2> HIDE DEF new
    <2>3. \A t \in Existing' : t \in Existing
        BY <2>1, <2>2, ExistingAre, ExistingAreThen
    <2> QED
        BY <1>1, <2>1, <2>3, NoNewTransaction
<1>8. ASSUME NEW send \in sends,
             AskWallet(send) \/ WalletAnswers(send) \/ ConfirmationFails(send) \/ Confirmed(send)
      PROVE  OneTransactionPerEstimate'
    <2>1. \/ \E stage \in Stages : MovesTo(send, stage)
          \/ sends' = sends \ {send}
        BY <1>8 DEF AskWallet, WalletAnswers, ConfirmationFails, Confirmed, SendFails, Stages
    <2>2. UNCHANGED <<prepared, network, pools, estimates, estimating>>
        BY <1>8 DEF AskWallet, WalletAnswers, ConfirmationFails, Confirmed
    <2>3. \A t \in Existing' : t \in Existing
        BY <1>1, <2>1, <2>2, SendsOnly
    <2> QED
        BY <1>1, <2>2, <2>3, NoNewTransaction
<1>9. ASSUME NEW send \in sends, Submit(send) PROVE OneTransactionPerEstimate'
    <2>1. \/ \E stage \in Stages : MovesTo(send, stage)
          \/ sends' = sends \ {send}
        BY <1>9 DEF Submit, SendFails, Stages
    <2>2. UNCHANGED <<prepared, pools, estimates, estimating>>
        BY <1>9 DEF Submit
    <2>3. network' = network \/ network' = network \cup {SignedOf(send)}
        BY <1>9 DEF Submit
    <2>4. SignedOf(send).transaction = send.transaction
        BY DEF SignedOf
    <2>5. \A other \in sends' : \E old \in sends : other.transaction = old.transaction
        <3> TAKE other \in sends'
        <3>1. CASE other \in sends
            BY <3>1
        <3>2. CASE other \notin sends
            <4>1. PICK stage \in Stages : MovesTo(send, stage)
                BY <2>1, <3>2
            <4>2. other = [send EXCEPT !.stage = stage]
                BY <3>2, <4>1 DEF MovesTo
            <4> QED
                BY <1>1, <4>2, SendFields
        <3> QED
            BY <3>1, <3>2
    <2>6. \A t \in Existing' : t \in Existing
        <3> TAKE t \in Existing'
        <3>1. ASSUME NEW other \in sends', t = other.transaction PROVE t \in Existing
            BY <2>5, <3>1, ExistingAre
        <3>2. ASSUME NEW signed \in network', t = signed.transaction PROVE t \in Existing
            BY <2>3, <2>4, <3>2, ExistingAre
        <3> QED
            BY <2>2, <3>1, <3>2, ExistingAre, ExistingAreThen
    <2> QED
        BY <1>1, <2>2, <2>6, NoNewTransaction
<1>10. ASSUME NEW signed \in network, Land(signed) \/ Expire(signed)
       PROVE  OneTransactionPerEstimate'
    <2>1. /\ UNCHANGED <<prepared, sends, estimates, estimating>>
          /\ network' \subseteq network
          /\ pools' = pools \/ pools' = Append(pools, signed)
        BY <1>10 DEF Land, Expire
    <2>2. \A i \in DOMAIN pools' :
             \/ i \in DOMAIN pools /\ pools'[i] = pools[i]
             \/ pools'[i] = signed
        <3>1. CASE pools' = pools
            BY <3>1
        <3>2. CASE pools' = Append(pools, signed)
            <4>1. pools \in Seq(Signed) /\ signed \in Signed
                BY <1>1 DEF TypeOK
            <4> QED
                BY <3>2, <4>1, Appended
        <3> QED
            BY <2>1, <3>1, <3>2
    <2>3. \A t \in Existing' : t \in Existing
        <3> TAKE t \in Existing'
        <3>1. ASSUME NEW i \in DOMAIN pools', t = pools'[i].transaction PROVE t \in Existing
            BY <2>2, <3>1, ExistingAre
        <3> QED
            BY <2>1, <3>1, ExistingAre, ExistingAreThen
    <2> QED
        BY <1>1, <2>1, <2>3, NoNewTransaction
<1>11. ASSUME UNCHANGED vars PROVE OneTransactionPerEstimate'
    <2>1. UNCHANGED <<prepared, sends, network, pools, estimates, estimating>>
        BY <1>11 DEF vars
    <2>2. \A t \in Existing' : t \in Existing
        BY <2>1, ExistingAre, ExistingAreThen
    <2> QED
        BY <1>1, <2>1, <2>2, NoNewTransaction
<1> QED
    BY <1>2, <1>3, <1>4, <1>5, <1>6, <1>7, <1>8, <1>9, <1>10, <1>11 DEF Next

\* ... one pool per address ...
LEMMA NextKeepsAddresses ==
    ASSUME IInv, [Next]_vars
    PROVE  OnePoolPerAddress'
<1>1. TypeOK /\ OnePoolPerAddress
    BY DEF IInv
<1>2. ASSUME pools' = pools PROVE OnePoolPerAddress'
    BY <1>1, <1>2 DEF OnePoolPerAddress
<1>3. ASSUME NEW signed \in network, pools' = Append(pools, signed),
             ~AddressTaken(signed.transaction.address)
      PROVE  OnePoolPerAddress'
    <2>1. pools \in Seq(Signed) /\ signed \in Signed
        BY <1>1 DEF TypeOK
    <2>2. \A i \in DOMAIN pools' :
             \/ i \in DOMAIN pools /\ pools'[i] = pools[i]
             \/ i = Len(pools) + 1 /\ pools'[i] = signed
        BY <1>3, <2>1, Appended
    <2>3. \A i \in DOMAIN pools : pools[i].transaction.address # signed.transaction.address
        BY <1>3 DEF AddressTaken
    <2> QED
        BY <1>1, <2>2, <2>3 DEF OnePoolPerAddress
<1>4. \/ pools' = pools
      \/ \E signed \in network : /\ pools' = Append(pools, signed)
                                 /\ ~AddressTaken(signed.transaction.address)
    <2> USE DEF chain
    <2>1. ASSUME NEW condition \in Conditions, EditLegs(condition) \/ CompileSettles(condition)
          PROVE  pools' = pools
        BY <2>1 DEF EditLegs, CompileSettles
    <2>2. ASSUME Confirm \/ Prepare \/ Create \/ CreateTooLate PROVE pools' = pools
        BY <2>2 DEF Confirm, Prepare, Create, CreateTooLate
    <2>3. ASSUME NEW job \in estimating,
                 PrepareFails(job) \/ \E address \in Addresses : PrepareSucceeds(job, address)
          PROVE  pools' = pools
        BY <2>3 DEF PrepareSucceeds, PrepareFails
    <2>4. ASSUME NEW send \in sends,
                 \/ AskWallet(send) \/ WalletAnswers(send) \/ Submit(send)
                 \/ Confirmed(send) \/ ConfirmationFails(send)
          PROVE  pools' = pools
        BY <2>4 DEF AskWallet, WalletAnswers, Submit, Confirmed, ConfirmationFails
    <2>5. ASSUME NEW signed \in network, Land(signed) \/ Expire(signed)
          PROVE  \/ pools' = pools
                 \/ /\ pools' = Append(pools, signed)
                    /\ ~AddressTaken(signed.transaction.address)
        BY <2>5 DEF Land, Expire, AcceptsPool
    <2> QED
        BY <2>1, <2>2, <2>3, <2>4, <2>5 DEF Next, vars
<1> QED
    BY <1>2, <1>3, <1>4

\* ... and the preview of the legs.
LEMMA NextKeepsPreview ==
    ASSUME PreviewIsOfTheLegs, [Next]_vars
    PROVE  PreviewIsOfTheLegs'
<1> USE DEF builder
<1>1. ASSUME NEW condition \in Conditions, EditLegs(condition) PROVE PreviewIsOfTheLegs'
    BY <1>1 DEF EditLegs, PreviewIsOfTheLegs
<1>2. ASSUME NEW condition \in Conditions, CompileSettles(condition) PROVE PreviewIsOfTheLegs'
    BY <1>2 DEF CompileSettles, IsActive, PreviewIsOfTheLegs
<1>3. ASSUME UNCHANGED builder PROVE PreviewIsOfTheLegs'
    BY <1>3 DEF PreviewIsOfTheLegs
<1>4. ASSUME Confirm \/ Prepare \/ Create \/ CreateTooLate PROVE UNCHANGED builder
    BY <1>4 DEF Confirm, Prepare, Create, CreateTooLate
<1>5. ASSUME NEW job \in estimating,
             PrepareFails(job) \/ \E address \in Addresses : PrepareSucceeds(job, address)
      PROVE  UNCHANGED builder
    BY <1>5 DEF PrepareSucceeds, PrepareFails
<1>6. ASSUME NEW send \in sends,
             \/ AskWallet(send) \/ WalletAnswers(send) \/ Submit(send)
             \/ Confirmed(send) \/ ConfirmationFails(send)
      PROVE  UNCHANGED builder
    BY <1>6 DEF AskWallet, WalletAnswers, Submit, Confirmed, ConfirmationFails
<1>7. ASSUME NEW signed \in network, Land(signed) \/ Expire(signed)
      PROVE  UNCHANGED builder
    BY <1>7 DEF Land, Expire
<1> QED
    BY <1>1, <1>2, <1>3, <1>4, <1>5, <1>6, <1>7 DEF Next, vars

-----------------------------------------------------------------------------
(* The theorems                                                            *)

\* The invariant holds when the page is opened.
LEMMA InitHolds == Init => IInv
<1> SUFFICES ASSUME Init PROVE IInv
    OBVIOUS
<1> USE ConditionsAssumption, BoundsAssumption DEF Init
<1>1. TypeOK
    BY DEF TypeOK, Phases
<1>2. PreviewIsOfTheLegs
    BY DEF PreviewIsOfTheLegs
<1>3. Existing = {} /\ DOMAIN pools = {}
    BY DEF Existing
<1>4. OneTransactionPerEstimate /\ OnePoolPerAddress
    BY <1>3 DEF OneTransactionPerEstimate, OnePoolPerAddress
<1> QED
    BY <1>1, <1>2, <1>4 DEF IInv

\* The inductive invariant: an estimate gives one transaction, which every send,
\* every signature on its way and every pool made from the estimate carries, and
\* no address has two pools.
THEOREM Invariant == Spec => []IInv
<1>1. Init => IInv
    BY InitHolds
<1>2. IInv /\ [Next]_vars => IInv'
    BY NextKeepsType, NextKeepsTransactions, NextKeepsAddresses, NextKeepsPreview DEF IInv
<1> QED
    BY <1>1, <1>2, PTL DEF Spec

\* Once the builder's compilation is done the preview is of exactly the legs in
\* it, in whichever order the compilations of earlier edits end.
THEOREM PreviewFollowsTheLegs == Spec => []PreviewIsOfTheLegs
<1>1. IInv => PreviewIsOfTheLegs
    BY DEF IInv
<1> QED
    BY <1>1, Invariant, PTL

\* However often "Create pool" is clicked and tried again, an estimate becomes
\* one pool at most: its transactions all name one address, which takes one.
THEOREM NoSecondPool == Spec => []OnePoolPerEstimate
<1>1. IInv => OnePoolPerEstimate
    <2> SUFFICES ASSUME IInv, NEW i \in DOMAIN pools, NEW j \in DOMAIN pools,
                        pools[i].transaction.estimate = pools[j].transaction.estimate
                 PROVE  i = j
        BY DEF OnePoolPerEstimate
    <2>1. pools[i].transaction \in Existing /\ pools[j].transaction \in Existing
        BY ExistingAre
    <2>2. pools[i].transaction = pools[j].transaction
        BY <2>1 DEF IInv, OneTransactionPerEstimate
    <2> QED
        BY <2>2 DEF IInv, OnePoolPerAddress
<1> QED
    BY <1>1, Invariant, PTL
=============================================================================
