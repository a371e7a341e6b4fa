----------------------------- MODULE PoolCreator -----------------------------
(***************************************************************************)
(* The page /create of the browser client: the condition builder             *)
(* (condition-builder.tsx), the review and creation of the pool              *)
(* (wallet-pool-creator.tsx) and the sending of its transaction              *)
(* (sendInstructions of wallet-provider.tsx).  Compiling, estimating and     *)
(* sending are asynchronous, and what the creator clicks comes in between.   *)
(*                                                                           *)
(* A condition, with its title and cutoff, is a model value.  Time is left   *)
(* out: a check of the cutoff is one of the ways in which a step may fail.   *)
(***************************************************************************)
EXTENDS Naturals, Sequences

CONSTANTS
    Conditions,     \* what the legs of the builder may say
    Compilable,     \* those the compiler accepts
    None,
    Addresses,      \* addresses of pools, from the time of the estimate
    MaxEdits,       \* bound on the edits
    MaxEstimates,   \* bound on the estimates
    MaxSends        \* bound on the clicks on "Create pool"

ASSUME ConditionsAssumption == Compilable \subseteq Conditions /\ None \notin Conditions
ASSUME BoundsAssumption == MaxEdits \in Nat /\ MaxEstimates \in Nat /\ MaxSends \in Nat

VARIABLES
    legs,       \* the condition in the builder
    compiles,   \* compilations under way
    compiled,   \* the preview
    edits,      \* edits made
    draft,      \* the confirmed condition under review
    prepared,   \* the estimated transaction
    phase,      \* TransactionPhase
    estimating, \* calls of prepare under way
    estimates,  \* estimates begun
    sends,      \* calls of create under way
    clicks,     \* calls of create begun
    network,    \* submitted transactions that have not landed or expired
    pools,      \* pools created on the chain, in order
    left        \* whether the page has moved on to the pool

builder == <<legs, compiles, compiled, edits>>
review == <<draft, prepared, phase>>
jobs == <<estimating, estimates>>
sending == <<sends, clicks>>
chain == <<network, pools>>
vars == <<builder, review, jobs, sending, chain, left>>

Phases == {"idle", "preparing", "ready", "awaitingSignature", "confirming", "failed"}
Stages == {"building", "signing", "signed", "sent"}

\* A create_pool transaction: its estimate, its condition, its pool's address.
Transactions ==
    [estimate : 1 .. MaxEstimates, condition : Conditions, address : Addresses]
\* One that was signed, for one click: another click gives another signature,
\* unless the blockhash is still the same.
Signed == [click : 1 .. MaxSends, transaction : Transactions]
SignedOf(send) == [click |-> send.click, transaction |-> send.transaction]
NotPrepared == [estimate |-> 0, condition |-> None, address |-> None]

Init ==
    /\ legs \in Compilable
    /\ compiles = {legs}
    /\ compiled = None
    /\ edits = 0
    /\ draft = None
    /\ prepared = NotPrepared
    /\ phase = "idle"
    /\ estimating = {}
    /\ estimates = 0
    /\ sends = {}
    /\ clicks = 0
    /\ network = {}
    /\ pools = <<>>
    /\ left = FALSE

-----------------------------------------------------------------------------
(* The builder.  Faulty... operators are plausible slips in the operator that *)
(* follows them; nothing uses them.                                           *)

\* The effect of the old condition is cleaned up, that of the new one compiles
\* it; the preview stays until that is done.
EditLegs(condition) ==
    /\ ~left
    /\ edits < MaxEdits
    /\ condition # legs
    /\ edits' = edits + 1
    /\ legs' = condition
    /\ compiles' = compiles \cup {condition}
    /\ UNCHANGED <<compiled, review, jobs, sending, chain, left>>

\* A result is only taken for the condition still in the builder.
FaultyIsActive(condition) == TRUE
IsActive(condition) == condition = legs

CompileOf(condition) == IF condition \in Compilable THEN condition ELSE None

CompileSettles(condition) ==
    /\ ~left
    /\ condition \in compiles
    /\ compiles' = compiles \ {condition}
    /\ compiled' = IF IsActive(condition) THEN CompileOf(condition) ELSE compiled
    /\ UNCHANGED <<legs, edits, review, jobs, sending, chain, left>>

Confirm ==
    /\ ~left
    /\ compiled # None
    /\ draft' = compiled
    /\ prepared' = NotPrepared
    /\ phase' = "idle"
    /\ UNCHANGED <<builder, jobs, sending, chain, left>>

-----------------------------------------------------------------------------
(* The review: prepare is a closure over the draft it was clicked for.       *)

Prepare ==
    /\ ~left
    /\ draft # None
    /\ phase \notin {"preparing", "confirming"}
    /\ estimates < MaxEstimates
    /\ estimates' = estimates + 1
    /\ estimating' = estimating \cup {[estimate |-> estimates + 1, condition |-> draft]}
    /\ phase' = "preparing"
    /\ prepared' = NotPrepared
    /\ UNCHANGED <<builder, draft, sending, chain, left>>

\* An address is tried until no account is found there.
AddressTaken(address) == \E i \in DOMAIN pools : pools[i].transaction.address = address

PrepareSucceeds(job, address) ==
    /\ ~left
    /\ job \in estimating
    /\ ~AddressTaken(address)
    /\ estimating' = estimating \ {job}
    /\ prepared' = [estimate |-> job.estimate, condition |-> job.condition,
                    address |-> address]
    /\ phase' = "ready"
    /\ UNCHANGED <<builder, draft, estimates, sending, chain, left>>

PrepareFails(job) ==
    /\ ~left
    /\ job \in estimating
    /\ estimating' = estimating \ {job}
    /\ phase' = "failed"
    /\ UNCHANGED <<builder, draft, prepared, estimates, sending, chain, left>>

MayCreate == ~left /\ phase = "ready" /\ prepared # NotPrepared

\* The phase only changes once the wallet is asked: a second click is possible.
Create ==
    /\ MayCreate
    /\ clicks < MaxSends
    /\ clicks' = clicks + 1
    /\ sends' = sends \cup {[click |-> clicks + 1, transaction |-> prepared,
                             reviewed |-> draft, stage |-> "building"]}
    /\ UNCHANGED <<builder, review, jobs, chain, left>>

CreateTooLate ==
    /\ MayCreate
    /\ prepared' = NotPrepared
    /\ phase' = "failed"
    /\ UNCHANGED <<builder, draft, jobs, sending, chain, left>>

-----------------------------------------------------------------------------
(* sendInstructions *)

\* A page that has been left shows nothing, but its calls go on.
Shows(p) == phase' = IF left THEN phase ELSE p

MovesTo(send, stage) ==
    sends' = (sends \ {send}) \cup {[send EXCEPT !.stage = stage]}

SendFails(send) ==
    /\ sends' = sends \ {send}
    /\ Shows("failed")

AskWallet(send) ==
    /\ send \in sends /\ send.stage = "building"
    /\ \/ MovesTo(send, "signing") /\ Shows("awaitingSignature")
       \/ SendFails(send)
    /\ UNCHANGED <<builder, draft, prepared, jobs, clicks, chain, left>>

WalletAnswers(send) ==
    /\ send \in sends /\ send.stage = "signing"
    /\ \/ MovesTo(send, "signed") /\ Shows("confirming")
       \/ SendFails(send)
    /\ UNCHANGED <<builder, draft, prepared, jobs, clicks, chain, left>>

\* The preflight of the RPC node refuses what would fail; it may also fail.
Submit(send) ==
    /\ send \in sends /\ send.stage = "signed"
    /\ \/ /\ ~AddressTaken(send.transaction.address)
          /\ MovesTo(send, "sent")
          /\ network' = network \cup {SignedOf(send)}
          /\ UNCHANGED phase
       \/ SendFails(send) /\ UNCHANGED network
    /\ UNCHANGED <<builder, draft, prepared, jobs, clicks, pools, left>>

Landed(transaction) == \E i \in DOMAIN pools : pools[i].transaction = transaction

\* router.push: the page of the pool, with the condition that was reviewed.
Confirmed(send) ==
    /\ send \in sends /\ send.stage = "sent"
    /\ Landed(send.transaction)
    /\ sends' = sends \ {send}
    /\ left' = TRUE
    /\ UNCHANGED <<builder, review, jobs, clicks, chain>>

\* The transaction failed or expired, or the answer got lost.
ConfirmationFails(send) ==
    /\ send \in sends /\ send.stage = "sent"
    /\ SendFails(send)
    /\ UNCHANGED <<builder, draft, prepared, jobs, clicks, chain, left>>

-----------------------------------------------------------------------------
(* create_pool initialises the account of the pool, which must not exist.    *)
FaultyAcceptsPool(address) == TRUE
AcceptsPool(address) == ~AddressTaken(address)

Land(signed) ==
    /\ signed \in network
    /\ network' = network \ {signed}
    /\ pools' = IF AcceptsPool(signed.transaction.address) THEN Append(pools, signed) ELSE pools
    /\ UNCHANGED <<builder, review, jobs, sending, left>>

Expire(signed) ==
    /\ signed \in network
    /\ network' = network \ {signed}
    /\ UNCHANGED <<builder, review, jobs, sending, pools, left>>

Next ==
    \/ \E condition \in Conditions : EditLegs(condition) \/ CompileSettles(condition)
    \/ Confirm
    \/ Prepare
    \/ \E job \in estimating :
          \/ \E address \in Addresses : PrepareSucceeds(job, address)
          \/ PrepareFails(job)
    \/ Create
    \/ CreateTooLate
    \/ \E send \in sends :
          \/ AskWallet(send)
          \/ WalletAnswers(send)
          \/ Submit(send)
          \/ Confirmed(send)
          \/ ConfirmationFails(send)
    \/ \E signed \in network : Land(signed) \/ Expire(signed)

Spec == Init /\ [][Next]_vars

-----------------------------------------------------------------------------
(* Properties                                                              *)

\* Once the compilation of what is in the builder is done, the preview is of
\* exactly that, whichever order the compilations of earlier edits end in.
PreviewIsOfTheLegs == legs \notin compiles => compiled = CompileOf(legs)

\* However often "Create pool" is clicked, and whatever confirmation is lost and
\* tried again, an estimate becomes one pool at most.
OnePoolPerEstimate ==
    \A i, j \in DOMAIN pools : pools[i].transaction.estimate = pools[j].transaction.estimate => i = j

-----------------------------------------------------------------------------
(* The inductive invariant of PoolCreatorProofs                             *)

TypeOK ==
    /\ legs \in Conditions
    /\ draft \in Conditions \cup {None}
    /\ compiled \in Compilable \cup {None}
    /\ estimates \in 0 .. MaxEstimates
    /\ prepared \in Transactions \cup {NotPrepared}
    /\ phase \in Phases
    /\ estimating \subseteq [estimate : 1 .. estimates, condition : Conditions]
    /\ clicks \in 0 .. MaxSends
    /\ sends \subseteq [click : 1 .. clicks, transaction : Transactions,
                        reviewed : Conditions \cup {None}, stage : Stages]
    /\ network \subseteq Signed
    /\ pools \in Seq(Signed)

\* Every transaction there is: prepared, being sent, on its way, landed.
Existing ==
    ({prepared} \ {NotPrepared})
    \cup {send.transaction : send \in sends}
    \cup {signed.transaction : signed \in network}
    \cup {pools[i].transaction : i \in DOMAIN pools}

\* An estimate gives one transaction, and one that has not ended gives none.
OneTransactionPerEstimate ==
    /\ \A t, u \in Existing : t.estimate = u.estimate => t = u
    /\ \A t \in Existing : t.estimate <= estimates
    /\ \A t \in Existing, job \in estimating : t.estimate # job.estimate
    /\ \A job, other \in estimating : job.estimate = other.estimate => job = other

\* No account is initialised twice.
OnePoolPerAddress ==
    \A i, j \in DOMAIN pools :
       pools[i].transaction.address = pools[j].transaction.address => i = j

IInv ==
    /\ TypeOK
    /\ PreviewIsOfTheLegs
    /\ OneTransactionPerEstimate
    /\ OnePoolPerAddress

-----------------------------------------------------------------------------
\* What the wallet is asked to sign is the condition the review showed when the
\* creator clicked.
SignsWhatIsReviewed ==
    \A send \in sends : send.transaction.condition = send.reviewed
=============================================================================
