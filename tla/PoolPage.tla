------------------------------ MODULE PoolPage ------------------------------
(***************************************************************************)
(* The page of one pool in the browser client (pool-experience.tsx), the        *)
(* wallet it acts through (wallet-provider.tsx) and the pool on the chain       *)
(* (PoolEscrow), which other people and the owner's other tabs use as well.     *)
(*                                                                              *)
(* The page acts on a snapshot: the pool's account, then the owner's accounts,  *)
(* read one after the other and shown until another read replaces them.         *)
(* Whatever the chain, the wallet and the user do in between, an instruction is *)
(* built from what was shown when the button was clicked.                       *)
(*                                                                              *)
(* A read at the "confirmed" level sees every transaction confirmed before it.  *)
(* Rendering, lamports and the wallet's choice of network are left out; the     *)
(* pool's mint is the configured demo token, and the link carries the           *)
(* condition the pool was created with.                                         *)
(***************************************************************************)
EXTENDS PoolEscrow, AccountCodec

CONSTANTS
    Accounts,           \* what the user's wallet may be connected to
    NoAccount,          \* no wallet connected
    Others,             \* the Owners who act elsewhere; the rest never come back
    Openings,           \* what may be staked when the page is opened
    MaxTransactions     \* bound on the clicks that begin a transaction

ASSUME AccountsAssumption ==
    Accounts \subseteq Owners \cup {NoAccount} /\ Others \subseteq Owners /\ NoAccount \notin Owners
\* The units of these stakes that are on these sides.
StakedOn(stakes, sides) ==
    Cardinality({u \in Owners \X (1 .. MaxU64) :
                    stakes[u[1]].side \in sides /\ u[2] <= stakes[u[1]].amount})

ASSUME OpeningsAssumption ==
    /\ Openings \subseteq [Owners -> [side : Sides \cup {None}, amount : Amounts]]
    /\ \A stakes \in Openings :
          /\ \A o \in Owners : stakes[o].side = None <=> stakes[o].amount = 0
          \* the vault holds them all
          /\ StakedOn(stakes, Sides) <= MaxU64
\* The units in these token accounts.
UnitsHeld(balances) ==
    Cardinality({u \in Owners \X (1 .. MaxU64) : u[2] <= balances[u[1]]})

\* The supply of a mint is a u64, and the vault's share of it another.
ASSUME SupplyAssumption ==
    /\ Endowment \in [Owners -> Amounts]
    /\ \A stakes \in Openings : UnitsHeld(Endowment) + StakedOn(stakes, Sides) <= MaxU64
ASSUME ClicksAssumption == MaxTransactions \in Nat
\* The pool of the page closes at 1.
ASSUME DeadlinesAssumption == 1 + Grace <= MaxTime

VARIABLES
    tokenAccounts,  \* the owners whose associated token account exists
    account,        \* the wallet's account (publicKey)
    shown,          \* the snapshot
    loadState,      \* "loading", "ready" or "error"
    due,            \* the reading effect has to run (again)
    reading,        \* the read of the effect that ran last, if under way
    tx,             \* the transactions begun on this page, by click
    asked           \* transactionPhase is "awaitingSignature" or "confirming"

chain == <<vars, tokenAccounts>>
snapshots == <<shown, loadState, due, reading>>
sends == <<tx, asked>>
pageVars == <<chain, account, snapshots, sends>>

-----------------------------------------------------------------------------
(* The pool of the page, created by an instruction of the client.            *)

Asked ==
    [creator |-> WalletKey(Creator), mint |-> <<"demo token">>, poolId |-> 7,
     fixtureId |-> 11, commitment |-> "commitment", version |-> 1,
     cutoff |-> 1, refundAfter |-> 1 + Grace, demoMode |-> 0]
Address == PoolAddress(Asked.creator, Asked.poolId)
Terms == CreatedTerms(CreatePoolInstruction(Asked))

\* The link's condition, compiled again, is that of the pool.
MetadataVerified(p) ==
    /\ p.commitment = Asked.commitment
    /\ p.version = Asked.version
    /\ p.fixtureId = Asked.fixtureId

NoSnapshot == [owner |-> NoAccount, missing |-> TRUE]
Unread == [state |-> "unread"]
NotReading == [stage |-> "none", owner |-> NoAccount, pool |-> Unread]
NoAccountThere == [ok |-> FALSE]
\* A transaction that failed and never reached the chain.
Forgotten == [action |-> "none", page |-> "failed", chain |-> "none"]
NoTransaction == [action |-> "none", page |-> "unused", chain |-> "none"]

PageInit ==
    /\ Terms.ok
    /\ \E stakes \in Openings :
          /\ pool = [state |-> "Open", cutoff |-> Terms.cutoff,
                     refundAfter |-> Terms.refundAfter, demoMode |-> Terms.demoMode = 1,
                     winningSide |-> None,
                     sideAmount |-> [side \in Sides |-> StakedOn(stakes, {side})],
                     remainingPool |-> StakedOn(stakes, Sides),
                     remainingWinning |-> 0, settledSequence |-> 0]
          /\ position = [o \in Owners |-> [NoPosition EXCEPT !.side = stakes[o].side,
                                                         !.amount = stakes[o].amount]]
          /\ vault = StakedOn(stakes, Sides)
    /\ record = NoRecord
    /\ wallet = Endowment
    /\ clock = 0
    \* who has nothing left may have closed the empty token account
    /\ tokenAccounts = {o \in Owners : Endowment[o] > 0}
    /\ account \in Accounts
    /\ shown = NoSnapshot
    /\ loadState = "loading"
    /\ due = TRUE
    /\ reading = NotReading
    /\ tx = [i \in 1 .. MaxTransactions |-> NoTransaction]
    /\ asked = FALSE

-----------------------------------------------------------------------------
(* Reading.  The effect runs after a change of the account or of the refresh *)
(* version; its clean-up makes the read of the one before ineffective.       *)

StartReading ==
    /\ due
    /\ due' = FALSE
    /\ reading' = [stage |-> "pool", owner |-> account, pool |-> Unread]
    /\ UNCHANGED <<chain, account, shown, loadState, sends>>

ReadPool ==
    /\ reading.stage = "pool"
    /\ reading' = [reading EXCEPT !.stage = "owner", !.pool = pool]
    /\ UNCHANGED <<chain, account, shown, loadState, due, sends>>

\* asOf is what the read saw, before decoding.
Snapshot(owner, p, q) ==
    [owner |-> owner,
     pool |-> DecodePool(Address, PoolData(Terms, p)),
     position |-> IF q.side = "None" THEN NoAccountThere
                  ELSE DecodePosition(PositionAddress(Address, WalletKey(owner)),
                                      PositionData(Address, WalletKey(owner), q)),
     balance |-> IF owner \in tokenAccounts THEN wallet[owner] ELSE 0,
     tokenAccountExists |-> owner \in tokenAccounts,
     asOf |-> <<p, q>>]
Unconnected(p) ==
    [owner |-> NoAccount, pool |-> DecodePool(Address, PoolData(Terms, p)),
     position |-> NoAccountThere, balance |-> 0, tokenAccountExists |-> FALSE,
     asOf |-> <<p, NoPosition>>]

\* The owner's accounts are read once the pool and its mint have been.
ReadOwner ==
    LET result == IF reading.owner = NoAccount THEN Unconnected(reading.pool)
                  ELSE Snapshot(reading.owner, reading.pool, position[reading.owner])
    IN  /\ reading.stage = "owner"
        /\ reading' = NotReading
        /\ IF result.pool.ok
           THEN shown' = result /\ loadState' = "ready"
           ELSE shown' = NoSnapshot /\ loadState' = "error"
        /\ UNCHANGED <<chain, account, due, sends>>

ReadFails ==
    /\ reading.stage # "none"
    /\ reading' = NotReading
    /\ shown' = NoSnapshot
    /\ loadState' = "error"
    /\ UNCHANGED <<chain, account, due, sends>>

FaultyRefreshed == loadState' = "loading" /\ due' = (due \/ reading = NotReading)
Refreshed == loadState' = "loading" /\ due' = TRUE

\* "Refresh state", "Retry devnet", or an airdrop that was confirmed.
Refresh ==
    /\ loadState # "loading" \/ account # NoAccount
    /\ Refreshed
    /\ UNCHANGED <<chain, account, shown, reading, sends>>

\* accountChanged, connect and disconnect of the wallet.
SwitchAccount(to) ==
    /\ to # account
    /\ account' = to
    /\ due' = TRUE
    /\ UNCHANGED <<chain, shown, loadState, reading, sends>>

-----------------------------------------------------------------------------
(* What the page offers (poolActionAvailability).                            *)

Unpaid(q) == q.ok /\ ~q.claimed /\ ~q.refunded

ClaimOffered(s) ==
    /\ s.pool.state \in {"SettledYes", "SettledNo"}
    /\ Unpaid(s.position)
    /\ s.pool.state = SettledFor(s.position.side)

RefundOffered(s) == s.pool.state = "Cancelled" /\ Unpaid(s.position)

FaultyJoinOffered(s, side, now) ==
    /\ s.pool.state = "Open"
    /\ now <= s.pool.cutoff
    /\ MetadataVerified(s.pool)
    /\ s.position.ok => s.position.side = side /\ Unpaid(s.position)
JoinOffered(s, side, now) ==
    /\ s.pool.state = "Open"
    /\ now < s.pool.cutoff
    /\ MetadataVerified(s.pool)
    /\ s.position.ok => s.position.side = side /\ Unpaid(s.position)

\* The amount typed is positive and within the balance shown.
DepositAccepted(s, amount) == amount > 0 /\ amount <= s.balance

FaultyCalculatePayout(p, amount) ==
    IF p.remainingWinning <= 0 \/ amount <= 0 \/ amount > p.remainingWinning THEN 0
    ELSE ((p.yes + p.no) * amount) \div p.remainingWinning
CalculatePayout(p, amount) ==
    IF p.remainingWinning <= 0 \/ amount <= 0 \/ amount > p.remainingWinning THEN 0
    ELSE (p.remainingPool * amount) \div p.remainingWinning

\* The amount on the button.
Quoted(action, s) ==
    CASE action = "claim" -> CalculatePayout(s.pool, s.position.amount)
      [] action = "refund" -> s.position.amount
      [] OTHER -> 0

-----------------------------------------------------------------------------
(* Transactions.  The handlers are closures over the snapshot and the account  *)
(* of the render in which they were clicked; the buttons are disabled once the *)
(* wallet has been asked, not before.                                          *)

Rendered == shown # NoSnapshot /\ loadState # "error"

Begins(i, action, side, amount) ==
    /\ ~asked
    /\ account # NoAccount
    /\ tx[i] = NoTransaction
    /\ i > 1 => tx[i - 1] # NoTransaction
    /\ tx' = [tx EXCEPT ![i] =
                [action |-> action, owner |-> account, side |-> side, amount |-> amount,
                 createsTokens |-> ~shown.tokenAccountExists,
                 at |-> shown.pool.address, mint |-> shown.pool.mint,
                 books |-> shown.pool.remainingPool, own |-> shown.owner = account,
                 quoted |-> Quoted(action, shown),
                 page |-> "building", chain |-> "none"]]
    /\ UNCHANGED <<chain, account, snapshots, asked>>

\* The page's clock is at most behind.
Join(i, side, amount) ==
    /\ Rendered
    /\ \E now \in 0 .. clock : JoinOffered(shown, side, now)
    /\ DepositAccepted(shown, amount)
    /\ Begins(i, "join", side, amount)

ClaimOrRefund(i, action) ==
    /\ Rendered
    /\ IF action = "claim" THEN ClaimOffered(shown) ELSE RefundOffered(shown)
    /\ Begins(i, action, None, 0)

InstructionOf(t) ==
    IF t.action = "join"
    THEN JoinPoolInstruction(t.at, t.mint, WalletKey(t.owner), t.side, t.amount)
    ELSE PayoutInstruction(t.action, t.at, t.mint, WalletKey(t.owner))

\* The side and the amount that the program reads in a deposit.
SideRead(t) == SideNumbered(JoinArguments(InstructionOf(t)).values.side)
AmountRead(t) == JoinArguments(InstructionOf(t)).values.amount

\* Every check the runtime and the program make of it, after the idempotent
\* creation of the token account.
Accepts(t) ==
    LET i == InstructionOf(t) IN
    /\ t.createsTokens \/ t.owner \in tokenAccounts
    /\ \/ /\ t.action = "join"
          /\ AccountsAccepted(JoinPoolAccounts, i, Asked)
          /\ JoinArguments(i).ok
          /\ JoinAccepted(t.owner, SideRead(t), AmountRead(t))
       \/ /\ t.action = "claim"
          /\ AccountsAccepted(PayoutAccounts, i, Asked)
          /\ ClaimAccepted(t.owner)
       \/ /\ t.action = "refund"
          /\ AccountsAccepted(PayoutAccounts, i, Asked)
          /\ RefundAccepted(t.owner)

Executes(t) ==
    /\ Accepts(t)
    /\ tokenAccounts' = tokenAccounts \cup {t.owner}
    /\ \/ t.action = "join" /\ JoinPool(t.owner, SideRead(t), AmountRead(t))
       \/ t.action = "claim" /\ Claim(t.owner)
       \/ t.action = "refund" /\ Refund(t.owner)

AskWallet(i) ==
    /\ tx[i].page = "building"
    /\ tx' = [tx EXCEPT ![i].page = "signing"]
    /\ asked' = TRUE
    /\ UNCHANGED <<chain, account, snapshots>>

\* The wallet signs and the RPC node takes what its simulation accepts.
Submit(i) ==
    /\ tx[i].page = "signing"
    /\ Accepts(tx[i])
    /\ tx' = [tx EXCEPT ![i].page = "waiting", ![i].chain = "pending"]
    /\ asked' = TRUE
    /\ UNCHANGED <<chain, account, snapshots>>

Land(i) ==
    /\ tx[i].chain = "pending"
    /\ Executes(tx[i])
    /\ tx' = [tx EXCEPT ![i] = [action |-> @.action, owner |-> @.owner,
                               page |-> @.page, chain |-> "landed",
                               staked |-> position'[@.owner].amount,
                               pot |-> Pot(pool'), rest |-> pool'.remainingPool]]
    /\ UNCHANGED <<account, snapshots, asked>>

\* It is rejected on the chain, or its blockhash expires.
Drop(i) ==
    /\ tx[i].chain = "pending"
    /\ tx' = [tx EXCEPT ![i] = IF @.page = "failed" THEN Forgotten
                               ELSE [@ EXCEPT !.chain = "dropped"]]
    /\ UNCHANGED <<chain, account, snapshots, asked>>

Confirm(i) ==
    /\ tx[i].page = "waiting"
    /\ tx[i].chain = "landed"
    /\ tx' = [tx EXCEPT ![i].page = "confirmed"]
    /\ asked' = FALSE
    /\ Refreshed
    /\ UNCHANGED <<chain, account, shown, reading>>

\* The blockhash, the wallet, the simulation, the chain or the connection
\* fails; in the last case the transaction may still land.
Fail(i) ==
    /\ tx[i].page \in {"building", "signing", "waiting"}
    /\ tx' = [tx EXCEPT ![i] = IF @.chain \in {"pending", "landed"}
                               THEN [@ EXCEPT !.page = "failed"] ELSE Forgotten]
    /\ asked' = FALSE
    /\ UNCHANGED <<chain, account, snapshots>>

-----------------------------------------------------------------------------
(* Everyone else, and the same owners in other tabs.                        *)

Elsewhere ==
    /\ \/ \E o \in Others, side \in Sides, amount \in 1 .. MaxU64 :
             /\ o \in tokenAccounts
             /\ JoinPool(o, side, amount) /\ UNCHANGED tokenAccounts
       \/ LockPool /\ UNCHANGED tokenAccounts
       \/ \E side \in Sides, sequence \in Sequences :
             SettlePool(side, sequence) /\ UNCHANGED tokenAccounts
       \/ \E authority \in Others \cup {Creator} :
             CancelPool(authority) /\ UNCHANGED tokenAccounts
       \/ \E o \in Others :
             /\ Claim(o) \/ Refund(o)
             /\ tokenAccounts' = tokenAccounts \cup {o}
       \* of no consequence once the pool is resolved
       \/ pool.state \in Unresolved /\ Tick /\ UNCHANGED tokenAccounts
    /\ UNCHANGED <<account, snapshots, sends>>

PageNext ==
    \/ StartReading \/ ReadPool \/ ReadOwner \/ ReadFails \/ Refresh
    \/ \E to \in Accounts : SwitchAccount(to)
    \/ \E i \in 1 .. MaxTransactions :
          \/ \E side \in Sides, amount \in 1 .. MaxU64 : Join(i, side, amount)
          \/ \E action \in {"claim", "refund"} : ClaimOrRefund(i, action)
          \/ AskWallet(i) \/ Submit(i) \/ Land(i) \/ Drop(i) \/ Confirm(i) \/ Fail(i)
    \/ Elsewhere

PageSpec == PageInit /\ [][PageNext]_pageVars

-----------------------------------------------------------------------------
(* Properties                                                              *)

\* The snapshot is that of the connected account and nothing in it has changed.
UpToDate ==
    /\ Rendered
    /\ account # NoAccount
    /\ shown.owner = account
    /\ shown.asOf = <<pool, position[account]>>
    /\ shown.tokenAccountExists = (account \in tokenAccounts)
    /\ shown.balance = wallet[account]

WouldSend(action, side, amount) ==
    [action |-> action, owner |-> account, side |-> side, amount |-> amount,
     createsTokens |-> ~shown.tokenAccountExists,
     at |-> shown.pool.address, mint |-> shown.pool.mint]

\* The page's rules are the program's: as long as its snapshot is that of the
\* chain and its clock is right, it offers a claim, a refund or a deposit
\* exactly when the program accepts the very instruction it would build.  Both
\* sides were written separately: the rules (pool-actions.ts and state.rs) and
\* the layouts of accounts and instructions (docs/wallet-participation.md,
\* "Participation state machine").
OffersWhatTheProgramAccepts ==
    UpToDate =>
       /\ ClaimOffered(shown) <=> Accepts(WouldSend("claim", "None", 0))
       /\ RefundOffered(shown) <=> Accepts(WouldSend("refund", "None", 0))
       /\ \A side \in Sides, amount \in 1 .. shown.balance :
             JoinOffered(shown, side, clock) <=> Accepts(WouldSend("join", side, amount))

\* A payout is never below the amount on the button that asked for it, however
\* old the snapshot was; it is exactly that amount if nobody was paid in
\* between; a refund always is ("Claim the exact deterministic pro-rata
\* amount", "Refund the original deposit").  This holds for a button showing
\* the account's own snapshot.
PaysWhatItShowed ==
    [][\A i \in 1 .. MaxTransactions :
          LET t == tx[i] paid == wallet'[t.owner] - wallet[t.owner] IN
          t.chain = "pending" /\ tx'[i].chain = "landed" /\ t.own =>
             /\ t.action \in {"claim", "refund"} => paid >= t.quoted
             /\ t.action = "claim" /\ t.books = pool.remainingPool => paid = t.quoted
             /\ t.action = "refund" => paid = t.quoted]_pageVars

\* Once the page says it is up to date it shows the result of every action it
\* has reported as confirmed, in the owner's position and in the pool's totals,
\* whichever reads were under way then ("The pool
\* page reads fresh on-chain totals and the connected wallet's position PDA
\* after every confirmed action", docs/wallet-participation.md).
ShowsWhatItConfirmed ==
    loadState = "ready" /\ ~due /\ reading = NotReading /\ shown.owner = account =>
       \A i \in 1 .. MaxTransactions :
          LET t == tx[i] IN
          t.page = "confirmed" /\ t.owner = account =>
             /\ shown.position.ok
             /\ shown.position.amount >= t.staked
             /\ shown.pool.yes + shown.pool.no >= t.pot
             /\ t.action = "claim" => shown.position.claimed
             /\ t.action = "refund" => shown.position.refunded
             /\ t.action # "join" => shown.pool.remainingPool <= t.rest

(* The inductive invariant behind the theorems of PoolPageProofs.           *)

Resolved(p) == p.state \notin Unresolved \cup {"Absent"}

\* Of a pool p and a position q as they are now: a claim will pay the quoted
\* amount at least, and exactly if nobody is paid before it (books is what the
\* pool held when it was quoted).
QuoteStands(p, q, quoted, books) ==
    /\ quoted \in Nat /\ books \in Nat
    /\ Resolved(p)
    /\ p.remainingPool <= books
    /\ Claimable(p, q) =>
          /\ quoted <= Payout(p, q.amount)
          /\ books = p.remainingPool => quoted = Payout(p, q.amount)

\* What was seen of a resolved pool still tells what the position is worth.
ViewStands(seen, amount, p, q) ==
    /\ seen.remainingPool \in Nat
    /\ seen.state \in Settled =>
          QuoteStands(p, q, CalculatePayout(seen, amount), seen.remainingPool)
    /\ seen.state \in Settled \cup {"Cancelled"} => Resolved(p)

\* A snapshot of a resolved pool has the final stake of its owner.
SnapshotStands(s, p, positions) ==
    s.owner \in Owners /\ s.position.ok =>
       /\ ViewStands(s.pool, s.position.amount, p, positions[s.owner])
       /\ s.pool.state \in Settled \cup {"Cancelled"} =>
             s.position.amount = positions[s.owner].amount

\* The read under way has seen the pool, and not yet the owner's accounts.
ReadingStands(r, p, positions) ==
    r.stage = "owner" =>
       /\ r.pool \in PoolAccounts /\ r.pool.state # "Absent"
       /\ \A o \in Owners : ViewStands(r.pool, positions[o].amount, p, positions[o])

\* Where a transaction may be, to the page and to the chain, before it lands.
UnderWay ==
    {"building", "signing"} \X {"none"} \cup {"waiting", "failed"} \X {"pending"}
        \cup {<<"waiting", "dropped">>}

\* A transaction on its way pays what its button said.
IntentStands(t, p, positions) ==
    /\ <<t.page, t.chain>> \in UnderWay
    /\ t = [action |-> t.action, owner |-> t.owner, side |-> t.side, amount |-> t.amount,
            createsTokens |-> t.createsTokens, at |-> t.at, mint |-> t.mint,
            books |-> t.books, own |-> t.own, quoted |-> t.quoted,
            page |-> t.page, chain |-> t.chain]
    /\ t.action \in {"join", "claim", "refund"}
    /\ t.owner \in Owners
    /\ t.action = "join" => t.side \in Sides /\ t.amount \in 1 .. MaxU64
    /\ t.action = "claim" /\ t.own => QuoteStands(p, positions[t.owner], t.quoted, t.books)
    /\ t.action = "refund" /\ t.own => Resolved(p) /\ t.quoted = positions[t.owner].amount

\* What a transaction brought about (q is its owner's position) is not undone.
ResultStands(t, p, q) ==
    /\ t.staked \in Nat /\ t.pot \in Nat /\ t.rest \in Nat
    /\ q.side # None
    /\ q.amount >= t.staked
    /\ Pot(p) >= t.pot
    /\ t.action = "claim" => q.claimed
    /\ t.action = "refund" => q.refunded
    /\ t.action # "join" => Resolved(p) /\ p.remainingPool <= t.rest
OutcomeStands(t, p, positions) ==
    /\ t.chain = "landed"
    /\ t = [action |-> t.action, owner |-> t.owner, page |-> t.page, chain |-> t.chain,
            staked |-> t.staked, pot |-> t.pot, rest |-> t.rest]
    /\ t.page \in {"waiting", "failed", "confirmed"}
    /\ t.action \in {"join", "claim", "refund"}
    /\ t.owner \in Owners
    /\ ResultStands(t, p, positions[t.owner])

TransactionStands(t, p, positions) ==
    \/ t \in {NoTransaction, Forgotten}
    \/ IntentStands(t, p, positions)
    \/ OutcomeStands(t, p, positions)

\* Unless it is going to read again, what the page has read or is about to show
\* is no older than what it has confirmed.
PoolShows(yes, no, rest, t) ==
    /\ yes + no >= t.pot
    /\ t.action # "join" => rest <= t.rest
SnapshotShows(s, t) ==
    /\ PoolShows(s.pool.yes, s.pool.no, s.pool.remainingPool, t)
    /\ s.position.ok
    /\ s.position.amount >= t.staked
    /\ t.action = "claim" => s.position.claimed
    /\ t.action = "refund" => s.position.refunded
Fresh ==
    ~due =>
       \A i \in 1 .. MaxTransactions :
          tx[i].page = "confirmed" =>
             /\ reading.stage = "owner" =>
                   PoolShows(reading.pool.sideAmount["Yes"], reading.pool.sideAmount["No"],
                             reading.pool.remainingPool, tx[i])
             /\ reading.stage = "none" /\ loadState = "ready" /\ shown.owner = tx[i].owner =>
                   SnapshotShows(shown, tx[i])

PageTypeOK ==
    /\ account \in Accounts
    /\ shown.owner \in Owners \cup {NoAccount}
    /\ due \in BOOLEAN
    /\ reading.stage \in {"none", "pool", "owner"}
    /\ reading.owner \in Owners \cup {NoAccount}
    /\ reading = [stage |-> reading.stage, owner |-> reading.owner, pool |-> reading.pool]
    /\ tx = [i \in 1 .. MaxTransactions |-> tx[i]]

PageInv ==
    /\ IInv /\ pool.state # "Absent"
    /\ PageTypeOK
    /\ SnapshotStands(shown, pool, position)
    /\ ReadingStands(reading, pool, position)
    /\ \A i \in 1 .. MaxTransactions : TransactionStands(tx[i], pool, position)
    /\ Fresh

(* ... and behind OffersWhatTheProgramAccepts: what the snapshot is made of,  *)
(* and that a deposit fits wherever it is added.                             *)

SnapshotIsRead ==
    shown # NoSnapshot =>
       LET seen == shown.asOf[1] q == shown.asOf[2] IN
       /\ shown.pool = DecodePool(Address, PoolData(Terms, seen))
       /\ shown.pool.ok
       /\ shown.owner \in Owners =>
             shown.position =
                IF q.side = "None" THEN NoAccountThere
                ELSE DecodePosition(PositionAddress(Address, WalletKey(shown.owner)),
                                    PositionData(Address, WalletKey(shown.owner), q))

WithinSupply ==
    /\ wallet \in [Owners -> Amounts]
    /\ UnitsHeld(wallet) + vault <= MaxU64

OfferInv ==
    /\ Terms.ok
    /\ SnapshotIsRead
    /\ WithinSupply
=============================================================================
