---------------------------- MODULE AccountCodec ----------------------------
(***************************************************************************)
(* The bytes the browser client and the escrow program exchange: accounts      *)
(* the program writes (Anchor's Borsh encoding of the structs of state.rs)     *)
(* and proof-play-program.ts reads by hand, and instructions it builds by      *)
(* hand and the program's Accounts structs check.  The two sides share no      *)
(* code: a field read in another order is another field, silently if it is as  *)
(* wide.                                                                       *)
(*                                                                             *)
(* Data is a sequence of fields, each with its width in bytes and its value;   *)
(* a reader that asks for another width than the next field has fails.  Public *)
(* keys are tuples: a derived address is the tuple of its seeds, which are     *)
(* taken not to collide.                                                       *)
(***************************************************************************)
EXTENDS Integers, FiniteSets, Sequences, SequencesExt

\* Widths of the types, in bytes.  An "option" is one byte, or two.
Width == [tag |-> 8, key |-> 32, hash |-> 32, u8 |-> 1, bool |-> 1, u16 |-> 2,
          i32 |-> 4, u32 |-> 4, u64 |-> 8, i64 |-> 8]
Field(type, value) == [width |-> Width[type], value |-> value]

-----------------------------------------------------------------------------
(* Writing.  A layout is a sequence of <<name, type>>.                       *)

Written(type, value) ==
    IF type # "option" THEN <<Field(type, value)>>
    ELSE IF value < 0 THEN <<Field("u8", 0)>>
    ELSE <<Field("u8", 1), Field("u8", value)>>

Encode(tag, layout, values) ==
    LET data[i \in 0 .. Len(layout)] ==
            IF i = 0 THEN <<Field("tag", tag)>>
            ELSE data[i - 1] \o Written(layout[i][2], values[layout[i][1]])
    IN  data[Len(layout)]

-----------------------------------------------------------------------------
(* Reading by a layout: field i is read where the ones before it end, one     *)
(* further if an option was there.  What follows the last is not looked at.   *)

Places(layout, data) ==
    LET options == {k \in DOMAIN layout : layout[k][2] = "option"} IN
    [i \in DOMAIN layout |->
        1 + i + Cardinality({k \in options : k < i /\ data[k + 1].value = 1})]

Readable(type, data, at) ==
    /\ at \in DOMAIN data
    /\ type # "option" => data[at].width = Width[type]
    /\ type \in {"bool", "option"} => data[at].width = 1 /\ data[at].value \in 0 .. 1
    /\ type = "option" /\ data[at].value = 1 =>
          at + 1 \in DOMAIN data /\ data[at + 1].width = 1 /\ data[at + 1].value \in 0 .. 1

Value(type, data, at) ==
    IF type # "option" THEN data[at].value
    ELSE IF data[at].value = 0 THEN -1 ELSE data[at + 1].value

Decode(tag, layout, data) ==
    LET at == Places(layout, data)
        index == [n \in {f[1] : f \in ToSet(layout)} |->
                    CHOOSE i \in DOMAIN layout : layout[i][1] = n]
    IN  IF /\ data[1] = Field("tag", tag)
           /\ Len(data) > Len(layout)
           /\ \A i \in DOMAIN layout : Readable(layout[i][2], data, at[i])
        THEN [ok |-> TRUE,
              values |-> [n \in DOMAIN index |->
                            Value(layout[index[n]][2], data, at[index[n]])]]
        ELSE [ok |-> FALSE]

-----------------------------------------------------------------------------
(* The accounts.  Faulty... operators are plausible slips in the one that  *)
(* follows them; nothing uses them.                                        *)

\* struct Pool, as the program writes it.
PoolStruct ==
    << <<"creator", "key">>, <<"fixtureId", "i64">>, <<"poolId", "u64">>,
       <<"mint", "key">>, <<"commitment", "hash">>, <<"version", "u16">>,
       <<"cutoff", "i64">>, <<"refundAfter", "i64">>, <<"createdAt", "i64">>,
       <<"state", "u8">>, <<"winningSide", "option">>, <<"yes", "u64">>,
       <<"no", "u64">>, <<"remainingPool", "u64">>, <<"remainingWinning", "u64">>,
       <<"settledSequence", "u64">>, <<"demoMode", "bool">>, <<"bump", "u8">> >>

\* What decodePoolAccount reads: everything but the bump.
FaultyPoolReads ==
    << <<"creator", "key">>, <<"fixtureId", "i64">>, <<"poolId", "u64">>,
       <<"mint", "key">>, <<"commitment", "hash">>, <<"version", "u16">>,
       <<"cutoff", "i64">>, <<"refundAfter", "i64">>, <<"createdAt", "i64">>,
       <<"state", "u8">>, <<"winningSide", "option">>, <<"yes", "u64">>,
       <<"no", "u64">>, <<"remainingWinning", "u64">>, <<"remainingPool", "u64">>,
       <<"settledSequence", "u64">>, <<"demoMode", "bool">> >>
PoolReads ==
    << <<"creator", "key">>, <<"fixtureId", "i64">>, <<"poolId", "u64">>,
       <<"mint", "key">>, <<"commitment", "hash">>, <<"version", "u16">>,
       <<"cutoff", "i64">>, <<"refundAfter", "i64">>, <<"createdAt", "i64">>,
       <<"state", "u8">>, <<"winningSide", "option">>, <<"yes", "u64">>,
       <<"no", "u64">>, <<"remainingPool", "u64">>, <<"remainingWinning", "u64">>,
       <<"settledSequence", "u64">>, <<"demoMode", "bool">> >>

\* struct Position, and what decodePositionAccount reads of it.
PositionStruct ==
    << <<"pool", "key">>, <<"owner", "key">>, <<"side", "u8">>, <<"amount", "u64">>,
       <<"claimed", "bool">>, <<"refunded", "bool">>, <<"bump", "u8">> >>
PositionReads == SubSeq(PositionStruct, 1, 6)

\* enum PoolState and enum PoolSide number their variants in this order; the
\* client has lists of its own.
ProgramStates == <<"Open", "Locked", "SettledYes", "SettledNo", "Cancelled", "Closed">>
ClientStates == <<"Open", "Locked", "SettledYes", "SettledNo", "Cancelled", "Closed">>
SideNumber(side) == CASE side = "Yes" -> 0 [] side = "No" -> 1 [] OTHER -> -1
SideNumbered(n) == CASE n = 0 -> "Yes" [] n = 1 -> "No" [] OTHER -> "None"
Bit(b) == IF b THEN 1 ELSE 0

-----------------------------------------------------------------------------
(* Addresses.                                                                *)

WalletKey(owner) == <<"wallet", owner>>
TokenProgram == <<"token program">>
SystemProgram == <<"system program">>
PoolAddress(creator, poolId) == <<"pool", creator, poolId>>
VaultAddress(pool) == <<"vault", pool>>
ConfigAddress(pool) == <<"settlement_config", pool>>
PositionAddress(pool, owner) == <<"position", pool, owner>>
TokenAddress(mint, owner) == <<"associated token", owner, mint>>

-----------------------------------------------------------------------------
(* Decoding accounts, with the check of the address against the seeds.        *)

PoolData(terms, p) ==
    Encode("Pool", PoolStruct,
        [creator |-> terms.creator, fixtureId |-> terms.fixtureId,
         poolId |-> terms.poolId, mint |-> terms.mint, commitment |-> terms.commitment,
         version |-> terms.version, cutoff |-> p.cutoff, refundAfter |-> p.refundAfter,
         createdAt |-> 0,
         state |-> (CHOOSE i \in DOMAIN ProgramStates : ProgramStates[i] = p.state) - 1,
         winningSide |-> SideNumber(p.winningSide), yes |-> p.sideAmount["Yes"],
         no |-> p.sideAmount["No"], remainingPool |-> p.remainingPool,
         remainingWinning |-> p.remainingWinning,
         settledSequence |-> p.settledSequence, demoMode |-> Bit(p.demoMode),
         bump |-> 255])

DecodePool(address, data) ==
    LET read == Decode("Pool", PoolReads, data) v == read.values IN
    IF read.ok /\ v.state + 1 \in DOMAIN ClientStates
               /\ PoolAddress(v.creator, v.poolId) = address
    THEN [ok |-> TRUE, address |-> address, creator |-> v.creator,
          fixtureId |-> v.fixtureId, poolId |-> v.poolId, mint |-> v.mint,
          commitment |-> v.commitment, version |-> v.version, cutoff |-> v.cutoff,
          refundAfter |-> v.refundAfter, createdAt |-> v.createdAt,
          state |-> ClientStates[v.state + 1],
          winningSide |-> SideNumbered(v.winningSide), yes |-> v.yes, no |-> v.no,
          remainingPool |-> v.remainingPool, remainingWinning |-> v.remainingWinning,
          settledSequence |-> v.settledSequence, demoMode |-> v.demoMode = 1]
    ELSE [ok |-> FALSE]

PositionData(pool, owner, q) ==
    Encode("Position", PositionStruct,
        [pool |-> pool, owner |-> owner, side |-> SideNumber(q.side),
         amount |-> q.amount, claimed |-> Bit(q.claimed),
         refunded |-> Bit(q.refunded), bump |-> 255])

DecodePosition(address, data) ==
    LET read == Decode("Position", PositionReads, data) v == read.values IN
    IF read.ok /\ v.side \in 0 .. 1 /\ PositionAddress(v.pool, v.owner) = address
    THEN [ok |-> TRUE, address |-> address, pool |-> v.pool, owner |-> v.owner,
          side |-> SideNumbered(v.side), amount |-> v.amount,
          claimed |-> v.claimed = 1, refunded |-> v.refunded = 1]
    ELSE [ok |-> FALSE]

-----------------------------------------------------------------------------
(* Instructions: what the client builds ...                                  *)

CreatePoolArguments ==
    << <<"poolId", "u64">>, <<"fixtureId", "i64">>, <<"commitment", "hash">>,
       <<"version", "u16">>, <<"cutoff", "i64">>, <<"refundAfter", "i64">>,
       <<"demoMode", "bool">> >>

CreatePoolWrites ==
    << <<"poolId", "u64">>, <<"fixtureId", "i64">>, <<"commitment", "hash">>,
       <<"version", "u16">>, <<"cutoff", "i64">>, <<"refundAfter", "i64">>,
       <<"demoMode", "bool">> >>

\* The stat keys and the strategy that follow are the settlement
\* configuration's subject.
CreatePoolInstruction(terms) ==
    LET pool == PoolAddress(terms.creator, terms.poolId) IN
    [data |-> Encode("create_pool", CreatePoolWrites, [terms EXCEPT !.demoMode = 0]),
     keys |-> <<terms.creator, pool, VaultAddress(pool), ConfigAddress(pool),
                terms.mint, TokenProgram, SystemProgram>>]

JoinPoolInstruction(pool, mint, owner, side, amount) ==
    [data |-> <<Field("tag", "join_pool"), Field("u8", SideNumber(side)),
                Field("u64", amount)>>,
     keys |-> <<owner, pool, VaultAddress(pool), mint,
                TokenAddress(mint, owner), PositionAddress(pool, owner),
                TokenProgram, SystemProgram>>]

FaultyPayoutInstruction(action, pool, mint, owner) ==
    [data |-> <<Field("tag", action)>>,
     keys |-> <<owner, pool, VaultAddress(pool),
                PositionAddress(pool, owner), mint,
                TokenAddress(mint, owner), TokenProgram>>]
PayoutInstruction(action, pool, mint, owner) ==
    [data |-> <<Field("tag", action)>>,
     keys |-> <<owner, pool, PositionAddress(pool, owner),
                VaultAddress(pool), mint, TokenAddress(mint, owner),
                TokenProgram>>]

(* ... and what the program makes of it: the accounts by their place in the   *)
(* Accounts struct, held against the seeds and the constraints it declares.   *)

CreatePoolAccounts ==
    <<"creator", "pool", "vault", "settlement_config", "token_mint",
      "token_program", "system_program">>
JoinPoolAccounts ==
    <<"owner", "pool", "vault", "token_mint", "tokens", "position",
      "token_program", "system_program">>
PayoutAccounts ==
    <<"owner", "pool", "position", "vault", "token_mint", "tokens", "token_program">>

Named(names, keys) ==
    [n \in ToSet(names) |-> keys[CHOOSE i \in DOMAIN names : names[i] = n]]

\* create_pool: the terms the pool starts with, or a refusal.
CreatedTerms(instruction) ==
    LET args == Decode("create_pool", CreatePoolArguments, instruction.data)
        v == args.values
        at == Named(CreatePoolAccounts, instruction.keys)
    IN  IF args.ok /\ at.pool = PoolAddress(at.creator, v.poolId)
                   /\ at.vault = VaultAddress(at.pool)
                   /\ at.settlement_config = ConfigAddress(at.pool)
                   /\ at.token_program = TokenProgram
                   /\ at.system_program = SystemProgram
        THEN [ok |-> TRUE, creator |-> at.creator, mint |-> at.token_mint,
              poolId |-> v.poolId, fixtureId |-> v.fixtureId, commitment |-> v.commitment,
              version |-> v.version, cutoff |-> v.cutoff, refundAfter |-> v.refundAfter,
              demoMode |-> v.demoMode]
        ELSE [ok |-> FALSE]

\* join_pool, claim and refund on the pool created with these terms.
AccountsAccepted(names, instruction, terms) ==
    LET at == Named(names, instruction.keys) IN
    /\ Len(instruction.keys) = Len(names)
    /\ at.pool = PoolAddress(terms.creator, terms.poolId)
    /\ at.vault = VaultAddress(at.pool)
    /\ at.position = PositionAddress(at.pool, at.owner)
    /\ at.token_mint = terms.mint
    /\ at.tokens = TokenAddress(terms.mint, at.owner)
    /\ at.token_program = TokenProgram

JoinArguments(instruction) ==
    Decode("join_pool", << <<"side", "u8">>, <<"amount", "u64">> >>, instruction.data)
=============================================================================
