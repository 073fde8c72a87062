--------------------------------- MODULE Evm ---------------------------------
(***************************************************************************)
(* The execution API over the handlers of mainnet and of Optimism: a program  *)
(* calls transact, transact_many, replay, system_call and their committing     *)
(* forms; each transaction goes through validation, pre-execution, execution,   *)
(* post-execution and its result, or is caught on the way.  What a frame does    *)
(* is one of the outcomes it can have; the journal is the accounts as they are   *)
(* now (view) and as the last finished transaction left them (base).  The        *)
(* transactions carry no authorizations.                                      *)
(***************************************************************************)
EXTENDS L1Block, Functions

CONSTANTS
    Envs,          \* what to drive: [chain, op, cfg, block, ops, drafts, txs (a key of Txs), calls (a
                   \* bound on the calls of the program)]
    Txs, Batches,  \* the transactions and the batches of transactions, by key
    Setters,       \* the values the setters of the builder are called with, by field
    Genesis,       \* the accounts the database starts with
    Attributes,    \* the L1 attributes of every block, by number
    LastBlock,     \* the number of the last block
    OpDbErrors     \* whether reads of the database fail on Optimism

VARIABLES
    env,           \* what the EVM was built with, one of Envs
    block,         \* the block of the context
    tx,            \* the transaction of the context
    l1,            \* its L1BlockInfo
    db,            \* the database: [acc, attrs, supply]
    view, base,    \* the journal, now and at the last finished transaction
    warm,          \* the accounts the journal has warm
    pc,            \* the step of the handler
    call,          \* the call of the program: [op, rest, start, done (the nonces it has used), error]
    run,           \* the frame result: [gas, result, sent (the value that left the caller), error]
    last,          \* the last finished transaction
    calls,         \* how many calls were made
    draft          \* the transaction being built

R == INSTANCE Results
vars == <<env, block, tx, l1, db, view, base, warm, pc, call, run, last, calls, draft>>

IsOp == env.chain = "op"
Deposit == IsOp /\ is_deposit(tx)
type == IF IsOp THEN op_tx_type(tx) ELSE tx.base.type
T == [tx.base EXCEPT !.type = type]    \* the transaction as its trait shows it
Regolith == OpEnabled(env.op, "REGOLITH")
Addresses == DOMAIN Genesis
Credit(v, a, n) == [v EXCEPT !.acc[a].balance = @ + n]
BumpNonce(v, a) == [v EXCEPT !.acc[a].nonce = @ + 1]
Balances(v) == SumFunction([a \in Addresses |-> v.acc[a].balance])
Nonces(v) == SumFunction([a \in Addresses |-> v.acc[a].nonce])
NoTx == [base |-> NewBuilder, envelope |-> "none", source_hash |-> 0, mint |-> None, system |-> FALSE]
NoCall == [op |-> "none", rest |-> <<>>, start |-> <<>>, done |-> 0, error |-> "none"]
NoRun == [gas |-> [limit |-> 0, remaining |-> 0, refunded |-> 0], result |-> "none", sent |-> 0, error |-> "none"]
NoLast == [tx |-> NoTx, before |-> <<>>, after |-> <<>>, run |-> NoRun, used |-> 0, error |-> "none"]

Init ==
    /\ env \in Envs
    /\ block = env.block
    /\ db = [acc |-> Genesis, attrs |-> Attributes[env.block.number],
             supply |-> SumFunction([a \in Addresses |-> Genesis[a].balance])]
    /\ view = db /\ base = db
    /\ tx = NoTx /\ l1 = NewL1BlockInfo /\ warm = {} /\ pc = "idle" /\ call = NoCall
    /\ run = NoRun /\ last = NoLast /\ calls = 0 /\ draft = NewOpBuilder

-----------------------------------------------------------------------------
(* The calls of the program *)
Keeps == {"transact_one", "transact_many", "system_call_one"}
Drops == {"transact", "transact_many_finalize", "replay", "system_call"}
Commits == {"transact_commit", "transact_many_commit", "replay_commit", "system_call_commit"}
Many == {"transact_many", "transact_many_finalize", "transact_many_commit"}
System == {"system_call_one", "system_call", "system_call_commit"}
Replays == {"replay", "replay_commit"}

(* What an EVM is driven with.  A deposit has no gas price and another transaction of     *)
(* Optimism comes in bytes that are not empty and not those of a deposit; the system's own *)
(* transactions are not replayed there; no transaction is of a type that is not known.     *)
Vaults == {"l1fee", "basefee", "operator"}
Account == [balance : Nat, nonce : Nat, code : {"none", "eip7702", "contract"}]
AttributesType ==
    [block : Nat, base_fee : Nat, overhead : Nat, scalar : Nat, blob_base_fee : Nat, base_scalar : Nat,
     blob_scalar : Nat, sequence : Nat, op_scalar : Nat, op_constant : Nat, da_scalar : Nat]
BlockType ==
    [number : 1..LastBlock, basefee : Nat, blob_price : Option, gas_limit : Nat, prevrandao : BOOLEAN,
     beneficiary : Addresses]
TxEnvType ==
    [type : Option, caller : Addresses \cup {"zero"}, gas_limit : Nat, gas_price : Nat,
     kind : {"call", "create"}, to : Addresses \cup {"zero"}, value : 0..MaxU256, zeros : Nat, others : Nat,
     nonce : Nat, chain_id : Option, access : Nat, priority : Option, blobs : Seq(BOOLEAN), max_blob_fee : Nat, auths : Nat]
TxType ==
    [base : TxEnvType, envelope : DOMAIN Envelopes \cup {"none"}, source_hash : Nat, mint : Option,
     system : BOOLEAN]
EnvType ==
    [chain : {"eth", "op"}, op : DOMAIN OpForks, cfg : CfgType, block : BlockType,
     ops : SUBSET (Keeps \cup Drops \cup Commits), drafts : BOOLEAN,
     txs : DOMAIN Txs \cap DOMAIN Batches, calls : Nat]
SentOn(chain, t) ==
    /\ t.base.caller \in Addresses /\ t.base.to \in Addresses /\ t.base.auths = 0
    /\ IF chain = "op" /\ is_deposit(t) THEN t.base.gas_price = 0
       ELSE t.base.type \in Legacy..Eip7702 /\ ~ Free(t.envelope)

ASSUME EnvsAssumption ==
    /\ Envs \subseteq EnvType
    /\ \A e \in Envs :
          /\ e.chain = "op" => e.cfg.spec = into_eth_spec(e.op)
          /\ e.chain = "op" => e.ops \cap Replays = {} \/ e.ops \cap System = {}
          /\ \A t \in Txs[e.txs] : t \in TxType /\ SentOn(e.chain, t)
          /\ \A ts \in Batches[e.txs] :
                ts \in Seq(TxType) /\ ts # <<>> /\ \A i \in DOMAIN ts : SentOn(e.chain, ts[i])
ASSUME GenesisAssumption ==
    /\ Genesis \in [Addresses -> Account] /\ IsFiniteSet(Addresses)
    /\ Vaults \cup {"system", "bob", "created"} \subseteq Addresses /\ "none" \notin Addresses
    /\ "empty" \in DOMAIN Envelopes
ASSUME AttributesAssumption ==
    /\ LastBlock \in Nat /\ Attributes \in [1..LastBlock -> AttributesType]
    /\ \A n \in 1..LastBlock : Attributes[n].block = n
ASSUME SettersAssumption ==
    /\ \A f \in DOMAIN Setters \cap DOMAIN NewBuilder : \A value \in Setters[f] :
          [NewBuilder EXCEPT ![f] = value] \in TxEnvType
    /\ \A f \in DOMAIN Setters \cap DOMAIN NewOpBuilder : \A value \in Setters[f] :
          f # "base" /\ [NewOpBuilder EXCEPT ![f] = value] \in TxType
    /\ OpDbErrors \in BOOLEAN

(* the attributes of a block are committed before its other transactions are sent *)
Sendable(t) == IsOp /\ ~ is_deposit(t) => db.attrs.block = block.number
Idle == pc = "idle" /\ calls < env.calls /\ draft = NewOpBuilder
Begin(op, t, rest) ==
    /\ Idle /\ calls' = calls + 1
    /\ call' = [op |-> op, rest |-> rest, start |-> [db |-> db, base |-> base], done |-> 0, error |-> "none"]
    /\ tx' = t
    /\ pc' = IF op \in System THEN "execution" ELSE "validate"
    /\ run' = NoRun
    /\ UNCHANGED <<env, block, l1, db, view, base, warm, last, draft>>

transact(op) == \E t \in Txs[env.txs] : Sendable(t) /\ Begin(op, t, <<>>)
transact_many(op) == \E ts \in Batches[env.txs] : (\A i \in DOMAIN ts : Sendable(ts[i])) /\ Begin(op, ts[1], Tail(ts))
replay(op) == tx # NoTx /\ Sendable(tx) /\ Begin(op, tx, <<>>)
SystemTx ==
    [NoTx EXCEPT !.base = new_system_tx("system", "bob"), !.envelope = IF IsOp THEN "empty" ELSE "none"]
system_call(op) == Begin(op, SystemTx, <<>>)

SetBlock ==
    /\ Idle /\ block.number < LastBlock
    /\ block' = [block EXCEPT !.number = @ + 1] /\ calls' = calls + 1 /\ call' = NoCall
    /\ UNCHANGED <<env, tx, l1, db, view, base, warm, pc, run, last, draft>>

(* ExecuteEvm::finalize and ExecuteCommitEvm::commit_inner, called by the program *)
Finalize ==
    /\ Idle /\ calls' = calls + 1
    /\ \E state \in {db, view} : db' = state /\ view' = state /\ base' = state
    /\ warm' = {} /\ call' = NoCall
    /\ UNCHANGED <<env, block, tx, l1, pc, run, last, draft>>

(* the setters of the builders *)
SetBase(f) ==
    \E value \in Setters[f] : draft.base[f] = NewBuilder[f] /\ draft' = [draft EXCEPT !.base[f] = value]
SetOp(f) ==
    \E value \in Setters[f] : draft[f] = NewOpBuilder[f] /\ draft' = [draft EXCEPT ![f] = value]
Draft ==
    /\ env.drafts /\ calls = 0
    /\ (\E f \in DOMAIN Setters \cap DOMAIN NewBuilder : SetBase(f))
       \/ (\E f \in DOMAIN Setters \cap DOMAIN NewOpBuilder : SetOp(f))
    /\ UNCHANGED <<env, block, tx, l1, db, view, base, warm, pc, call, run, last, calls>>

-----------------------------------------------------------------------------
(* The handler *)
Goto(step) == pc' = step
Fail(error) == pc' = "caught" /\ run' = [run EXCEPT !.error = error]
DbFails == (~ IsOp \/ OpDbErrors) /\ Fail("Database")
Handling == UNCHANGED <<env, block, tx, db, base, call, last, calls, draft>>

op_validate_env ==
    IF Deposit THEN IF tx.system /\ Regolith THEN "DepositSystemTxPostRegolith" ELSE "none"
    ELSE IF tx.envelope = "none" THEN "MissingEnvelopedTx"
    ELSE validate_env(T, env.cfg, block)

Validate ==
    /\ pc = "validate"
    /\ LET invalid == IF IsOp THEN op_validate_env ELSE validate_env(T, env.cfg, block)
           short == validate_initial_tx_gas(T, env.cfg)
       IN  IF invalid # "none" THEN Fail(invalid)
           ELSE IF short # "none" THEN Fail(short)
           ELSE Goto("pre") /\ UNCHANGED run
    /\ UNCHANGED <<l1, view, warm>> /\ Handling

Caller == T.caller
Balance(a) == view.acc[a].balance
\* Mutant of Deducted: the nonce is also used up here when a contract is created.
Deducted_twice(balance) == BumpNonce([view EXCEPT !.acc[Caller].balance = balance], Caller)

Deducted(balance) ==
    LET paid == [view EXCEPT !.acc[Caller].balance = balance]
    IN  IF T.kind = "call" THEN BumpNonce(paid, Caller) ELSE paid
WarmCoinbase == IF Enabled(env.cfg.spec, "SHANGHAI") THEN {block.beneficiary} ELSE {}

(* validate_against_state_and_deduct_caller, and load_accounts *)
DeductDeposit ==
    /\ pc = "pre" /\ Deposit
    /\ LET spent == gas_balance_spending(T, block.basefee, Or(block.blob_price, 0))
           minted == Balance(Caller) + Or(tx.mint, 0)
           left == IF spent > minted THEN 0 ELSE minted - spent
       IN  view' = Deducted(IF env.cfg.disable_balance_check THEN Max({left, T.value}) ELSE left)
    /\ Goto("execution")
    /\ warm' = warm \cup {Caller} \cup WarmCoinbase
    /\ UNCHANGED <<l1, run>> /\ Handling

\* Mutant of refetched: the attributes are fetched once.
refetched_once ==
    IF IsOp /\ l1.l2_block = None
    THEN try_fetch(L1BlockStorage(db.attrs), block.number, env.op) ELSE l1

(* the L1 attributes are read from the database again when the block changed *)
refetched ==
    IF IsOp /\ l1.l2_block # block.number
    THEN try_fetch(L1BlockStorage(db.attrs), block.number, env.op) ELSE l1

Deduct ==
    /\ pc = "pre" /\ ~ Deposit
    /\ LET info == refetched
           rejected == validate_account_nonce_and_code(view.acc[Caller], T, env.cfg)
           charged == IsOp /\ ~ env.cfg.disable_fee_charge
           additional == IF charged THEN tx_cost(info, tx.envelope, T.gas_limit, env.op) ELSE 0
           balance == Balance(Caller) - additional
           poor == IF env.cfg.disable_balance_check THEN "none" ELSE ensure_enough_balance(T, balance)
       IN  /\ l1' = IF charged /\ rejected = "none" THEN WithL1Cost(info, tx.envelope, env.op) ELSE info
           /\ IF rejected # "none" THEN Fail(rejected) /\ UNCHANGED view
              ELSE IF balance < 0 THEN Fail("LackOfFundForMaxFee") /\ UNCHANGED view
              ELSE IF poor # "none" THEN Fail(poor) /\ UNCHANGED view
              ELSE /\ view' = Deducted(calculate_caller_fee(balance, T, env.cfg, block))
                   /\ Goto("execution") /\ UNCHANGED run
           /\ warm' = warm \cup {Caller} \cup (IF pc' = "execution" THEN WarmCoinbase ELSE {})
    /\ Handling

PreFails == pc = "pre" /\ DbFails /\ UNCHANGED <<l1, view, warm>> /\ Handling

(* the first frame: its value is transferred, or a contract created, and it ends *)
(* with a result, some gas left and a refund                                    *)
Target == IF T.kind = "call" THEN T.to ELSE "created"
Attributed(v) == IF Target = "l1block" THEN [v EXCEPT !.attrs = Attributes[block.number]] ELSE v
Sent(v) == Attributed(Credit(Credit(v, Caller, - T.value), Target, T.value))

\* Mutant of op_last_frame_result: failed deposits are refunded before Regolith as well.
op_last_frame_result_always(r, remaining, refunded) == R!last_frame_result(r, T.gas_limit, remaining, refunded)

op_last_frame_result(r, remaining, refunded) ==
    LET all == [limit |-> T.gas_limit, remaining |-> 0, refunded |-> 0]
    IN  IF ~ Deposit \/ Regolith THEN R!last_frame_result(r, T.gas_limit, remaining, refunded)
        ELSE IF R!is_ok(r) /\ tx.system THEN R!erase_cost(all, T.gas_limit)
        ELSE all

Execute(r, remaining, refunded) ==
    LET bumped == IF T.kind = "create" /\ r # "OutOfFunds" THEN BumpNonce(view, Caller) ELSE view
    IN  /\ (r = "OutOfFunds") = (T.value > Balance(Caller))
        /\ view' = IF R!is_ok(r) THEN Sent(bumped) ELSE bumped
        /\ run' = [gas |-> IF IsOp THEN op_last_frame_result(r, remaining, refunded)
                           ELSE R!last_frame_result(r, T.gas_limit, remaining, refunded),
                   result |-> r, sent |-> IF R!is_ok(r) /\ Target # Caller THEN T.value ELSE 0,
                   error |-> IF r = "FatalExternalError" THEN "Database" ELSE "none"]
        /\ warm' = warm \cup {Caller, Target}
        /\ Goto(IF call.op \in System THEN "result" ELSE "post")

Execution ==
    /\ pc = "execution"
    /\ LET available == T.gas_limit - (IF call.op \in System THEN 0 ELSE InitialAndFloor(T, env.cfg).initial)
       IN  \/ \E used \in {0, available} : Execute("Stop", available - used, 0)
           \/ Execute("Stop", available \div 3, 2 * available)
           \/ Execute("Revert", available \div 2, available)
           \/ Execute("OutOfGas", 0, 0)
           \/ Execute("OutOfFunds", available, 0)
           \/ (~ IsOp \/ OpDbErrors) /\ Execute("FatalExternalError", 0, 0)
    /\ UNCHANGED l1 /\ Handling

ExecutionFails == pc = "execution" /\ DbFails /\ UNCHANGED <<l1, view, warm>> /\ Handling

(* post-execution: the refund, the floor, the unused gas, the fees *)
Price == effective_gas_price(T, block.basefee)

op_refund(g) == IF Deposit /\ ~ Regolith THEN g ELSE R!refund(g, Enabled(env.cfg.spec, "LONDON"), 0)

settled(g) ==
    R!eip7623_check_gas_floor(
        IF IsOp THEN op_refund(g) ELSE R!refund(g, Enabled(env.cfg.spec, "LONDON"), 0),
        InitialAndFloor(T, env.cfg).floor)

reimburse_caller(v, g) ==
    LET additional == IF IsOp /\ ~ Deposit /\ ~ env.cfg.disable_fee_charge
                      THEN operator_fee_refund(l1, g, env.op) ELSE 0
    IN  Credit(v, Caller, SatMul(g.remaining + g.refunded, Price, MaxU128) + additional)

reward_beneficiary(v, g) ==
    LET price == IF ~ Enabled(env.cfg.spec, "LONDON") THEN Price
                 ELSE IF block.basefee > Price THEN 0 ELSE Price - block.basefee
    IN  Credit(v, block.beneficiary, price * R!used(g))

\* Mutant of op_rewards: the operator is paid for the gas limit.
op_rewards_limit(v, g) ==
    LET operator_fee == IF OpEnabled(env.op, "ISTHMUS")
                        THEN operator_fee_charge(l1, tx.envelope, g.limit, env.op) ELSE 0
    IN  Credit(Credit(Credit(v, "l1fee", calculate_tx_l1_cost(l1, tx.envelope, env.op)),
                      "basefee", SatMul(block.basefee, R!used(g), MaxU128)), "operator", operator_fee)

(* the vaults of Optimism are paid *)
op_rewards(v, g) ==
    LET operator_fee == IF OpEnabled(env.op, "ISTHMUS")
                        THEN operator_fee_charge(l1, tx.envelope, R!used(g), env.op) ELSE 0
    IN  Credit(Credit(Credit(v, "l1fee", calculate_tx_l1_cost(l1, tx.envelope, env.op)),
                      "basefee", SatMul(block.basefee, R!used(g), MaxU128)), "operator", operator_fee)

PostExecution ==
    /\ pc = "post"
    /\ LET g == settled(run.gas)
           back == reimburse_caller(view, g)
       IN  /\ run' = [run EXCEPT !.gas = g]
           /\ view' = IF Deposit THEN back
                      ELSE IF IsOp THEN op_rewards(reward_beneficiary(back, g), g)
                      ELSE reward_beneficiary(back, g)
           /\ l1' = IF IsOp /\ ~ Deposit THEN WithL1Cost(l1, tx.envelope, env.op) ELSE l1
    /\ Goto("result")
    /\ UNCHANGED warm /\ Handling

(* the beneficiary cannot be loaded, after the caller was reimbursed *)
PostFails ==
    /\ pc = "post" /\ DbFails
    /\ view' = reimburse_caller(view, settled(run.gas))
    /\ UNCHANGED <<l1, warm>> /\ Handling

(* what a transaction burns and mints, as it is reported *)
Burnt(used) ==
    (IF IsOp \/ ~ Enabled(env.cfg.spec, "LONDON") THEN 0 ELSE Min({block.basefee, Price}) * used)
        + (IF T.type = Eip4844 THEN SatMul(total_blob_gas(T), Or(block.blob_price, 0), MaxU128) ELSE 0)
Minted == IF Deposit THEN Or(tx.mint, 0) ELSE 0

(* commit_tx, clear of the caches, and the result *)
Include(v, used, error) ==
    LET done == [v EXCEPT !.supply = @ + Minted - (IF call.op \in System \/ Deposit THEN 0 ELSE Burnt(used))]
    IN  /\ view' = done /\ base' = done /\ warm' = {}
        /\ l1' = IF IsOp THEN clear_tx_l1_cost(l1) ELSE l1
        /\ last' = [tx |-> tx, before |-> base, after |-> done, run |-> run, used |-> used, error |-> error]
        /\ Goto("return")
        /\ UNCHANGED <<env, block, tx, db, call, run, calls, draft>>

HaltedDeposit == Deposit /\ Regolith /\ R!is_halt(R!success_or_halt(run.result))

ExecutionResult ==
    /\ pc = "result" /\ run.error = "none" /\ ~ HaltedDeposit
    /\ Include(view, R!used(run.gas), "none")

ExecutionResultFails ==
    /\ pc = "result" /\ (run.error # "none" \/ HaltedDeposit)
    /\ Fail(IF run.error # "none" THEN run.error ELSE "HaltedDepositPostRegolith")
    /\ UNCHANGED <<l1, view, warm>> /\ Handling

\* Mutant of FailedDeposit: the mint is given up with the transaction.
FailedDeposit_unminted(used) == Include(BumpNonce(base, Caller), used, "FailedDeposit")

(* catch_error of Optimism for a deposit that is invalid or halted *)
FailedDeposit(used) == Include(Credit(BumpNonce(base, Caller), Caller, Minted), used, "FailedDeposit")

CatchDeposit ==
    /\ pc = "caught" /\ Deposit /\ run.error # "Database"
    /\ FailedDeposit(IF Regolith \/ ~ tx.system THEN T.gas_limit ELSE 0)

\* Mutant of Discarded: the changes of a failed transaction stay.
Discarded_never == view

(* discard_tx of mainnet; the handler of Optimism leaves the journal as it is *)
Discarded == IF IsOp THEN view ELSE base

CatchError ==
    /\ pc = "caught" /\ ~ (Deposit /\ run.error # "Database")
    /\ view' = Discarded
    /\ warm' = IF IsOp THEN warm ELSE {}
    /\ l1' = IF IsOp THEN clear_tx_l1_cost(l1) ELSE l1
    /\ last' = [tx |-> tx, before |-> base, after |-> Discarded, run |-> run, used |-> 0, error |-> run.error]
    /\ call' = [call EXCEPT !.error = run.error]
    /\ Goto("return")
    /\ UNCHANGED <<env, block, tx, db, base, run, calls, draft>>

-----------------------------------------------------------------------------
(* The rest of a call: the next transaction, or what its form does at the end. *)
Settle(state) == db' = state /\ view' = state /\ base' = state /\ warm' = {}

(* a call of the system uses no nonce, and neither does a deposit before Regolith that *)
(* creates a contract with a value its sender does not have                          *)
NonceKept == Deposit /\ ~ Regolith /\ T.kind = "create" /\ last.run.result = "OutOfFunds"
NoncesUsed == IF call.op \in System \/ NonceKept THEN 0 ELSE 1

NextTx ==
    /\ pc = "return" /\ call.error = "none" /\ call.rest # <<>>
    /\ tx' = Head(call.rest)
    /\ call' = [call EXCEPT !.rest = Tail(@), !.done = @ + NoncesUsed]
    /\ run' = NoRun
    /\ Goto("validate")
    /\ UNCHANGED <<env, block, l1, db, view, base, warm, last, calls, draft>>

\* Mutant of Return: a failed batch is committed as far as it came.
Return_partial ==
    /\ pc = "return" /\ (call.error # "none" \/ call.rest = <<>>)
    /\ IF call.op \in Commits THEN Settle(view)
       ELSE IF call.op \in Keeps THEN UNCHANGED <<db, view, base, warm>> ELSE Settle(db)
    /\ call' = [call EXCEPT !.done = @ + (IF call.error = "none" THEN NoncesUsed ELSE 0)]
    /\ last' = NoLast /\ run' = NoRun
    /\ Goto("idle")
    /\ UNCHANGED <<env, block, tx, l1, calls, draft>>

Return ==
    /\ pc = "return" /\ (call.error # "none" \/ call.rest = <<>>)
    /\ IF call.error # "none"
       THEN IF call.op \in Many \cup {"transact"} THEN Settle(db) ELSE UNCHANGED <<db, view, base, warm>>
       ELSE \/ call.op \in Commits /\ Settle(view)
            \/ call.op \in Drops /\ Settle(db)
            \/ call.op \in Keeps /\ UNCHANGED <<db, view, base, warm>>
    /\ call' = [call EXCEPT !.done = @ + (IF call.error = "none" THEN NoncesUsed ELSE 0)]
    /\ last' = NoLast /\ run' = NoRun
    /\ Goto("idle")
    /\ UNCHANGED <<env, block, tx, l1, calls, draft>>

Calls ==
    \/ \E op \in {"transact_one", "transact", "transact_commit"} \cap env.ops : transact(op)
    \/ \E op \in Many \cap env.ops : transact_many(op)
    \/ \E op \in Replays \cap env.ops : replay(op)
    \/ \E op \in System \cap env.ops : system_call(op)
    \/ SetBlock \/ Finalize \/ Draft

Step ==
    \/ Validate \/ DeductDeposit \/ Deduct \/ PreFails \/ Execution \/ ExecutionFails
    \/ PostExecution \/ PostFails \/ ExecutionResult \/ ExecutionResultFails
    \/ CatchDeposit \/ CatchError \/ NextTx \/ Return

Next == Calls \/ Step

Spec == Init /\ [][Next]_vars

-----------------------------------------------------------------------------
(* The state is of the shape the code's types give it: options that a fork does not *)
(* have are None, and no balance goes below zero.                                *)
TypeOK ==
    /\ calls \in 0..env.calls /\ warm \subseteq Addresses
    /\ pc \in {"idle", "validate", "pre", "execution", "post", "result", "caught", "return"}
    /\ \A v \in {db, view, base} : \A a \in Addresses : v.acc[a].balance \in Nat /\ v.acc[a].nonce \in Nat
    /\ (l1.l2_block # None /\ OpEnabled(env.op, "ISTHMUS")) => l1.operator_fee_scalar # None

StrictCfg ==
    ~ env.cfg.disable_balance_check /\ ~ env.cfg.disable_base_fee /\ ~ env.cfg.disable_fee_charge

(* Money is neither made nor lost: after every transaction, included, failed or     *)
(* rejected, the balances add up to what there was, plus the mints of deposits, less  *)
(* the base fee and the blob fee of the reported gas.  What the caller is charged     *)
(* before the frames run, what is given back and what beneficiary and vaults are      *)
(* paid are computed by four functions from different gas numbers; no balance goes     *)
(* below zero.                                                                        *)
Conserved ==
    /\ TypeOK
    /\ StrictCfg /\ pc \in {"idle", "return"} =>
        Balances(view) = view.supply

(* A sender that is not itself paid the fees pays what the result reports: the reported gas at the effective price, the  *)
(* value that moved, the blobs, and on Optimism the L1 cost of this transaction by the  *)
(* attributes of this block and the operator fee of the reported gas, less the mint.     *)
CallerPays ==
    LET info == try_fetch(L1BlockStorage(db.attrs), block.number, env.op)
        fees == last.used * Price
                + (IF T.type = Eip4844 THEN SatMul(total_blob_gas(T), Or(block.blob_price, 0), MaxU128) ELSE 0)
                + (IF ~ IsOp THEN 0
                   ELSE l1_cost(info, tx.envelope, env.op)
                        + IF OpEnabled(env.op, "ISTHMUS")
                          THEN operator_fee_charge(info, tx.envelope, last.used, env.op) ELSE 0)
    IN  pc = "return" /\ call.error = "none" /\ call.op \notin System /\ StrictCfg
            /\ Caller \notin {block.beneficiary} \cup Vaults =>
            last.before.acc[Caller].balance - last.after.acc[Caller].balance
                = last.run.sent + (IF Deposit THEN - Minted ELSE fees)

(* A deposit is always included, whatever is wrong with it: its mint stays, its nonce    *)
(* is used up, and before Regolith it reports its whole gas limit, or nothing when it    *)
(* succeeds as a system transaction.  (A deposit before Regolith that creates a contract *)
(* with a value its sender does not have keeps its nonce.)                             *)
DepositsStay ==
    pc = "return" /\ Deposit /\ call.error # "Database" =>
        LET before == last.before.acc[Caller]
            after == last.after.acc[Caller]
        IN  /\ call.error = "none"
            /\ env.cfg.disable_balance_check \/ after.balance + last.run.sent = before.balance + Minted
            /\ after.nonce = before.nonce + 1 \/ NonceKept
            /\ Regolith \/ last.used \in {0, T.gas_limit}

(* A transaction and a call happen as a whole or not at all.  A transaction that is       *)
(* refused, or cut off by the database in any phase, leaves no account changed in the     *)
(* journal: catch_error discards what the phases before did.  A call that fails leaves    *)
(* the database as it was, and of a batch nothing is left in the journal either; one      *)
(* that commits has added all its transactions, and those executed before and kept.       *)
AllOrNothing ==
    /\ pc = "return" /\ call.error # "none" => last.after = last.before /\ view = base
    /\ pc = "idle" /\ call # NoCall =>
        /\ call.error # "none" => db = call.start.db
        /\ call.error # "none" /\ call.op \in Many => view = db /\ base = db
        /\ call.error = "none" /\ call.op \in Commits =>
              view = db /\ Nonces(db) = Nonces(call.start.base) + call.done

(* Filling in agrees with building: what build accepts, build_fill builds to the same       *)
(* transaction (of an Optimism transaction all but the bytes it came in); and a type that   *)
(* is asked for is filled in completely, so that build accepts it and changes nothing.     *)
BuildersAgree ==
    /\ build(draft.base).ok => build_fill(draft.base) = build(draft.base).tx
    /\ op_build(draft).ok =>
          [op_build_fill(draft) EXCEPT !.envelope = "none"] = [op_build(draft).tx EXCEPT !.envelope = "none"]
    /\ draft.base.type # None =>
          LET filled == build_fill(draft.base) IN build(modify(filled)) = Built(filled)

(* The expect of calculate_caller_fee is safe: for a transaction that validation and the     *)
(* balance check accept, what it will spend does not overflow and is at most what was        *)
(* checked, so nothing is left unpaid when the fee is taken off the balance.                *)
SpendingFits ==
    LET t == build(draft.base).tx
        spends == effective_balance_spending(t, block.basefee, Or(block.blob_price, 0))
    IN  build(draft.base).ok /\ validate_env(t, env.cfg, block) = "none"
            /\ ensure_enough_balance(t, MaxU256) = "none" =>
                spends \in t.value..max_balance_spending(t)

Ledger == INSTANCE TxLedger WITH durable <- db.acc, executed <- base.acc

(* The API is a ledger of whole transactions: between calls and inside them, the journal at  *)
(* the last finished transaction changes by whole transactions with one nonce each, and       *)
(* the database only ever takes all of them.                                               *)
ImplementsLedger == Ledger!Spec

(* The documentation of transact_one: a transaction that fails leaves nothing in the journal,  *)
(* the warm accounts of the failed transaction included.                                    *)
FailedLeavesNothing ==
    pc = "return" /\ call.error # "none" => view = last.before /\ warm = {}
==============================================================================
