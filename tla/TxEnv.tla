-------------------------------- MODULE TxEnv --------------------------------
(***************************************************************************)
(* The environment of a transaction: TxEnv and its builder, the Optimism      *)
(* transaction around it, the configuration, and the checks that the handler  *)
(* makes before it loads any state.  Options are None or a number; the data    *)
(* of a transaction is its count of zero and of other bytes; the versioned     *)
(* hash of a blob is whether its version is the supported one.                *)
(***************************************************************************)
EXTENDS EvmGas

CONSTANTS MaxU128, MaxU256     \* the largest values of the two widths

ASSUME WidthAssumption == MaxU128 \in Nat /\ MaxU256 \in Nat

None == -1
Option == Nat \cup {None}
Or(option, default) == IF option = None THEN default ELSE option

Legacy == 0
Eip2930 == 1
Eip1559 == 2
Eip4844 == 3
Eip7702 == 4
DEPOSIT_TRANSACTION_TYPE == 126
Custom == 255
TransactionType(n) == IF n \in Legacy..Eip7702 THEN n ELSE Custom

(* eip7825 *)
TX_GAS_LIMIT_CAP == 16777216

(* TxEnvBuilder::new *)
NewBuilder ==
    [type |-> None, caller |-> "zero", gas_limit |-> TX_GAS_LIMIT_CAP, gas_price |-> 0, kind |-> "call",
     to |-> "zero", value |-> 0, zeros |-> 0, others |-> 0, nonce |-> 0, chain_id |-> 1, access |-> 0,
     priority |-> None, blobs |-> <<>>, max_blob_fee |-> 0, auths |-> 0]

(* the setters of TxEnvBuilder; fields is what they set *)
Set(b, fields) == [f \in DOMAIN b |-> IF f \in DOMAIN fields THEN fields[f] ELSE b[f]]

CallsZero(t) == [t EXCEPT !.kind = "call", !.to = "zero"]

Built(t) == [ok |-> TRUE, tx |-> t, error |-> "none"]
BuildError(t, e) == [ok |-> FALSE, tx |-> t, error |-> e]

derive_tx_type(t) ==
    LET priced == IF t.priority # None THEN Eip1559 ELSE IF t.access > 0 THEN Eip2930 ELSE t.type
        tx == [t EXCEPT !.type = priced]
    IN  IF t.blobs # <<>> \/ t.max_blob_fee > 0
        THEN IF t.kind = "call" THEN Built([t EXCEPT !.type = Eip4844])
             ELSE BuildError(tx, "MissingTargetForEip4844")
        ELSE IF t.auths > 0
        THEN IF t.kind = "call" THEN Built([t EXCEPT !.type = Eip7702])
             ELSE BuildError(tx, "MissingTargetForEip7702")
        ELSE Built(tx)

Typed(b) == [b EXCEPT !.type = Or(@, Legacy)]

\* Mutant of fill_fields: a priority fee that was set is lost.
fill_fields_anew(b) ==
    LET ty == TransactionType(b.type)
        blobs == IF ty = Eip4844 /\ b.blobs = <<>> THEN <<FALSE>> ELSE b.blobs
        auths == IF ty = Eip7702 /\ b.auths = 0 THEN 1 ELSE b.auths
        filled == [b EXCEPT !.priority = IF ty \in {Eip1559, Eip4844, Eip7702} THEN 0 ELSE @,
                            !.blobs = blobs, !.auths = auths]
    IN  IF ty \in {Eip4844, Eip7702} /\ b.kind # "call" THEN CallsZero(filled) ELSE filled

\* Mutant of fill_fields: the priority fee of a blob transaction is not filled in.
fill_fields_unpriced(b) ==
    LET ty == TransactionType(b.type)
        blobs == IF ty = Eip4844 /\ b.blobs = <<>> THEN <<FALSE>> ELSE b.blobs
        auths == IF ty = Eip7702 /\ b.auths = 0 THEN 1 ELSE b.auths
        filled == [b EXCEPT !.priority = IF ty = Eip1559 THEN Or(@, 0) ELSE @,
                            !.blobs = blobs, !.auths = auths]
    IN  IF ty \in {Eip4844, Eip7702} /\ b.kind # "call" THEN CallsZero(filled) ELSE filled

(* the fields that build_fill supplies for a type that is set *)
fill_fields(b) ==
    LET ty == TransactionType(b.type)
        blobs == IF ty = Eip4844 /\ b.blobs = <<>> THEN <<FALSE>> ELSE b.blobs
        auths == IF ty = Eip7702 /\ b.auths = 0 THEN 1 ELSE b.auths
        filled == [b EXCEPT !.priority = IF ty \in {Eip1559, Eip4844, Eip7702} THEN Or(@, 0) ELSE @,
                            !.blobs = blobs, !.auths = auths]
    IN  IF ty \in {Eip4844, Eip7702} /\ b.kind # "call" THEN CallsZero(filled) ELSE filled

build_fill(b) ==
    IF b.type # None THEN fill_fields(b)
    ELSE LET derived == derive_tx_type(Typed(b))
         IN  IF derived.ok THEN derived.tx ELSE CallsZero(derived.tx)

(* what build requires of a type that is set *)
build_error(b) ==
    LET ty == TransactionType(b.type)
    IN  IF ty \in {Eip1559, Eip4844, Eip7702} /\ b.priority = None THEN "MissingGasPriorityFeeForEip1559"
        ELSE IF ty = Eip4844 /\ b.blobs = <<>> THEN "MissingBlobHashesForEip4844"
        ELSE IF ty = Eip7702 /\ b.auths = 0 THEN "MissingAuthorizationListForEip7702"
        ELSE IF ty = Eip4844 /\ b.kind # "call" THEN "MissingTargetForEip4844"
        ELSE IF ty = Eip7702 /\ b.kind # "call" THEN "MissingTargetForEip7702"
        ELSE "none"

build(b) ==
    IF b.type = None THEN derive_tx_type(Typed(b))
    ELSE IF build_error(b) # "none" THEN BuildError(b, build_error(b)) ELSE Built(b)

(* TxEnv::modify: the builder of a transaction has its type set *)
modify(t) == Set(NewBuilder, t)

SYSTEM_GAS_LIMIT == 30000000

(* SystemCallTx::new_system_tx_with_caller *)
new_system_tx(caller, contract) ==
    build([NewBuilder EXCEPT !.caller = caller, !.to = contract, !.gas_limit = SYSTEM_GAS_LIMIT]).tx

--------------------------------------------------------------------------------
(* OpTransaction: the base transaction, the bytes it came in (envelope: "none", *)
(* "empty", "deposit" when they start with 0x7E, or "bytes") and the parts of a  *)
(* deposit (source_hash 0 when it is none).                                    *)
NewOpBuilder ==
    [base |-> NewBuilder, envelope |-> "none", source_hash |-> 0, mint |-> None, system |-> FALSE]

op_tx_type(t) == IF t.source_hash # 0 THEN DEPOSIT_TRANSACTION_TYPE ELSE t.base.type
is_deposit(t) == op_tx_type(t) = DEPOSIT_TRANSACTION_TYPE

AsDeposit(b) == [b EXCEPT !.base.type = DEPOSIT_TRANSACTION_TYPE]

op_build_fill(b) ==
    LET ty == b.base.type
        filled == IF ty = DEPOSIT_TRANSACTION_TYPE
                  THEN [b EXCEPT !.source_hash = IF @ = 0 THEN 1 ELSE @, !.envelope = "none"]
                  ELSE IF ty # None THEN [b EXCEPT !.envelope = "bytes"]
                  ELSE IF b.source_hash # 0 THEN [AsDeposit(b) EXCEPT !.envelope = "none"]
                  ELSE [b EXCEPT !.envelope = IF @ = "none" THEN "bytes" ELSE @]
    IN  [filled EXCEPT !.base = build_fill(@)]

op_build(b) ==
    LET ty == b.base.type
        typed == IF ty = None /\ b.source_hash # 0 THEN AsDeposit(b) ELSE b
        base == build(typed.base)
    IN  IF ty = DEPOSIT_TRANSACTION_TYPE /\ b.source_hash = 0
        THEN BuildError(b, "MissingSourceHashForDeposit")
        ELSE IF typed.base.type # DEPOSIT_TRANSACTION_TYPE /\ b.envelope = "none"
        THEN BuildError(b, "MissingEnvelopedTxBytes")
        ELSE IF ~ base.ok THEN BuildError(b, base.error)
        ELSE Built([typed EXCEPT !.base = base.tx])

--------------------------------------------------------------------------------
(* CfgEnv::new_with_spec *)
NewCfg(spec) ==
    [chain_id |-> 1, tx_chain_id_check |-> TRUE, spec |-> spec, limit_contract_code_size |-> None,
     limit_contract_initcode_size |-> None, disable_nonce_check |-> FALSE, max_blobs_per_tx |-> None,
     tx_gas_limit_cap |-> None, disable_balance_check |-> FALSE, disable_block_gas_limit |-> FALSE,
     disable_eip3607 |-> FALSE, disable_eip7623 |-> FALSE, disable_base_fee |-> FALSE,
     disable_priority_fee_check |-> FALSE, disable_fee_charge |-> FALSE]

CfgType ==
    [chain_id : Nat, tx_chain_id_check : BOOLEAN, spec : Specs, limit_contract_code_size : Option,
     limit_contract_initcode_size : Option, disable_nonce_check : BOOLEAN, max_blobs_per_tx : Option,
     tx_gas_limit_cap : Option, disable_balance_check : BOOLEAN, disable_block_gas_limit : BOOLEAN,
     disable_eip3607 : BOOLEAN, disable_eip7623 : BOOLEAN, disable_base_fee : BOOLEAN,
     disable_priority_fee_check : BOOLEAN, disable_fee_charge : BOOLEAN]

tx_gas_limit_cap(cfg) ==
    Or(cfg.tx_gas_limit_cap, IF Enabled(cfg.spec, "OSAKA") THEN TX_GAS_LIMIT_CAP ELSE MaxU128)

max_initcode_size(cfg) ==
    Or(cfg.limit_contract_initcode_size,
       IF cfg.limit_contract_code_size = None THEN 2 * 24576 ELSE 2 * cfg.limit_contract_code_size)

--------------------------------------------------------------------------------
(* Transaction: what a transaction may and does spend.                          *)
GAS_PER_BLOB == 131072
SatAdd(a, b, max) == IF a > max - b THEN max ELSE a + b
SatMul(a, b, max) == IF b > 0 /\ a > max \div b THEN max ELSE a * b

effective_gas_price(t, base_fee) ==
    IF t.type \in {Legacy, Eip2930, DEPOSIT_TRANSACTION_TYPE} \/ t.priority = None THEN t.gas_price
    ELSE Min({t.gas_price, SatAdd(base_fee, t.priority, MaxU128)})

total_blob_gas(t) == GAS_PER_BLOB * Len(t.blobs)

(* gas * price in u128, plus value, plus the blob fee; None when it overflows *)
spending(t, price, blob_price) ==
    LET data_fee == IF t.type = Eip4844 THEN SatMul(total_blob_gas(t), blob_price, MaxU128) ELSE 0
    IN  IF price > 0 /\ t.gas_limit > MaxU128 \div price THEN None
        ELSE LET gas == t.gas_limit * price
             IN  IF gas > MaxU256 - t.value THEN None
                 ELSE IF gas + t.value > MaxU256 - data_fee THEN None
                 ELSE gas + t.value + data_fee

max_balance_spending(t) == spending(t, t.gas_price, t.max_blob_fee)
effective_balance_spending(t, base_fee, blob_price) ==
    spending(t, effective_gas_price(t, base_fee), blob_price)
gas_balance_spending(t, base_fee, blob_price) ==
    effective_balance_spending(t, base_fee, blob_price) - t.value

ensure_enough_balance(t, balance) ==
    IF max_balance_spending(t) = None THEN "OverflowPaymentInTransaction"
    ELSE IF max_balance_spending(t) > balance THEN "LackOfFundForMaxFee" ELSE "none"

--------------------------------------------------------------------------------
(* validation.rs: the name of the error, or "none"                              *)
validate_legacy_gas_price(price, base_fee) ==
    IF base_fee # None /\ price < base_fee THEN "GasPriceLessThanBasefee" ELSE "none"

validate_priority_fee_tx(t, base_fee, unchecked) ==
    LET priority == Or(t.priority, 0)
    IN  IF ~ unchecked /\ priority > t.gas_price THEN "PriorityFeeGreaterThanMaxFee"
        ELSE IF base_fee # None /\ Min({t.gas_price, SatAdd(base_fee, priority, MaxU128)}) < base_fee
        THEN "GasPriceLessThanBasefee"
        ELSE "none"

\* Mutant of validate_eip4844_tx: the blob price is not looked at.
validate_eip4844_tx_unpriced(t, blob_price, max_blobs) ==
    IF t.blobs = <<>> THEN "EmptyBlobs"
    ELSE IF max_blobs # None /\ Len(t.blobs) > max_blobs THEN "TooManyBlobs" ELSE "none"

validate_eip4844_tx(t, blob_price, max_blobs) ==
    IF blob_price > t.max_blob_fee THEN "BlobGasPriceGreaterThanMax"
    ELSE IF t.blobs = <<>> THEN "EmptyBlobs"
    ELSE IF \E i \in DOMAIN t.blobs : ~ t.blobs[i] THEN "BlobVersionNotSupported"
    ELSE IF max_blobs # None /\ Len(t.blobs) > max_blobs THEN "TooManyBlobs"
    ELSE "none"

(* the checks of validate_tx_env that depend on the type *)
validate_type(t, cfg, block) ==
    LET base_fee == IF cfg.disable_base_fee THEN None ELSE block.basefee
        priority == validate_priority_fee_tx(t, base_fee, cfg.disable_priority_fee_check)
        ty == TransactionType(t.type)
    IN  CASE ty = Legacy -> validate_legacy_gas_price(t.gas_price, base_fee)
          [] ty = Eip2930 -> IF ~ Enabled(cfg.spec, "BERLIN") THEN "Eip2930NotSupported"
                             ELSE validate_legacy_gas_price(t.gas_price, base_fee)
          [] ty = Eip1559 -> IF ~ Enabled(cfg.spec, "LONDON") THEN "Eip1559NotSupported" ELSE priority
          [] ty = Eip4844 -> IF ~ Enabled(cfg.spec, "CANCUN") THEN "Eip4844NotSupported"
                             ELSE IF priority # "none" THEN priority
                             ELSE validate_eip4844_tx(t, Or(block.blob_price, 0), cfg.max_blobs_per_tx)
          [] ty = Eip7702 -> IF ~ Enabled(cfg.spec, "PRAGUE") THEN "Eip7702NotSupported"
                             ELSE IF priority # "none" THEN priority
                             ELSE IF t.auths = 0 THEN "EmptyAuthorizationList" ELSE "none"
          [] OTHER -> "none"

validate_tx_env(t, cfg, block) ==
    IF cfg.tx_chain_id_check /\ t.chain_id # None /\ t.chain_id # cfg.chain_id THEN "InvalidChainId"
    ELSE IF cfg.tx_chain_id_check /\ t.chain_id = None /\ TransactionType(t.type) \notin {Legacy, Custom}
    THEN "MissingChainId"
    ELSE IF t.gas_limit > tx_gas_limit_cap(cfg) THEN "TxGasLimitGreaterThanCap"
    ELSE IF validate_type(t, cfg, block) # "none" THEN validate_type(t, cfg, block)
    ELSE IF ~ cfg.disable_block_gas_limit /\ t.gas_limit > block.gas_limit
    THEN "CallerGasLimitMoreThanBlock"
    ELSE IF Enabled(cfg.spec, "SHANGHAI") /\ t.kind = "create" /\ t.zeros + t.others > max_initcode_size(cfg)
    THEN "CreateInitCodeSizeLimit"
    ELSE "none"

validate_env(t, cfg, block) ==
    IF Enabled(cfg.spec, "MERGE") /\ ~ block.prevrandao THEN "PrevrandaoNotSet"
    ELSE IF Enabled(cfg.spec, "CANCUN") /\ block.blob_price = None THEN "ExcessBlobGasNotSet"
    ELSE validate_tx_env(t, cfg, block)

(* calculate_initial_tx_gas_for_tx: the initial and the floor gas *)
InitialAndFloor(t, cfg) ==
    LET parts == [zeros |-> t.zeros, others |-> t.others, create |-> t.kind = "create",
                  accounts |-> IF t.type = Legacy THEN 0 ELSE t.access, slots |-> 0, auths |-> t.auths]
    IN  [initial |-> initial_gas(cfg.spec, parts),
         floor |-> IF cfg.disable_eip7623 THEN 0 ELSE floor_gas(cfg.spec, parts)]

validate_initial_tx_gas(t, cfg) ==
    LET gas == InitialAndFloor(t, cfg)
    IN  IF gas.initial > t.gas_limit THEN "CallGasCostMoreThanGasLimit"
        ELSE IF Enabled(cfg.spec, "PRAGUE") /\ gas.floor > t.gas_limit THEN "GasFloorMoreThanGasLimit"
        ELSE "none"

(* validate_account_nonce_and_code; code: "none", "eip7702" or "contract" *)
validate_account_nonce_and_code(account, t, cfg) ==
    IF ~ cfg.disable_eip3607 /\ account.code = "contract" THEN "RejectCallerWithCode"
    ELSE IF cfg.disable_nonce_check \/ t.nonce = account.nonce THEN "none"
    ELSE IF t.nonce > account.nonce THEN "NonceTooHigh" ELSE "NonceTooLow"

(* calculate_caller_fee, for a balance that ensure_enough_balance accepts *)
calculate_caller_fee(balance, t, cfg, block) ==
    LET spent == gas_balance_spending(t, block.basefee, Or(block.blob_price, 0))
        left == IF spent > balance THEN 0 ELSE balance - spent
    IN  IF cfg.disable_balance_check THEN Max({left, t.value}) ELSE left

================================================================================
