------------------------------- MODULE L1Block -------------------------------
(***************************************************************************)
(* L1BlockInfo of op-revm: what an L2 transaction pays for its data on L1 and *)
(* to the operator.  The L1 attributes are read from the packed slots of the   *)
(* L1Block contract; the bytes of a transaction are their counts and the       *)
(* length FastLZ compresses them to.  SCALE is the fixed point unit, a million  *)
(* in the code, and a byte of a packed slot is a digit of base ByteBase.        *)
(***************************************************************************)
EXTENDS TxEnv

CONSTANTS SCALE, ByteBase, Envelopes   \* Envelopes: the counts of the bytes of an envelope

ASSUME ScaleAssumption ==
    /\ SCALE \in Nat \ {0} /\ ByteBase \in Nat \ {0}
    /\ Envelopes \in [DOMAIN Envelopes -> [zeros : Nat, others : Nat, flz : Nat]]

OpForks == <<"BEDROCK", "REGOLITH", "CANYON", "ECOTONE", "FJORD", "GRANITE", "HOLOCENE", "ISTHMUS",
             "JOVIAN", "INTEROP", "OSAKA">>
OpFork(name) == CHOOSE i \in DOMAIN OpForks : OpForks[i] = name
OpEnabled(op, name) == op >= OpFork(name)

into_eth_spec(op) ==
    CASE op <= OpFork("REGOLITH") -> Fork("MERGE")
      [] op = OpFork("CANYON") -> Fork("SHANGHAI")
      [] op \in OpFork("ECOTONE")..OpFork("HOLOCENE") -> Fork("CANCUN")
      [] op \in OpFork("ISTHMUS")..OpFork("INTEROP") -> Fork("PRAGUE")
      [] OTHER -> Fork("OSAKA")

-----------------------------------------------------------------------------
(* The storage of the L1Block contract, as the contract packs it.               *)
Digits2(x) == <<(x \div ByteBase) % ByteBase, x % ByteBase>>
Digits4(x) == Digits2(x \div (ByteBase * ByteBase)) \o Digits2(x)
Digits8(x) == Digits4(x \div (ByteBase * ByteBase * ByteBase * ByteBase)) \o Digits4(x)
Zeros(width) == [i \in 1..width |-> 0]
L1BlockStorage(a) ==
    [base_fee |-> a.base_fee, overhead |-> a.overhead, scalar |-> a.scalar, blob_base_fee |-> a.blob_base_fee,
     fee_scalars |-> Zeros(16) \o Digits4(a.base_scalar) \o Digits4(a.blob_scalar) \o Digits8(a.sequence),
     operator |-> Zeros(18) \o Digits2(a.da_scalar) \o Digits4(a.op_scalar) \o Digits8(a.op_constant)]

(* a big endian number of 2, 4 or 8 bytes *)
u16_from_be(slot, offset) == slot[offset + 1] * ByteBase + slot[offset + 2]
u32_from_be(slot, offset) ==
    u16_from_be(slot, offset) * (ByteBase * ByteBase) + u16_from_be(slot, offset + 2)
u64_from_be(slot, offset) ==
    u32_from_be(slot, offset) * (ByteBase * ByteBase * ByteBase * ByteBase) + u32_from_be(slot, offset + 4)

BASE_FEE_SCALAR_OFFSET == 16
BLOB_BASE_FEE_SCALAR_OFFSET == 20
OPERATOR_FEE_SCALAR_OFFSET == 20
OPERATOR_FEE_CONSTANT_OFFSET == 24
DA_FOOTPRINT_GAS_SCALAR_OFFSET == 18

NewL1BlockInfo ==
    [l2_block |-> None, l1_base_fee |-> 0, l1_fee_overhead |-> None, l1_base_fee_scalar |-> 0,
     l1_blob_base_fee |-> None, l1_blob_base_fee_scalar |-> None, operator_fee_scalar |-> None,
     operator_fee_constant |-> None, da_footprint_gas_scalar |-> None,
     empty_ecotone_scalars |-> FALSE, tx_l1_cost |-> None]

try_fetch_jovian(info, s) ==
    [info EXCEPT !.da_footprint_gas_scalar = u16_from_be(s.operator, DA_FOOTPRINT_GAS_SCALAR_OFFSET)]

try_fetch_isthmus(info, s) ==
    [info EXCEPT !.operator_fee_scalar = u32_from_be(s.operator, OPERATOR_FEE_SCALAR_OFFSET),
                 !.operator_fee_constant = u64_from_be(s.operator, OPERATOR_FEE_CONSTANT_OFFSET)]

try_fetch_ecotone(info, s) ==
    LET blob_scalar == u32_from_be(s.fee_scalars, BLOB_BASE_FEE_SCALAR_OFFSET)
        empty == blob_scalar = 0
                 /\ SubSeq(s.fee_scalars, BASE_FEE_SCALAR_OFFSET + 1, BLOB_BASE_FEE_SCALAR_OFFSET + 4) = Zeros(8)
    IN  [info EXCEPT !.l1_blob_base_fee = s.blob_base_fee,
                     !.l1_base_fee_scalar = u32_from_be(s.fee_scalars, BASE_FEE_SCALAR_OFFSET),
                     !.l1_blob_base_fee_scalar = blob_scalar,
                     !.empty_ecotone_scalars = empty,
                     !.l1_fee_overhead = IF empty THEN s.overhead ELSE None]

\* Mutant of try_fetch: the operator fee is read in one fork only.
try_fetch_one_fork(s, l2_block, op) ==
    LET out == [NewL1BlockInfo EXCEPT !.l2_block = l2_block, !.l1_base_fee = s.base_fee]
        ecotone == try_fetch_ecotone(out, s)
    IN  IF ~ OpEnabled(op, "ECOTONE")
        THEN [out EXCEPT !.l1_base_fee_scalar = s.scalar, !.l1_fee_overhead = s.overhead]
        ELSE IF op = OpFork("ISTHMUS") THEN try_fetch_isthmus(ecotone, s) ELSE ecotone

try_fetch(s, l2_block, op) ==
    LET out == [NewL1BlockInfo EXCEPT !.l2_block = l2_block, !.l1_base_fee = s.base_fee]
        ecotone == try_fetch_ecotone(out, s)
        isthmus == IF OpEnabled(op, "ISTHMUS") THEN try_fetch_isthmus(ecotone, s) ELSE ecotone
    IN  IF ~ OpEnabled(op, "ECOTONE")
        THEN [out EXCEPT !.l1_base_fee_scalar = s.scalar, !.l1_fee_overhead = s.overhead]
        ELSE IF OpEnabled(op, "JOVIAN") THEN try_fetch_jovian(isthmus, s) ELSE isthmus

-----------------------------------------------------------------------------
NON_ZERO_BYTE_COST == 16
Free(envelope) == envelope \in {"empty", "deposit"}

(* fixed point, with SCALE in the place of a million *)
L1_COST_FASTLZ_COEF == (8365 * SCALE) \div 10000
L1_COST_INTERCEPT == (425856 * SCALE) \div 10000
MIN_TX_SIZE_SCALED == 100 * SCALE
estimate_tx_compressed_size(envelope) ==
    Max({Envelopes[envelope].flz * L1_COST_FASTLZ_COEF - L1_COST_INTERCEPT, MIN_TX_SIZE_SCALED})

data_gas(envelope, op) ==
    IF OpEnabled(op, "FJORD")
    THEN (estimate_tx_compressed_size(envelope) * NON_ZERO_BYTE_COST) \div SCALE
    ELSE (get_tokens_in_calldata(Envelopes[envelope].zeros, Envelopes[envelope].others, TRUE)
             + (IF OpEnabled(op, "REGOLITH") THEN 0 ELSE 68 * 4)) * STANDARD_TOKEN_COST

calculate_tx_l1_cost_bedrock(info, envelope, op) ==
    SatMul(SatMul(data_gas(envelope, op) + Or(info.l1_fee_overhead, 0), info.l1_base_fee, MaxU256),
           info.l1_base_fee_scalar, MaxU256) \div SCALE

calculate_l1_fee_scaled_ecotone(info) ==
    info.l1_base_fee * NON_ZERO_BYTE_COST * info.l1_base_fee_scalar
        + Or(info.l1_blob_base_fee, 0) * Or(info.l1_blob_base_fee_scalar, 0)

calculate_tx_l1_cost_ecotone(info, envelope, op) ==
    IF info.empty_ecotone_scalars THEN calculate_tx_l1_cost_bedrock(info, envelope, op)
    ELSE SatMul(calculate_l1_fee_scaled_ecotone(info), data_gas(envelope, op), MaxU256)
             \div (SCALE * NON_ZERO_BYTE_COST)

calculate_tx_l1_cost_fjord(info, envelope) ==
    SatMul(estimate_tx_compressed_size(envelope), calculate_l1_fee_scaled_ecotone(info), MaxU256)
        \div (SCALE * SCALE)

(* the cost computed anew *)
l1_cost(info, envelope, op) ==
    IF Free(envelope) THEN 0
    ELSE IF OpEnabled(op, "FJORD") THEN calculate_tx_l1_cost_fjord(info, envelope)
    ELSE IF OpEnabled(op, "ECOTONE") THEN calculate_tx_l1_cost_ecotone(info, envelope, op)
    ELSE calculate_tx_l1_cost_bedrock(info, envelope, op)

(* calculate_tx_l1_cost: the cost, and the info that remembers it *)
calculate_tx_l1_cost(info, envelope, op) == Or(info.tx_l1_cost, l1_cost(info, envelope, op))
WithL1Cost(info, envelope, op) ==
    IF Free(envelope) THEN info ELSE [info EXCEPT !.tx_l1_cost = calculate_tx_l1_cost(info, envelope, op)]

\* Mutant of clear_tx_l1_cost: the cost of the last transaction stays cached.
clear_tx_l1_cost_never(info) == info

clear_tx_l1_cost(info) == [info EXCEPT !.tx_l1_cost = None]

operator_fee_charge_inner(info, gas, op) ==
    (IF OpEnabled(op, "JOVIAN") THEN SatMul(SatMul(gas, info.operator_fee_scalar, MaxU256), 100, MaxU256)
     ELSE SatMul(gas, info.operator_fee_scalar, MaxU256) \div SCALE)
        + info.operator_fee_constant

operator_fee_charge(info, envelope, gas, op) ==
    IF Free(envelope) THEN 0 ELSE operator_fee_charge_inner(info, gas, op)

(* g: [limit, remaining, refunded], the gas of the transaction *)
\* Mutant of operator_fee_refund: the refunded gas is not counted as unused.
operator_fee_refund_spent(info, g, op) ==
    IF ~ OpEnabled(op, "ISTHMUS") THEN 0
    ELSE operator_fee_charge_inner(info, g.limit, op)
             - operator_fee_charge_inner(info, g.limit - g.remaining, op)

operator_fee_refund(info, g, op) ==
    IF ~ OpEnabled(op, "ISTHMUS") THEN 0
    ELSE operator_fee_charge_inner(info, g.limit, op)
             - operator_fee_charge_inner(info, g.limit - (g.remaining + g.refunded), op)

tx_cost(info, envelope, gas_limit, op) ==
    calculate_tx_l1_cost(info, envelope, op)
        + (IF OpEnabled(op, "ISTHMUS") THEN operator_fee_charge(info, envelope, gas_limit, op) ELSE 0)

==============================================================================
