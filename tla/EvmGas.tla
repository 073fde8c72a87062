-------------------------------- MODULE EvmGas --------------------------------
(***************************************************************************)
(* What instructions and transactions cost: gas/calc.rs with the constants  *)
(* of gas/constants.rs.  A hard fork is its position in Forks.              *)
(***************************************************************************)
EXTENDS Integers, Sequences, FiniteSetsExt

Forks == <<"FRONTIER", "FRONTIER_THAWING", "HOMESTEAD", "DAO_FORK", "TANGERINE", "SPURIOUS_DRAGON",
           "BYZANTIUM", "CONSTANTINOPLE", "PETERSBURG", "ISTANBUL", "MUIR_GLACIER", "BERLIN",
           "LONDON", "ARROW_GLACIER", "GRAY_GLACIER", "MERGE", "SHANGHAI", "CANCUN", "PRAGUE",
           "OSAKA", "AMSTERDAM">>

Specs == DOMAIN Forks
Fork(name) == CHOOSE i \in Specs : Forks[i] = name
Enabled(spec, name) == spec >= Fork(name)

VERYLOW == 3
EXP == 10
LOG == 375
LOGDATA == 8
LOGTOPIC == 375
KECCAK256 == 30
KECCAK256WORD == 6
COPY == 3
CREATE == 32000
CALLVALUE == 9000
NEWACCOUNT == 25000
SSTORE_SET == 20000
SSTORE_RESET == 5000
REFUND_SSTORE_CLEARS == 15000
ISTANBUL_SLOAD_GAS == 800
WARM_STORAGE_READ_COST == 100
COLD_SLOAD_COST == 2100
COLD_ACCOUNT_ACCESS_COST == 2600
WARM_SSTORE_RESET == SSTORE_RESET - COLD_SLOAD_COST
ACCESS_LIST_ADDRESS == 2400
ACCESS_LIST_STORAGE_KEY == 1900
STANDARD_TOKEN_COST == 4
TOTAL_COST_FLOOR_PER_TOKEN == 10
INITCODE_WORD_COST == 2
PER_EMPTY_ACCOUNT_COST == 25000

num_words(len) == (len + 31) \div 32
cost_per_word(len, multiple) == multiple * num_words(len)
copy_cost(base, len) == base + cost_per_word(len, COPY)
keccak256_cost(len) == KECCAK256 + cost_per_word(len, KECCAK256WORD)
create2_cost(len) == CREATE + cost_per_word(len, KECCAK256WORD)
log_cost(n, len) == LOG + LOGDATA * len + LOGTOPIC * n
initcode_cost(len) == cost_per_word(len, INITCODE_WORD_COST)

warm_cold_cost(cold) == IF cold THEN COLD_ACCOUNT_ACCESS_COST ELSE WARM_STORAGE_READ_COST

extcodecopy_cost(spec, len, cold) ==
    copy_cost(CASE Enabled(spec, "BERLIN") -> warm_cold_cost(cold)
                [] Enabled(spec, "TANGERINE") /\ ~Enabled(spec, "BERLIN") -> 700
                [] OTHER -> 20, len)

(* log2floor over limbs of LimbBits bits, the most significant limb first:    *)
(* a zero limb takes all its bits off, the first other one its leading zeros. *)
LimbBits == 6
NumLimbs == 4
Limb(x, i) == (x \div 2 ^ (LimbBits * i)) % 2 ^ LimbBits
LeadingZeros(limb) == CHOOSE z \in 0..(LimbBits - 1) :
    2 ^ (LimbBits - 1 - z) <= limb /\ limb < 2 ^ (LimbBits - z)

log2floor(x) ==
    LET used == {i \in 0..(NumLimbs - 1) : Limb(x, i) # 0}
        l == LimbBits * (Max(used) + 1) - LeadingZeros(Limb(x, Max(used)))
    IN IF used = {} THEN 0 ELSE l - 1

(* mutant: a power of 256 is charged as if it had one byte less *)
exp_cost_short(spec, power) ==
    IF power = 0 THEN EXP
    ELSE EXP + (IF Enabled(spec, "SPURIOUS_DRAGON") THEN 50 ELSE 10) * ((log2floor(power) - 1) \div 8 + 1)

exp_cost(spec, power) ==
    IF power = 0 THEN EXP
    ELSE EXP + (IF Enabled(spec, "SPURIOUS_DRAGON") THEN 50 ELSE 10) * (log2floor(power) \div 8 + 1)

sload_cost(spec, cold) ==
    CASE Enabled(spec, "BERLIN") -> IF cold THEN COLD_SLOAD_COST ELSE WARM_STORAGE_READ_COST
      [] Enabled(spec, "ISTANBUL") /\ ~Enabled(spec, "BERLIN") -> ISTANBUL_SLOAD_GAS
      [] Enabled(spec, "TANGERINE") /\ ~Enabled(spec, "ISTANBUL") -> 200
      [] OTHER -> 50

sstore_cost_static(spec) ==
    IF Enabled(spec, "BERLIN") THEN WARM_STORAGE_READ_COST
    ELSE IF Enabled(spec, "ISTANBUL") THEN ISTANBUL_SLOAD_GAS ELSE SSTORE_RESET

(* a write: the slot's value before the transaction, now and after the write *)
istanbul_sstore_cost(v, sload, reset) ==
    CASE v.new = v.present -> sload
      [] v.new # v.present /\ v.original = v.present -> IF v.original = 0 THEN SSTORE_SET ELSE reset
      [] OTHER -> sload

frontier_sstore_cost(v) == IF v.present = 0 /\ v.new # 0 THEN SSTORE_SET ELSE SSTORE_RESET

sstore_cost(spec, v, cold) ==
    CASE Enabled(spec, "BERLIN") ->
            istanbul_sstore_cost(v, WARM_STORAGE_READ_COST, WARM_SSTORE_RESET)
                + (IF cold THEN COLD_SLOAD_COST ELSE 0)
      [] Enabled(spec, "ISTANBUL") /\ ~Enabled(spec, "BERLIN") ->
            istanbul_sstore_cost(v, ISTANBUL_SLOAD_GAS, SSTORE_RESET)
      [] OTHER -> frontier_sstore_cost(v)

(* mutant: a cleared slot that is written again takes a whole set back *)
sstore_refund_set(spec, v) ==
    IF v.new = v.present THEN 0
    ELSE IF v.new = 0 THEN 4800 ELSE IF v.present = 0 /\ v.original # 0 THEN -SSTORE_SET ELSE 0

(* mutant: a fresh slot that is emptied again gets the cost of a reset back *)
sstore_refund_reset(spec, v) ==
    LET sload == sload_cost(spec, FALSE)
        reset == IF Enabled(spec, "BERLIN") THEN SSTORE_RESET - COLD_SLOAD_COST ELSE SSTORE_RESET
        clears == IF Enabled(spec, "LONDON")
                  THEN SSTORE_RESET - COLD_SLOAD_COST + ACCESS_LIST_STORAGE_KEY ELSE REFUND_SSTORE_CLEARS
    IN CASE ~Enabled(spec, "ISTANBUL") -> IF v.present # 0 /\ v.new = 0 THEN REFUND_SSTORE_CLEARS ELSE 0
         [] Enabled(spec, "ISTANBUL") /\ v.new = v.present -> 0
         [] Enabled(spec, "ISTANBUL") /\ v.new # v.present /\ v.original = v.present /\ v.new = 0 -> clears
         [] OTHER -> (IF v.original = v.new THEN reset - sload ELSE 0)
                     + (IF v.original = 0 THEN 0
                        ELSE IF v.present = 0 THEN -clears ELSE IF v.new = 0 THEN clears ELSE 0)

sstore_refund(spec, v) ==
    LET sload == IF Enabled(spec, "BERLIN") THEN WARM_STORAGE_READ_COST ELSE sload_cost(spec, FALSE)
        reset == IF Enabled(spec, "BERLIN") THEN SSTORE_RESET - COLD_SLOAD_COST ELSE SSTORE_RESET
        clears == IF Enabled(spec, "LONDON")
                  THEN SSTORE_RESET - COLD_SLOAD_COST + ACCESS_LIST_STORAGE_KEY ELSE REFUND_SSTORE_CLEARS
    IN CASE ~Enabled(spec, "ISTANBUL") -> IF v.present # 0 /\ v.new = 0 THEN REFUND_SSTORE_CLEARS ELSE 0
         [] Enabled(spec, "ISTANBUL") /\ v.new = v.present -> 0
         [] Enabled(spec, "ISTANBUL") /\ v.new # v.present /\ v.original = v.present /\ v.new = 0 -> clears
         [] OTHER -> (IF v.original = v.new THEN (IF v.original = 0 THEN SSTORE_SET ELSE reset) - sload ELSE 0)
                     + (IF v.original = 0 THEN 0
                        ELSE IF v.present = 0 THEN -clears ELSE IF v.new = 0 THEN clears ELSE 0)

calc_call_static_gas(spec, transfer) ==
    (CASE Enabled(spec, "BERLIN") -> WARM_STORAGE_READ_COST
       [] Enabled(spec, "TANGERINE") /\ ~Enabled(spec, "BERLIN") -> 700
       [] OTHER -> 40)
    + (IF transfer THEN CALLVALUE ELSE 0)

new_account_cost(spec, transfer) ==
    IF ~Enabled(spec, "SPURIOUS_DRAGON") \/ transfer THEN NEWACCOUNT ELSE 0

(* load_account_delegated: what a call to an account costs besides the static *)
(* part, or 0 gas left when even a cold load cannot be paid                   *)
load_account_cost(spec, create, transfer, acc) ==
    LET additional == COLD_ACCOUNT_ACCESS_COST - WARM_STORAGE_READ_COST IN
    (IF Enabled(spec, "BERLIN") /\ acc.cold THEN additional ELSE 0)
        + (IF create /\ acc.empty THEN new_account_cost(spec, transfer)
           ELSE IF acc.delegated THEN WARM_STORAGE_READ_COST + (IF acc.delegateCold THEN additional ELSE 0)
           ELSE 0)

(* calculate_initial_tx_gas: zero and other bytes of the input *)
get_tokens_in_calldata(zeros, others, istanbul) == zeros + others * (IF istanbul THEN 4 ELSE 17)
calc_tx_floor_cost(tokens) == tokens * TOTAL_COST_FLOOR_PER_TOKEN + 21000

initial_gas(spec, t) ==
    get_tokens_in_calldata(t.zeros, t.others, Enabled(spec, "ISTANBUL")) * STANDARD_TOKEN_COST
        + t.accounts * ACCESS_LIST_ADDRESS + t.slots * ACCESS_LIST_STORAGE_KEY
        + (IF t.create /\ Enabled(spec, "HOMESTEAD") THEN 53000 ELSE 21000)
        + (IF t.create /\ Enabled(spec, "SHANGHAI") THEN initcode_cost(t.zeros + t.others) ELSE 0)
        + (IF Enabled(spec, "PRAGUE") THEN t.auths * PER_EMPTY_ACCOUNT_COST ELSE 0)

floor_gas(spec, t) ==
    IF Enabled(spec, "PRAGUE") THEN calc_tx_floor_cost(get_tokens_in_calldata(t.zeros, t.others, TRUE)) ELSE 0

--------------------------------------------------------------------------------
(* a slot that is written again and again in one transaction *)
SlotStart(spec, original) ==
    [spec |-> spec, original |-> original, present |-> original, writes |-> 0,
     paid |-> 0, refund |-> 0]

SlotWrite(s, new) ==
    LET v == [original |-> s.original, present |-> s.present, new |-> new] IN
    [s EXCEPT !.present = new, !.writes = @ + 1,
              !.paid = @ + sstore_cost(s.spec, v, FALSE),
              !.refund = @ + sstore_refund(s.spec, v)]

(* The refunds of one slot are never negative in sum, so the i64 counter      *)
(* that set_final_refund casts to u64 is not, and dyn_sstore_cost never       *)
(* subtracts more than the cost.                                              *)
SlotRefundNonNegative(s) ==
    /\ s.refund >= 0
    /\ \A new \in 0..2, cold \in BOOLEAN :
          sstore_cost(s.spec, [original |-> s.original, present |-> s.present, new |-> new], cold)
              >= sstore_cost_static(s.spec)

(* Net metering since Istanbul: a slot that has its first value again has     *)
(* cost, after refunds, what as many reads cost, whatever was written in      *)
(* between.                                                                   *)
SlotRestoredCostsReads(s) ==
    Enabled(s.spec, "ISTANBUL") /\ s.present = s.original =>
        s.paid - s.refund = s.writes * sload_cost(s.spec, FALSE)

(* EXP costs by the bytes of its exponent. *)
ExpCostByBytes(spec, power) ==
    LET bytes == IF power = 0 THEN 0 ELSE CHOOSE n \in 1..3 : 256 ^ (n - 1) <= power /\ power < 256 ^ n
    IN exp_cost(spec, power) = EXP + bytes * (IF Enabled(spec, "SPURIOUS_DRAGON") THEN 50 ELSE 10)

==============================================================================
