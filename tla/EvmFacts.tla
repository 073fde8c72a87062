------------------------------ MODULE EvmFacts ------------------------------
(***************************************************************************)
(* The facts that the proofs about Evm rest on, for all values of its      *)
(* constants: saturating arithmetic and fees, the L1 attributes as the     *)
(* storage holds them, gas, the builders of transactions, and where a call *)
(* is after each step.                                                     *)
(***************************************************************************)
EXTENDS Evm, TLAPS

(* The provers a leaf that names none is given to, in turn. *)
USE SMTT(20), ZenonT(20), Z3T(20)

-----------------------------------------------------------------------------
(* What a transaction spends, for every price, limit and value: what validation  *)
(* and the balance check accept is at most what they checked.                   *)

(* Multiplication keeps the order. *)
LEMMA TimesKeepsOrder ==
    ASSUME NEW a \in Nat, NEW b \in Nat, NEW c \in Nat, a <= b
    PROVE  c * a \in Nat /\ c * b \in Nat /\ c * a <= c * b
<1>1. PICK d \in Nat : b = a + d
  <2>1. b - a \in Nat /\ b = a + (b - a)
    OBVIOUS
  <2> QED
    BY <2>1
<1>2. c * d \in Nat /\ c * a \in Nat
  OBVIOUS
<1>3. c * b = c * a + c * d
  BY <1>1
<1> QED
  BY <1>2, <1>3

(* The overflow test of checked_mul by a division. *)
LEMMA DivisionTestsProduct ==
    ASSUME NEW m \in Nat, NEW p \in Nat, p > 0, NEW g \in Nat
    PROVE  g > m \div p <=> g * p > m
<1> DEFINE q == m \div p
           r == m % p
<1>1. q \in Nat /\ r \in Nat /\ r < p /\ m = p * q + r
  OBVIOUS
<1> HIDE DEF q, r
<1>2. ASSUME g > q PROVE g * p > m
  <2>1. p * (q + 1) <= p * g
    BY <1>1, <1>2, TimesKeepsOrder
  <2>2. p * (q + 1) = p * q + p /\ p * g = g * p
    BY <1>1
  <2> QED
    BY <1>1, <2>1, <2>2
<1>3. ASSUME g <= q PROVE g * p <= m
  <2>1. p * g <= p * q
    BY <1>1, <1>3, TimesKeepsOrder
  <2>2. p * g = g * p /\ p * q \in Nat /\ g * p \in Nat
    BY <1>1
  <2> QED
    BY <1>1, <2>1, <2>2
<1>4. g * p \in Nat
  OBVIOUS
<1> QED
  BY <1>1, <1>2, <1>3, <1>4 DEF q

(* saturating_mul grows with its second argument. *)
LEMMA SatMulKeepsOrder ==
    ASSUME NEW a \in Nat, NEW b \in Nat, NEW c \in Nat, b <= c, NEW max \in Nat
    PROVE  SatMul(a, b, max) \in Nat /\ SatMul(a, c, max) \in Nat
           /\ SatMul(a, b, max) <= SatMul(a, c, max)
<1>1. a * b \in Nat /\ a * c \in Nat /\ a * b <= a * c
  BY TimesKeepsOrder
<1>2. b > 0 => (a > max \div b <=> a * b > max)
  BY DivisionTestsProduct
<1>3. c > 0 => (a > max \div c <=> a * c > max)
  BY DivisionTestsProduct
<1>4. (b = 0 => a * b = 0) /\ (c = 0 => a * c = 0)
  OBVIOUS
<1>5. SatMul(a, b, max) = IF a * b > max THEN max ELSE a * b
  BY <1>1, <1>2, <1>4 DEF SatMul
<1>6. SatMul(a, c, max) = IF a * c > max THEN max ELSE a * c
  BY <1>1, <1>3, <1>4 DEF SatMul
<1> QED
  BY <1>1, <1>5, <1>6

(* The fields and the widths that what follows is about. *)
Numbers(t, base_fee, blob_price) ==
    /\ MaxU128 \in Nat /\ MaxU256 \in Nat
    /\ t.gas_limit \in Nat /\ t.gas_price \in Nat /\ t.value \in Nat /\ t.max_blob_fee \in Nat
    /\ t.priority \in Nat \cup {None} /\ Len(t.blobs) \in Nat
    /\ base_fee \in Nat /\ blob_price \in Nat

(* Spending grows with both prices, and does not overflow below prices at which it does not. *)
LEMMA SpendingKeepsOrder ==
    ASSUME NEW t, NEW price \in Nat, NEW blob_price \in Nat, Numbers(t, 0, blob_price),
           price <= t.gas_price, t.type = Eip4844 => blob_price <= t.max_blob_fee,
           max_balance_spending(t) # None
    PROVE  /\ max_balance_spending(t) \in Nat
           /\ max_balance_spending(t) <= MaxU256
           /\ spending(t, price, blob_price) \in t.value..max_balance_spending(t)
<1> DEFINE fee == IF t.type = Eip4844 THEN SatMul(total_blob_gas(t), blob_price, MaxU128) ELSE 0
           maxFee == IF t.type = Eip4844 THEN SatMul(total_blob_gas(t), t.max_blob_fee, MaxU128) ELSE 0
           gas == t.gas_limit * price
           maxGas == t.gas_limit * t.gas_price
<1>1. /\ MaxU128 \in Nat /\ MaxU256 \in Nat
      /\ t.gas_limit \in Nat /\ t.gas_price \in Nat /\ t.value \in Nat /\ t.max_blob_fee \in Nat
      /\ total_blob_gas(t) \in Nat
  BY DEF Numbers, total_blob_gas, GAS_PER_BLOB
<1>2. fee \in Nat /\ maxFee \in Nat /\ fee <= maxFee
  <2>1. CASE t.type = Eip4844
    <3>1. blob_price <= t.max_blob_fee
      BY <2>1
    <3> QED
      BY Zenon, <1>1, <2>1, <3>1, SatMulKeepsOrder
  <2>2. CASE t.type # Eip4844
    BY <2>2
  <2> QED
    BY <2>1, <2>2
<1>3. gas \in Nat /\ maxGas \in Nat /\ gas <= maxGas
  BY <1>1, TimesKeepsOrder
<1>4. /\ (price > 0 /\ t.gas_limit > MaxU128 \div price) <=> gas > MaxU128
      /\ (t.gas_price > 0 /\ t.gas_limit > MaxU128 \div t.gas_price) <=> maxGas > MaxU128
  <2>1. price > 0 => (t.gas_limit > MaxU128 \div price <=> gas > MaxU128)
    BY <1>1, DivisionTestsProduct
  <2>2. t.gas_price > 0 => (t.gas_limit > MaxU128 \div t.gas_price <=> maxGas > MaxU128)
    BY <1>1, DivisionTestsProduct
  <2>3. (price = 0 => gas = 0) /\ (t.gas_price = 0 => maxGas = 0)
    BY <1>1
  <2> HIDE DEF gas, maxGas
  <2> QED
    BY <1>1, <1>3, <2>1, <2>2, <2>3
<1>5. max_balance_spending(t) = IF maxGas > MaxU128 THEN None
                                ELSE IF maxGas > MaxU256 - t.value THEN None
                                ELSE IF maxGas + t.value > MaxU256 - maxFee THEN None
                                ELSE maxGas + t.value + maxFee
  BY <1>4 DEF max_balance_spending, spending
<1>6. spending(t, price, blob_price) = IF gas > MaxU128 THEN None
                                       ELSE IF gas > MaxU256 - t.value THEN None
                                       ELSE IF gas + t.value > MaxU256 - fee THEN None
                                       ELSE gas + t.value + fee
  BY <1>4 DEF spending
<1> HIDE DEF fee, maxFee, gas, maxGas
<1> QED
  BY <1>1, <1>2, <1>3, <1>5, <1>6

(* The effective gas price is a number and at most the gas price. *)
LEMMA EffectivePriceIsLess ==
    ASSUME NEW t, NEW base_fee, Numbers(t, base_fee, 0)
    PROVE  effective_gas_price(t, base_fee) \in Nat /\ effective_gas_price(t, base_fee) <= t.gas_price
<1>1. t.gas_price \in Nat /\ base_fee \in Nat /\ MaxU128 \in Nat
  BY DEF Numbers
<1>2. CASE t.type \in {Legacy, Eip2930, DEPOSIT_TRANSACTION_TYPE} \/ t.priority = None
  BY <1>1, <1>2 DEF effective_gas_price
<1>3. CASE ~ (t.type \in {Legacy, Eip2930, DEPOSIT_TRANSACTION_TYPE} \/ t.priority = None)
  <2> DEFINE b == SatAdd(base_fee, t.priority, MaxU128)
             S == {t.gas_price, b}
  <2>1. t.priority \in Nat
    BY <1>3 DEF Numbers
  <2>2. b \in Nat
    BY <1>1, <2>1 DEF SatAdd
  <2>3. effective_gas_price(t, base_fee) = CHOOSE x \in S : \A y \in S : x <= y
    BY <1>3 DEF effective_gas_price, Min
  <2> HIDE DEF b
  <2>4. \E x \in S : \A y \in S : x <= y
    BY <1>1, <2>2
  <2> QED
    BY <1>1, <2>2, <2>3, <2>4
<1> QED
  BY <1>2, <1>3

(* The blob price of a blob transaction that validation accepts is at most its limit. *)
LEMMA AcceptedBlobPrice ==
    ASSUME NEW t, NEW cfg, NEW blk, validate_env(t, cfg, blk) = "none", t.type = Eip4844,
           t.max_blob_fee \in Nat, Or(blk.blob_price, 0) \in Nat
    PROVE  Or(blk.blob_price, 0) <= t.max_blob_fee
<1>1. validate_tx_env(t, cfg, blk) = "none"
  BY DEF validate_env
<1>2. validate_type(t, cfg, blk) = "none"
  BY <1>1 DEF validate_tx_env
<1>3. TransactionType(t.type) = Eip4844
  BY DEF TransactionType, Legacy, Eip4844, Eip7702
<1>4. validate_eip4844_tx(t, Or(blk.blob_price, 0), cfg.max_blobs_per_tx) = "none"
  BY <1>2, <1>3 DEF validate_type, Legacy, Eip2930, Eip1559, Eip4844, Eip7702
<1> QED
  BY <1>4 DEF validate_eip4844_tx

(* What a transaction that validation and the balance check accept will spend does not      *)
(* overflow, is at least its value and at most what was checked: the expect of              *)
(* effective_balance_spending in calculate_caller_fee is safe.                             *)
THEOREM AcceptedSpendingFits ==
    ASSUME NEW t, NEW cfg, NEW blk, Numbers(t, blk.basefee, Or(blk.blob_price, 0)),
           validate_env(t, cfg, blk) = "none", ensure_enough_balance(t, MaxU256) = "none"
    PROVE  effective_balance_spending(t, blk.basefee, Or(blk.blob_price, 0))
               \in t.value..max_balance_spending(t)
<1> DEFINE blob_price == Or(blk.blob_price, 0)
           price == effective_gas_price(t, blk.basefee)
<1>1. max_balance_spending(t) # None
  BY DEF ensure_enough_balance
<1>2. price \in Nat /\ price <= t.gas_price
  <2>1. Numbers(t, blk.basefee, 0)
    BY DEF Numbers
  <2> QED
    BY <2>1, EffectivePriceIsLess
<1>3. blob_price \in Nat /\ Numbers(t, 0, blob_price) /\ t.max_blob_fee \in Nat
  BY DEF Numbers
<1>4. t.type = Eip4844 => blob_price <= t.max_blob_fee
  BY <1>3, AcceptedBlobPrice
<1> HIDE DEF blob_price, price
<1>5. spending(t, price, blob_price) \in t.value..max_balance_spending(t)
  BY <1>1, <1>2, <1>3, <1>4, SpendingKeepsOrder
<1> QED
  BY <1>5 DEF effective_balance_spending, price, blob_price

(* calculate_caller_fee takes no more than the caller has and leaves the transaction's value,   *)
(* for every balance that ensure_enough_balance accepts.                                     *)
THEOREM CallerFeeLeavesValue ==
    ASSUME NEW t, NEW cfg, NEW blk, Numbers(t, blk.basefee, Or(blk.blob_price, 0)),
           validate_env(t, cfg, blk) = "none", ~ cfg.disable_balance_check,
           NEW balance \in Nat, ensure_enough_balance(t, balance) = "none"
    PROVE  calculate_caller_fee(balance, t, cfg, blk) \in t.value..balance
<1> DEFINE maximum == max_balance_spending(t)
           spends == effective_balance_spending(t, blk.basefee, Or(blk.blob_price, 0))
<1>1. maximum # None /\ ~ (maximum > balance)
  BY DEF ensure_enough_balance
<1>2. maximum \in Nat /\ maximum <= MaxU256
  <2>1. t.gas_price \in Nat /\ t.max_blob_fee \in Nat /\ Numbers(t, 0, t.max_blob_fee)
    BY DEF Numbers
  <2>2. t.gas_price <= t.gas_price /\ t.max_blob_fee <= t.max_blob_fee
    BY <2>1
  <2> QED
    BY <1>1, <2>1, <2>2, SpendingKeepsOrder
<1>3. MaxU256 \in Nat /\ t.value \in Nat
  BY DEF Numbers
<1> HIDE DEF maximum
<1>4. ensure_enough_balance(t, MaxU256) = "none"
  <2>1. ~ (maximum > MaxU256)
    BY <1>1, <1>2, <1>3
  <2> QED
    BY <1>1, <2>1 DEF ensure_enough_balance, maximum
<1>5. spends \in t.value..maximum
  BY <1>4, AcceptedSpendingFits DEF maximum
<1> HIDE DEF spends
<1>6. spends \in Nat /\ spends - t.value <= balance /\ spends - t.value \in Nat
      /\ balance - (spends - t.value) \in t.value..balance
  BY <1>1, <1>2, <1>3, <1>5
<1>7. calculate_caller_fee(balance, t, cfg, blk)
          = IF spends - t.value > balance THEN 0 ELSE balance - (spends - t.value)
  BY DEF calculate_caller_fee, gas_balance_spending, spends
<1> QED
  BY <1>3, <1>6, <1>7

-----------------------------------------------------------------------------
(* The builders. *)

(* A setter keeps the type of the builder. *)
LEMMA SettersKeepType ==
    ASSUME NEW b \in TxEnvType, NEW f \in DOMAIN NewBuilder, NEW value,
           [NewBuilder EXCEPT ![f] = value] \in TxEnvType
    PROVE  [b EXCEPT ![f] = value] \in TxEnvType
<1> DEFINE r == [g \in DOMAIN b |-> IF g = f THEN value ELSE b[g]]
           n == [g \in DOMAIN NewBuilder |-> IF g = f THEN value ELSE NewBuilder[g]]
<1>1. r = [b EXCEPT ![f] = value]
  OBVIOUS
<1>2. n = [NewBuilder EXCEPT ![f] = value]
  OBVIOUS
<1>3. n \in TxEnvType
  BY <1>2
<1>4. DOMAIN NewBuilder = DOMAIN b
  BY DEF NewBuilder, TxEnvType
<1>5. \A g \in DOMAIN b : r[g] \in {b[g], n[g]}
  BY <1>4
<1>6. DOMAIN r = DOMAIN b /\ r = [g \in DOMAIN b |-> r[g]]
  OBVIOUS
<1> HIDE DEF r, n
<1>7. r \in TxEnvType
  BY ZenonT(30), <1>3, <1>5, <1>6 DEF TxEnvType
<1> QED
  BY <1>1, <1>7

(* What build accepts, build_fill builds to the same transaction. *)
LEMMA BuildAgrees ==
    ASSUME NEW b \in TxEnvType, build(b).ok
    PROVE  build_fill(b) = build(b).tx
<1>1. CASE b.type = None
  <2> DEFINE derived == derive_tx_type(Typed(b))
  <2>1. build(b) = derived
    BY <1>1 DEF build
  <2>2. build_fill(b) = IF derived.ok THEN derived.tx ELSE CallsZero(derived.tx)
    BY <1>1 DEF build_fill
  <2> QED
    BY <2>1, <2>2
<1>2. CASE b.type # None
  <2>1. build_error(b) = "none" /\ build(b).tx = b
    BY <1>2 DEF build, Built, BuildError
  <2>2. build_fill(b) = fill_fields(b)
    BY <1>2 DEF build_fill
  <2>3. fill_fields(b) = b
    <3> DEFINE ty == TransactionType(b.type)
    <3>1. /\ ty \in {Eip1559, Eip4844, Eip7702} => b.priority # None
          /\ ty = Eip4844 => b.blobs # <<>>
          /\ ty = Eip7702 => b.auths # 0
          /\ ty \in {Eip4844, Eip7702} => b.kind = "call"
      BY <2>1 DEF build_error
    <3> HIDE DEF ty
    <3>2. [b EXCEPT !.priority = b.priority, !.blobs = b.blobs, !.auths = b.auths] = b
      BY Zenon DEF TxEnvType
    <3>3. /\ (IF ty \in {Eip1559, Eip4844, Eip7702} THEN Or(b.priority, 0) ELSE b.priority) = b.priority
          /\ (IF ty = Eip4844 /\ b.blobs = <<>> THEN <<FALSE>> ELSE b.blobs) = b.blobs
          /\ (IF ty = Eip7702 /\ b.auths = 0 THEN 1 ELSE b.auths) = b.auths
      BY <3>1 DEF Or
    <3> QED
      BY Zenon, <3>1, <3>2, <3>3 DEF fill_fields, ty
  <2> QED
    BY <2>1, <2>2, <2>3
<1> QED
  BY <1>1, <1>2

(* The same for the builder of Optimism, but for the bytes the transaction came in. *)
LEMMA OpBuildAgrees ==
    ASSUME NEW b \in TxType, op_build(b).ok
    PROVE  [op_build_fill(b) EXCEPT !.envelope = "none"] = [op_build(b).tx EXCEPT !.envelope = "none"]
<1> DEFINE ty == b.base.type
           typed == IF ty = None /\ b.source_hash # 0 THEN AsDeposit(b) ELSE b
           built == build(typed.base)
<1>1. typed \in TxType
  <2>1. b.base \in TxEnvType
    BY DEF TxType
  <2>2. [b.base EXCEPT !.type = DEPOSIT_TRANSACTION_TYPE] \in TxEnvType
    BY ZenonT(30), <2>1 DEF TxEnvType, Option, DEPOSIT_TRANSACTION_TYPE
  <2>3. AsDeposit(b) \in TxType
    BY <2>1, <2>2 DEF AsDeposit, TxType
  <2> QED
    BY <2>3
<1>2. /\ ~ (ty = DEPOSIT_TRANSACTION_TYPE /\ b.source_hash = 0)
      /\ built.ok /\ op_build(b).tx = [typed EXCEPT !.base = built.tx]
  BY DEF op_build, Built, BuildError
<1>3. typed.base \in TxEnvType
  BY <1>1 DEF TxType
<1>4. build_fill(typed.base) = built.tx
  BY <1>2, <1>3, BuildAgrees
<1> DEFINE With(x, e) == [base |-> x, envelope |-> e, source_hash |-> b.source_hash,
                          mint |-> b.mint, system |-> b.system]
<1>5. typed = With(typed.base, b.envelope)
  BY DEF AsDeposit, TxType
<1>6. \E e : op_build_fill(b) = With(build_fill(typed.base), e)
  <2>1. b = With(b.base, b.envelope) /\ b = [b EXCEPT !.source_hash = b.source_hash]
    BY DEF TxType
  <2>2. CASE ty = DEPOSIT_TRANSACTION_TYPE
    <3>1. op_build_fill(b) = [[b EXCEPT !.source_hash = b.source_hash, !.envelope = "none"]
                                 EXCEPT !.base = build_fill(b.base)]
      BY <1>2, <2>1, <2>2 DEF op_build_fill
    <3>2. typed = b
      BY <2>2 DEF DEPOSIT_TRANSACTION_TYPE, None
    <3> QED
      BY ZenonT(30), <2>1, <3>1, <3>2
  <2>3. CASE ty # DEPOSIT_TRANSACTION_TYPE /\ ty # None
    <3>1. op_build_fill(b) = [[b EXCEPT !.envelope = "bytes"] EXCEPT !.base = build_fill(b.base)]
      BY <2>1, <2>3 DEF op_build_fill
    <3>2. typed = b
      BY <2>3
    <3> QED
      BY Zenon, <2>1, <3>1, <3>2
  <2>4. CASE ty = None /\ b.source_hash # 0
    <3>1. op_build_fill(b) = [[typed EXCEPT !.envelope = "none"] EXCEPT !.base = build_fill(typed.base)]
      BY <1>5, <2>4 DEF op_build_fill, DEPOSIT_TRANSACTION_TYPE, None
    <3> DEFINE base_ == typed.base
               filled == build_fill(base_)
    <3>2. typed = With(base_, b.envelope)
      BY <1>5
    <3>3. op_build_fill(b) = [[typed EXCEPT !.envelope = "none"] EXCEPT !.base = filled]
      BY <3>1
    <3> HIDE DEF typed, base_, filled
    <3>4. op_build_fill(b) = With(filled, "none")
      BY Zenon, <3>2, <3>3
    <3> QED
      BY <3>4 DEF filled, base_
  <2>5. CASE ty = None /\ ~ (b.source_hash # 0)
    <3> DEFINE e == IF b.envelope = "none" THEN "bytes" ELSE b.envelope
    <3>1. op_build_fill(b) = [[b EXCEPT !.envelope = e] EXCEPT !.base = build_fill(b.base)]
      BY <2>1, <2>5 DEF op_build_fill, DEPOSIT_TRANSACTION_TYPE, None
    <3>2. typed = b
      BY <2>5
    <3> HIDE DEF e
    <3>3. op_build_fill(b) = With(build_fill(b.base), e)
      BY Zenon, <2>1, <3>1
    <3> QED
      BY Zenon, <3>2, <3>3
  <2> QED
    BY Zenon, <2>2, <2>3, <2>4, <2>5
<1> DEFINE base_ == typed.base
           new == built.tx
<1>7. typed = With(base_, b.envelope) /\ op_build(b).tx = [typed EXCEPT !.base = new]
  BY <1>2, <1>5
<1>8. PICK e : op_build_fill(b) = With(new, e)
  BY Zenon, <1>4, <1>6
<1> HIDE DEF typed, built, base_, new
<1>9. [op_build_fill(b) EXCEPT !.envelope = "none"] = With(new, "none")
  BY <1>8
<1>10. [op_build(b).tx EXCEPT !.envelope = "none"] = With(new, "none")
  <2>1. op_build(b).tx = With(new, b.envelope)
    BY <1>7
  <2> QED
    BY <2>1
<1> QED
  BY <1>9, <1>10

(* A type that is asked for is filled in so that build accepts it and changes nothing. *)
LEMMA FillIsComplete ==
    ASSUME NEW b \in TxEnvType, b.type # None
    PROVE  build(modify(build_fill(b))) = Built(build_fill(b))
<1> DEFINE filled == build_fill(b)
           ty == TransactionType(b.type)
<1>0. {"type", "priority", "blobs", "auths", "kind", "to"} \subseteq DOMAIN b
  BY DEF TxEnvType
<1>1. /\ filled = fill_fields(b)
      /\ filled.type = b.type
      /\ filled.priority = IF ty \in {Eip1559, Eip4844, Eip7702} THEN Or(b.priority, 0) ELSE b.priority
      /\ filled.blobs = IF ty = Eip4844 /\ b.blobs = <<>> THEN <<FALSE>> ELSE b.blobs
      /\ filled.auths = IF ty = Eip7702 /\ b.auths = 0 THEN 1 ELSE b.auths
      /\ filled.kind = IF ty \in {Eip4844, Eip7702} /\ b.kind # "call" THEN "call" ELSE b.kind
      /\ DOMAIN filled = DOMAIN b
      /\ filled = [f \in DOMAIN filled |-> filled[f]]
  BY ZenonT(30), <1>0 DEF build_fill, fill_fields, CallsZero
<1>2. DOMAIN NewBuilder = DOMAIN b
  BY DEF NewBuilder, TxEnvType
<1>3. <<FALSE>> # <<>>
  OBVIOUS
<1> HIDE DEF filled
<1>4. modify(filled) = filled
  BY <1>1, <1>2 DEF modify, Set
<1>5. build_error(filled) = "none"
  <2> HIDE DEF ty
  <2>1. TransactionType(filled.type) = ty
    BY <1>1 DEF ty
  <2>2. /\ ~ (ty \in {Eip1559, Eip4844, Eip7702} /\ filled.priority = None)
        /\ ~ (ty = Eip4844 /\ filled.blobs = <<>>)
        /\ ~ (ty = Eip7702 /\ filled.auths = 0)
        /\ ~ (ty \in {Eip4844, Eip7702} /\ filled.kind # "call")
    BY <1>1, <1>3 DEF Or, None
  <2> QED
    BY <2>1, <2>2 DEF build_error
<1>6. build(filled) = Built(filled)
  BY <1>1, <1>5 DEF build
<1> QED
  BY <1>4, <1>6 DEF filled

-----------------------------------------------------------------------------
(* The transaction that is being built is one of the builder's type, in a block of the chain. *)
Drafted == env \in Envs /\ block \in BlockType /\ draft \in TxType

(* The setters of the builder of Optimism keep its type. *)
LEMMA OpSettersKeepType ==
    ASSUME NEW b \in TxType, NEW f \in DOMAIN NewOpBuilder, NEW value,
           f # "base", [NewOpBuilder EXCEPT ![f] = value] \in TxType
    PROVE  [b EXCEPT ![f] = value] \in TxType
<1>1. DOMAIN NewOpBuilder = {"base", "envelope", "source_hash", "mint", "system"}
  BY DEF NewOpBuilder
<1> DEFINE new == NewBuilder
<1>2. NewOpBuilder = [base |-> new, envelope |-> "none", source_hash |-> 0, mint |-> None, system |-> FALSE]
  BY DEF NewOpBuilder
<1> HIDE DEF new
<1> QED
  BY <1>1, <1>2 DEF TxType

(* The builders start with their type. *)
LEMMA BuildersStart == NewBuilder \in TxEnvType /\ NewOpBuilder \in TxType
<1>1. TX_GAS_LIMIT_CAP \in Nat
  BY DEF TX_GAS_LIMIT_CAP
<1>2. None \in Option /\ 1 \in Option /\ 0 \in 0..MaxU256 /\ <<>> \in Seq(BOOLEAN)
  <2>1. 0 \in 0..MaxU256
    BY WidthAssumption
  <2>2. <<>> \in Seq(BOOLEAN)
    OBVIOUS
  <2> QED
    BY <2>1, <2>2 DEF Option
<1>3. NewBuilder \in TxEnvType
  <2> DEFINE zero == 0
             one == 1
             empty == <<>>
             none == None
             nobody == "zero"
             kind == "call"
  <2>1. zero \in Nat /\ one \in Option /\ zero \in 0..MaxU256 /\ none \in Option
    BY Zenon, <1>2
  <2>3. empty \in Seq(BOOLEAN)
    OBVIOUS
  <2>4. nobody \in Addresses \cup {"zero"} /\ kind \in {"call", "create"}
    OBVIOUS
  <2>2. NewBuilder =
          [type |-> none, caller |-> nobody, gas_limit |-> TX_GAS_LIMIT_CAP, gas_price |-> zero, kind |-> kind,
           to |-> nobody, value |-> zero, zeros |-> zero, others |-> zero, nonce |-> zero, chain_id |-> one,
           access |-> zero, priority |-> none, blobs |-> empty, max_blob_fee |-> zero, auths |-> zero]
    BY DEF NewBuilder
  <2> HIDE DEF zero, one, empty, none, nobody, kind
  <2> QED
    BY Zenon, <1>1, <2>1, <2>2, <2>3, <2>4 DEF TxEnvType
<1> QED
  BY <1>2, <1>3 DEF NewOpBuilder, TxType

(* The numbers of a transaction. *)
LEMMA TxNumbers ==
    ASSUME NEW t \in TxEnvType
    PROVE  /\ t.type \in Option /\ t.gas_limit \in Nat /\ t.gas_price \in Nat /\ t.value \in Nat
           /\ t.max_blob_fee \in Nat /\ t.priority \in Option /\ Len(t.blobs) \in Nat
           /\ t.zeros \in Nat /\ t.others \in Nat /\ t.access \in Nat /\ t.auths \in Nat
           /\ t.nonce \in Nat /\ t.kind \in {"call", "create"}
<1>1. t.blobs \in Seq(BOOLEAN) /\ t.value \in 0..MaxU256
  BY DEF TxEnvType
<1>2. Len(t.blobs) \in Nat
  BY <1>1
<1>3. t.value \in Nat
  BY <1>1, WidthAssumption
<1> QED
  BY <1>2, <1>3 DEF TxEnvType

(* No step builds a transaction of another type. *)
LEMMA DraftedStep == Drafted /\ [Next]_vars => Drafted'
<1> SUFFICES ASSUME Drafted, [Next]_vars PROVE Drafted'
  OBVIOUS
<1>1. CASE UNCHANGED vars
  BY <1>1 DEF Drafted, vars
<1>2. ASSUME NEW op, NEW t, NEW rest, Begin(op, t, rest) PROVE Drafted'
  BY <1>2 DEF Begin, Drafted
<1>3. CASE \E op \in {"transact_one", "transact", "transact_commit"} \cap env.ops : transact(op)
  BY <1>2, <1>3 DEF transact
<1>4. CASE \E op \in Many \cap env.ops : transact_many(op)
  BY <1>2, <1>4 DEF transact_many
<1>5. CASE \E op \in Replays \cap env.ops : replay(op)
  BY <1>2, <1>5 DEF replay
<1>6. CASE \E op \in System \cap env.ops : system_call(op)
  BY <1>2, <1>6 DEF system_call
<1>7. CASE SetBlock
  BY <1>7, AttributesAssumption DEF SetBlock, Drafted, BlockType
<1>8. CASE Finalize
  BY <1>8 DEF Finalize, Drafted
<1>9. CASE Draft
  <2>1. draft \in TxType /\ draft.base \in TxEnvType
    BY DEF Drafted, TxType
  <2>2. ASSUME NEW f \in DOMAIN Setters \cap DOMAIN NewBuilder, SetBase(f) PROVE draft' \in TxType
    <3>1. PICK value \in Setters[f] : draft' = [draft EXCEPT !.base[f] = value]
      BY <2>2 DEF SetBase
    <3>2. [draft.base EXCEPT ![f] = value] \in TxEnvType
      BY Zenon, <2>1, SettersAssumption, SettersKeepType
    <3>3. draft' = [draft EXCEPT !.base = [draft.base EXCEPT ![f] = value]]
      BY <3>1
    <3> QED
      BY <2>1, <3>2, <3>3 DEF TxType
  <2>3. ASSUME NEW f \in DOMAIN Setters \cap DOMAIN NewOpBuilder, SetOp(f) PROVE draft' \in TxType
    <3>1. PICK value \in Setters[f] : draft' = [draft EXCEPT ![f] = value]
      BY Zenon, <2>3 DEF SetOp
    <3>2. f # "base" /\ [NewOpBuilder EXCEPT ![f] = value] \in TxType
      BY SettersAssumption
    <3> QED
      BY Zenon, <2>1, <3>1, <3>2, OpSettersKeepType
  <2> QED
    BY <1>9, <2>2, <2>3 DEF Draft, Drafted
<1>10. CASE Step
  BY Zenon, <1>10 DEF Step, Drafted, Handling, Validate, DeductDeposit, Deduct, PreFails, Execution,
              ExecutionFails, PostExecution, PostFails, ExecutionResult, ExecutionResultFails,
              CatchDeposit, CatchError, NextTx, Return, Include, FailedDeposit
<1> QED
  BY <1>1, <1>3, <1>4, <1>5, <1>6, <1>7, <1>8, <1>9, <1>10 DEF Next, Calls

-----------------------------------------------------------------------------
(* Fees *)

(* saturating_mul is the product, up to the largest value. *)
LEMMA SatMulValue ==
    ASSUME NEW a \in Nat, NEW b \in Nat, NEW max \in Nat
    PROVE  /\ a * b \in Nat /\ SatMul(a, b, max) \in Nat
           /\ SatMul(a, b, max) = IF a * b > max THEN max ELSE a * b
<1>1. a * b \in Nat /\ (b = 0 => a * b = 0)
  OBVIOUS
<1>2. b > 0 => (a > max \div b <=> a * b > max)
  BY DivisionTestsProduct
<1>3. SatMul(a, b, max) = IF a * b > max THEN max ELSE a * b
  BY <1>1, <1>2 DEF SatMul
<1> QED
  BY <1>1, <1>3

(* Division keeps the order. *)
LEMMA DivisionKeepsOrder ==
    ASSUME NEW x \in Nat, NEW y \in Nat, x <= y, NEW s \in Nat, s > 0
    PROVE  x \div s \in Nat /\ y \div s \in Nat /\ x \div s <= y \div s
<1> DEFINE p == x \div s
           q == y \div s
           r == y % s
           o == x % s
<1>1. p \in Nat /\ q \in Nat /\ r \in Nat /\ o \in Nat /\ r < s /\ x = s * p + o /\ y = s * q + r
  OBVIOUS
<1> HIDE DEF p, q, r, o
<1>2. ASSUME p > q PROVE FALSE
  <2>1. s * (q + 1) <= s * p /\ s * p \in Nat /\ s * q \in Nat
    BY <1>1, <1>2, TimesKeepsOrder
  <2>2. s * (q + 1) = s * q + s
    BY <1>1
  <2> QED
    BY <1>1, <2>1, <2>2
<1>3. p <= q
  BY <1>1, <1>2
<1> QED
  BY <1>1, <1>3 DEF p, q

(* The larger of two numbers. *)
LEMMA MaxOfTwo ==
    ASSUME NEW a \in Int, NEW b \in Int
    PROVE  Max({a, b}) = IF a >= b THEN a ELSE b
<1> DEFINE S == {a, b}
<1>1. \E x \in S : \A y \in S : x >= y
  OBVIOUS
<1>2. PICK m \in S : m = Max(S) /\ \A y \in S : m >= y
  BY <1>1 DEF Max
<1> QED
  BY <1>2

(* The smaller of two numbers. *)
LEMMA MinOfTwo ==
    ASSUME NEW a \in Int, NEW b \in Int
    PROVE  Min({a, b}) = IF a <= b THEN a ELSE b
<1> DEFINE S == {a, b}
<1>1. \E x \in S : \A y \in S : x <= y
  OBVIOUS
<1>2. PICK m \in S : m = Min(S) /\ \A y \in S : m <= y
  BY <1>1 DEF Min
<1> QED
  BY <1>2

(* The operator fee is a number and grows with the gas. *)
LEMMA OperatorFeeGrows ==
    ASSUME NEW info, info.operator_fee_scalar \in Nat, info.operator_fee_constant \in Nat, NEW op,
           NEW g \in Nat, NEW h \in Nat, g <= h
    PROVE  /\ operator_fee_charge_inner(info, g, op) \in Nat
           /\ operator_fee_charge_inner(info, h, op) \in Nat
           /\ operator_fee_charge_inner(info, g, op) <= operator_fee_charge_inner(info, h, op)
<1> DEFINE s == info.operator_fee_scalar
           c == info.operator_fee_constant
           x == SatMul(g, s, MaxU256)
           y == SatMul(h, s, MaxU256)
<1>1. s \in Nat /\ c \in Nat /\ MaxU256 \in Nat /\ SCALE \in Nat /\ SCALE > 0
  BY WidthAssumption, ScaleAssumption
<1>2. x \in Nat /\ y \in Nat /\ x <= y
  <2>1. s * g <= s * h /\ s * g = g * s /\ s * h = h * s
    BY <1>1, TimesKeepsOrder
  <2>2. /\ g * s \in Nat /\ x \in Nat /\ x = IF g * s > MaxU256 THEN MaxU256 ELSE g * s
    BY Zenon, <1>1, SatMulValue
  <2>3. /\ h * s \in Nat /\ y \in Nat /\ y = IF h * s > MaxU256 THEN MaxU256 ELSE h * s
    BY Zenon, <1>1, SatMulValue
  <2> HIDE DEF x, y, s
  <2> QED
    BY <1>1, <2>1, <2>2, <2>3
<1> HIDE DEF x, y
<1>3. SatMul(x, 100, MaxU256) \in Nat /\ SatMul(y, 100, MaxU256) \in Nat
      /\ SatMul(x, 100, MaxU256) <= SatMul(y, 100, MaxU256)
  <2>1. /\ x * 100 \in Nat /\ SatMul(x, 100, MaxU256) \in Nat
        /\ SatMul(x, 100, MaxU256) = IF x * 100 > MaxU256 THEN MaxU256 ELSE x * 100
    BY Zenon, <1>1, <1>2, SatMulValue
  <2>2. /\ y * 100 \in Nat /\ SatMul(y, 100, MaxU256) \in Nat
        /\ SatMul(y, 100, MaxU256) = IF y * 100 > MaxU256 THEN MaxU256 ELSE y * 100
    BY Zenon, <1>1, <1>2, SatMulValue
  <2> QED
    BY <1>1, <1>2, <2>1, <2>2
<1>4. x \div SCALE \in Nat /\ y \div SCALE \in Nat /\ x \div SCALE <= y \div SCALE
  BY <1>1, <1>2, DivisionKeepsOrder
<1> DEFINE x100 == SatMul(x, 100, MaxU256)
           y100 == SatMul(y, 100, MaxU256)
           xs == x \div SCALE
           ys == y \div SCALE
<1>5. /\ operator_fee_charge_inner(info, g, op) = (IF OpEnabled(op, "JOVIAN") THEN x100 ELSE xs) + c
      /\ operator_fee_charge_inner(info, h, op) = (IF OpEnabled(op, "JOVIAN") THEN y100 ELSE ys) + c
  BY DEF operator_fee_charge_inner, x, y
<1>6. x100 \in Nat /\ y100 \in Nat /\ x100 <= y100 /\ xs \in Nat /\ ys \in Nat /\ xs <= ys
  BY <1>3, <1>4
<1> HIDE DEF x100, y100, xs, ys, c
<1> QED
  BY <1>1, <1>5, <1>6

(* L1BlockInfo *)
L1Info ==
    [l2_block : Option, l1_base_fee : Nat, l1_fee_overhead : Option, l1_base_fee_scalar : Nat,
     l1_blob_base_fee : Option, l1_blob_base_fee_scalar : Option, operator_fee_scalar : Option,
     operator_fee_constant : Option, da_footprint_gas_scalar : Option,
     empty_ecotone_scalars : BOOLEAN, tx_l1_cost : Option]

(* The operator fee came with Isthmus, after Ecotone. *)
LEMMA OpForkOrder == DOMAIN OpForks = 1..11 /\ OpFork("ECOTONE") = 4 /\ OpFork("ISTHMUS") = 8
<1>1. DOMAIN OpForks = 1..11
  BY DEF OpForks
<1>2. OpFork("ECOTONE") = 4
  <2>1. OpForks[4] = "ECOTONE" /\ 4 \in DOMAIN OpForks
    BY <1>1 DEF OpForks
  <2>2. \A i \in 1..11 : OpForks[i] = "ECOTONE" => i = 4
    BY DEF OpForks
  <2> QED
    BY <1>1, <2>1, <2>2 DEF OpFork
<1>3. OpFork("ISTHMUS") = 8
  <2>1. OpForks[8] = "ISTHMUS" /\ 8 \in DOMAIN OpForks
    BY <1>1 DEF OpForks
  <2>2. \A i \in 1..11 : OpForks[i] = "ISTHMUS" => i = 8
    BY DEF OpForks
  <2> QED
    BY <1>1, <2>1, <2>2 DEF OpFork
<1> QED
  BY <1>1, <1>2, <1>3

(* Optimism started after London. *)
LEMMA OpIsAfterLondon ==
    ASSUME NEW op
    PROVE  Enabled(into_eth_spec(op), "LONDON")
<1>1. Specs = 1..21
  BY DEF Specs, Forks
<1>2. Fork("LONDON") = 13
  <2>1. Forks[13] = "LONDON" /\ 13 \in Specs
    BY <1>1 DEF Forks
  <2>2. \A i \in 1..21 : Forks[i] = "LONDON" => i = 13
    BY DEF Forks
  <2> QED
    BY <1>1, <2>1, <2>2 DEF Fork
<1>3. ASSUME NEW name \in {"MERGE", "SHANGHAI", "CANCUN", "PRAGUE", "OSAKA"}
      PROVE  Fork(name) \in 16..20
  <2>1. \E i \in Specs : Forks[i] = name
    <3>1. Forks[16] = "MERGE" /\ Forks[17] = "SHANGHAI" /\ Forks[18] = "CANCUN" /\ Forks[19] = "PRAGUE"
          /\ Forks[20] = "OSAKA"
      BY DEF Forks
    <3> QED
      BY <1>1, <3>1
  <2>2. Fork(name) \in 1..21 /\ Forks[Fork(name)] = name
    BY <1>1, <2>1 DEF Fork
  <2>3. \A i \in 1..21 : Forks[i] \in {"MERGE", "SHANGHAI", "CANCUN", "PRAGUE", "OSAKA"} => i \in 16..20
    BY DEF Forks
  <2> QED
    BY <2>2, <2>3
<1>4. into_eth_spec(op) \in {Fork("MERGE"), Fork("SHANGHAI"), Fork("CANCUN"), Fork("PRAGUE"), Fork("OSAKA")}
  BY DEF into_eth_spec
<1> QED
  BY <1>2, <1>3, <1>4 DEF Enabled

(* Sequences of n numbers. *)
Bytes(n) == {s \in Seq(Nat) : Len(s) = n}

(* The elements of such a sequence. *)
LEMMA ByteIsNumber ==
    ASSUME NEW n, NEW s \in Bytes(n), NEW i \in 1..n
    PROVE  s[i] \in Nat
BY DEF Bytes

(* Two of them, one after the other. *)
LEMMA BytesJoined ==
    ASSUME NEW n \in Nat, NEW m \in Nat, NEW s \in Bytes(n), NEW t \in Bytes(m)
    PROVE  s \o t \in Bytes(n + m)
<1> DEFINE u == s \o t
<1>1. s \in Seq(Nat) /\ t \in Seq(Nat) /\ Len(s) = n /\ Len(t) = m
  BY DEF Bytes
<1>2. u \in Seq(Nat) /\ Len(u) = Len(s) + Len(t)
  BY <1>1
<1> HIDE DEF u
<1>3. u \in Bytes(n + m)
  BY <1>1, <1>2 DEF Bytes
<1> QED
  BY <1>3 DEF u

(* Numbers in the bytes of a slot. *)
LEMMA SlotNumbers ==
    ASSUME NEW slot \in Bytes(32), NEW offset \in 0..24
    PROVE  u16_from_be(slot, offset) \in Nat /\ u32_from_be(slot, offset) \in Nat
           /\ u64_from_be(slot, offset) \in Nat
<1> DEFINE two == ByteBase * ByteBase
           four == ByteBase * ByteBase * ByteBase * ByteBase
<1>1. ByteBase \in Nat /\ two \in Nat /\ four \in Nat
  BY ScaleAssumption
<1>2. ASSUME NEW i \in 0..30 PROVE u16_from_be(slot, i) \in Nat
  <2>1. i + 1 \in 1..32 /\ i + 2 \in 1..32
    OBVIOUS
  <2>2. slot[i + 1] \in Nat /\ slot[i + 2] \in Nat
    BY <2>1, ByteIsNumber
  <2> DEFINE high == slot[i + 1]
             low == slot[i + 2]
  <2>3. high \in Nat /\ low \in Nat /\ u16_from_be(slot, i) = high * ByteBase + low
    BY <2>2 DEF u16_from_be
  <2> HIDE DEF high, low
  <2> QED
    BY <1>1, <2>3
<1>3. ASSUME NEW i \in 0..28 PROVE u32_from_be(slot, i) \in Nat
  <2>1. i \in 0..30 /\ i + 2 \in 0..30
    OBVIOUS
  <2> DEFINE high == u16_from_be(slot, i)
             low == u16_from_be(slot, i + 2)
  <2>2. high \in Nat /\ low \in Nat /\ u32_from_be(slot, i) = high * two + low
    BY <1>2, <2>1 DEF u32_from_be
  <2> HIDE DEF two, high, low
  <2> QED
    BY <1>1, <2>2
<1>4. u64_from_be(slot, offset) \in Nat
  <2>1. offset \in 0..28 /\ offset + 4 \in 0..28
    OBVIOUS
  <2> DEFINE high == u32_from_be(slot, offset)
             low == u32_from_be(slot, offset + 4)
  <2>2. high \in Nat /\ low \in Nat
    BY <1>3, <2>1
  <2>3. u64_from_be(slot, offset) = high * four + low
    BY DEF u64_from_be
  <2> HIDE DEF four, high, low
  <2> QED
    BY <1>1, <2>2, <2>3
<1>5. offset \in 0..30 /\ offset \in 0..28
  OBVIOUS
<1> QED
  BY <1>2, <1>3, <1>4, <1>5

(* The bytes of a number. *)
LEMMA DigitsAreBytes ==
    ASSUME NEW x \in Nat
    PROVE  Digits2(x) \in Bytes(2) /\ Digits4(x) \in Bytes(4) /\ Digits8(x) \in Bytes(8)
<1> DEFINE two == ByteBase * ByteBase
           four == ByteBase * ByteBase * ByteBase * ByteBase
<1>1. ByteBase \in Nat /\ ByteBase > 0 /\ two \in Nat /\ two > 0
  BY ScaleAssumption
<1>2. four \in Nat /\ four > 0
  <2>1. four = two * two
    BY <1>1
  <2> HIDE DEF two, four
  <2> QED
    BY <1>1, <2>1
<1>3. ASSUME NEW n \in Nat PROVE Digits2(n) \in Bytes(2)
  <2>1. (n \div ByteBase) \in Nat /\ (n % ByteBase) \in Nat
    BY <1>1
  <2>2. (n \div ByteBase) % ByteBase \in Nat
    BY <1>1, <2>1
  <2> QED
    BY <2>1, <2>2 DEF Digits2, Bytes
<1>4. ASSUME NEW n \in Nat PROVE Digits4(n) \in Bytes(4)
  <2>1. n \div two \in Nat
    BY <1>1
  <2>2. Digits4(n) = Digits2(n \div two) \o Digits2(n)
    BY DEF Digits4
  <2> HIDE DEF two
  <2>3. Digits4(n) \in Bytes(2 + 2)
    BY <1>3, <2>1, <2>2, BytesJoined
  <2> QED
    BY <2>3
<1>5. Digits8(x) \in Bytes(8)
  <2>1. x \div four \in Nat
    BY <1>2
  <2>2. Digits8(x) = Digits4(x \div four) \o Digits4(x)
    BY DEF Digits8
  <2> HIDE DEF four
  <2>3. Digits8(x) \in Bytes(4 + 4)
    BY <1>4, <2>1, <2>2, BytesJoined
  <2> QED
    BY <2>3
<1> QED
  BY <1>3, <1>4, <1>5

(* The packed slots of the L1Block contract are 32 bytes. *)
LEMMA SlotsAreWords ==
    ASSUME NEW a \in AttributesType
    PROVE  L1BlockStorage(a).fee_scalars \in Bytes(32) /\ L1BlockStorage(a).operator \in Bytes(32)
<1>1. /\ a.base_scalar \in Nat /\ a.blob_scalar \in Nat /\ a.sequence \in Nat /\ a.da_scalar \in Nat
      /\ a.op_scalar \in Nat /\ a.op_constant \in Nat
  BY DEF AttributesType
<1> DEFINE b4 == Digits4(a.base_scalar)
           c4 == Digits4(a.blob_scalar)
           s8 == Digits8(a.sequence)
           d2 == Digits2(a.da_scalar)
           o4 == Digits4(a.op_scalar)
           o8 == Digits8(a.op_constant)
           z16 == Zeros(16)
           z18 == Zeros(18)
<1>2. /\ b4 \in Bytes(4) /\ c4 \in Bytes(4) /\ s8 \in Bytes(8)
      /\ d2 \in Bytes(2) /\ o4 \in Bytes(4) /\ o8 \in Bytes(8)
  BY <1>1, DigitsAreBytes
<1>3. z16 \in Bytes(16) /\ z18 \in Bytes(18)
  BY DEF Zeros, Bytes
<1>4. /\ L1BlockStorage(a).fee_scalars = ((z16 \o b4) \o c4) \o s8
      /\ L1BlockStorage(a).operator = ((z18 \o d2) \o o4) \o o8
  BY DEF L1BlockStorage
<1> HIDE DEF b4, c4, s8, d2, o4, o8, z16, z18
<1>5. ((z16 \o b4) \o c4) \o s8 \in Bytes(32)
  <2>1. z16 \o b4 \in Bytes(16 + 4)
    BY <1>2, <1>3, BytesJoined
  <2>2. (z16 \o b4) \o c4 \in Bytes(20 + 4)
    BY <1>2, <2>1, BytesJoined
  <2>3. ((z16 \o b4) \o c4) \o s8 \in Bytes(24 + 8)
    BY <1>2, <2>2, BytesJoined
  <2> QED
    BY <2>3
<1>6. ((z18 \o d2) \o o4) \o o8 \in Bytes(32)
  <2>1. z18 \o d2 \in Bytes(18 + 2)
    BY <1>2, <1>3, BytesJoined
  <2>2. (z18 \o d2) \o o4 \in Bytes(20 + 4)
    BY <1>2, <2>1, BytesJoined
  <2>3. ((z18 \o d2) \o o4) \o o8 \in Bytes(24 + 8)
    BY <1>2, <2>2, BytesJoined
  <2> QED
    BY <2>3
<1> QED
  BY <1>4, <1>5, <1>6

(* What is read from the L1Block contract is an L1BlockInfo of the block, with the operator fee  *)
(* since Isthmus, and without a cost that is remembered.                                     *)
LEMMA FetchedInfo ==
    ASSUME NEW a \in AttributesType, NEW n \in Nat, NEW op \in DOMAIN OpForks
    PROVE  LET info == try_fetch(L1BlockStorage(a), n, op)
           IN  /\ info \in L1Info /\ info.l2_block = n /\ info.tx_l1_cost = None
               /\ OpEnabled(op, "ISTHMUS") =>
                     info.operator_fee_scalar \in Nat /\ info.operator_fee_constant \in Nat
<1> DEFINE s == L1BlockStorage(a)
           none == None
           zero == 0
           no == FALSE
           out == [NewL1BlockInfo EXCEPT !.l2_block = n, !.l1_base_fee = s.base_fee]
           ecotone == try_fetch_ecotone(out, s)
           isthmus == try_fetch_isthmus(ecotone, s)
           jovian(info) == try_fetch_jovian(info, s)
           old == [out EXCEPT !.l1_base_fee_scalar = s.scalar, !.l1_fee_overhead = s.overhead]
           Read(info) == info \in L1Info /\ info.l2_block = n /\ info.tx_l1_cost = none
           Operator(info) == info.operator_fee_scalar \in Nat /\ info.operator_fee_constant \in Nat
<1>1. /\ s.base_fee \in Nat /\ s.overhead \in Option /\ s.scalar \in Nat /\ s.blob_base_fee \in Option
      /\ s.fee_scalars \in Bytes(32) /\ s.operator \in Bytes(32)
  <2>1. s.fee_scalars \in Bytes(32) /\ s.operator \in Bytes(32)
    BY SlotsAreWords
  <2>2. a.base_fee \in Nat /\ a.overhead \in Nat /\ a.scalar \in Nat /\ a.blob_base_fee \in Nat
    BY DEF AttributesType
  <2>3. s.base_fee = a.base_fee /\ s.overhead = a.overhead /\ s.scalar = a.scalar
        /\ s.blob_base_fee = a.blob_base_fee
    BY DEF L1BlockStorage
  <2> HIDE DEF s
  <2> QED
    BY <2>1, <2>2, <2>3 DEF Option
<1>2. none \in Option /\ zero \in Nat /\ no \in BOOLEAN /\ n \in Option
  BY DEF Option
<1>3. NewL1BlockInfo =
        [l2_block |-> none, l1_base_fee |-> zero, l1_fee_overhead |-> none, l1_base_fee_scalar |-> zero,
         l1_blob_base_fee |-> none, l1_blob_base_fee_scalar |-> none, operator_fee_scalar |-> none,
         operator_fee_constant |-> none, da_footprint_gas_scalar |-> none,
         empty_ecotone_scalars |-> no, tx_l1_cost |-> none]
  BY DEF NewL1BlockInfo
<1> HIDE DEF s, none, zero, no
<1>4. Read(out)
  BY Zenon, <1>1, <1>2, <1>3 DEF L1Info
<1> HIDE DEF out
<1>5. Read(old)
  BY Zenon, <1>1, <1>4 DEF L1Info, Option
<1>6. Read(ecotone)
  <2> DEFINE scalar == u32_from_be(s.fee_scalars, BASE_FEE_SCALAR_OFFSET)
             blob_scalar == u32_from_be(s.fee_scalars, BLOB_BASE_FEE_SCALAR_OFFSET)
             empty == blob_scalar = 0
                      /\ SubSeq(s.fee_scalars, BASE_FEE_SCALAR_OFFSET + 1, BLOB_BASE_FEE_SCALAR_OFFSET + 4) = Zeros(8)
             overhead == IF empty THEN s.overhead ELSE None
  <2>1. scalar \in Nat /\ blob_scalar \in Nat
    BY <1>1, SlotNumbers DEF BASE_FEE_SCALAR_OFFSET, BLOB_BASE_FEE_SCALAR_OFFSET
  <2>2. empty \in BOOLEAN /\ overhead \in Option /\ blob_scalar \in Option
    BY <1>1, <2>1 DEF Option
  <2>3. ecotone = [out EXCEPT !.l1_blob_base_fee = s.blob_base_fee, !.l1_base_fee_scalar = scalar,
                              !.l1_blob_base_fee_scalar = blob_scalar, !.empty_ecotone_scalars = empty,
                              !.l1_fee_overhead = overhead]
    BY DEF try_fetch_ecotone
  <2> HIDE DEF scalar, blob_scalar, empty, overhead
  <2> QED
    BY ZenonT(30), <1>1, <1>4, <2>1, <2>2, <2>3 DEF L1Info
<1> HIDE DEF ecotone
<1>7. Read(isthmus) /\ Operator(isthmus)
  <2> DEFINE scalar == u32_from_be(s.operator, OPERATOR_FEE_SCALAR_OFFSET)
             constant == u64_from_be(s.operator, OPERATOR_FEE_CONSTANT_OFFSET)
  <2>1. scalar \in Nat /\ constant \in Nat
    BY <1>1, SlotNumbers DEF OPERATOR_FEE_SCALAR_OFFSET, OPERATOR_FEE_CONSTANT_OFFSET
  <2>2. scalar \in Option /\ constant \in Option
    BY <2>1 DEF Option
  <2>3. isthmus = [ecotone EXCEPT !.operator_fee_scalar = scalar, !.operator_fee_constant = constant]
    BY DEF try_fetch_isthmus
  <2> HIDE DEF scalar, constant
  <2> QED
    BY Zenon, <1>6, <2>1, <2>2, <2>3 DEF L1Info
<1> HIDE DEF isthmus
<1>8. ASSUME NEW info, Read(info) PROVE Read(jovian(info)) /\ (Operator(info) => Operator(jovian(info)))
  <2> DEFINE scalar == u16_from_be(s.operator, DA_FOOTPRINT_GAS_SCALAR_OFFSET)
  <2>1. scalar \in Option
    BY <1>1, SlotNumbers DEF DA_FOOTPRINT_GAS_SCALAR_OFFSET, Option
  <2>2. jovian(info) = [info EXCEPT !.da_footprint_gas_scalar = scalar]
    BY DEF try_fetch_jovian
  <2> HIDE DEF scalar, jovian
  <2> QED
    BY <1>8, <2>1, <2>2 DEF L1Info
<1>9. OpEnabled(op, "ISTHMUS") => OpEnabled(op, "ECOTONE")
  BY OpForkOrder DEF OpEnabled
<1>10. try_fetch(s, n, op) =
         IF ~ OpEnabled(op, "ECOTONE") THEN old
         ELSE IF OpEnabled(op, "JOVIAN") THEN jovian(IF OpEnabled(op, "ISTHMUS") THEN isthmus ELSE ecotone)
         ELSE IF OpEnabled(op, "ISTHMUS") THEN isthmus ELSE ecotone
  BY DEF try_fetch, out, ecotone, isthmus
<1> DEFINE result == try_fetch(s, n, op)
<1> HIDE DEF old, jovian, Read, Operator
<1>11. Read(result) /\ (OpEnabled(op, "ISTHMUS") => Operator(result))
  BY <1>5, <1>6, <1>7, <1>8, <1>9, <1>10
<1> QED
  BY <1>11 DEF Read, Operator, s, none

(* The size of a transaction on L1 is a number. *)
LEMMA SizesAreNumbers ==
    ASSUME NEW envelope \in DOMAIN Envelopes, NEW op
    PROVE  estimate_tx_compressed_size(envelope) \in Nat /\ data_gas(envelope, op) \in Nat
<1> DEFINE e == Envelopes[envelope]
           coef == L1_COST_FASTLZ_COEF
           intercept == L1_COST_INTERCEPT
           size == estimate_tx_compressed_size(envelope)
<1>1. e.zeros \in Nat /\ e.others \in Nat /\ e.flz \in Nat /\ SCALE \in Nat /\ SCALE > 0
  BY ScaleAssumption
<1>2. coef \in Nat /\ intercept \in Nat /\ MIN_TX_SIZE_SCALED \in Nat
  BY <1>1 DEF L1_COST_FASTLZ_COEF, L1_COST_INTERCEPT, MIN_TX_SIZE_SCALED
<1>3. size \in Nat
  <2> DEFINE x == e.flz * coef - intercept
             min == MIN_TX_SIZE_SCALED
             flz == e.flz
  <2>1. x \in Int
    <3>1. flz \in Nat /\ x = flz * coef - intercept
      BY <1>1
    <3> HIDE DEF flz, coef, intercept, x
    <3> QED
      BY <1>2, <3>1
  <2>2. size = Max({x, min})
    BY DEF estimate_tx_compressed_size
  <2> HIDE DEF x, min, size, coef, intercept, flz
  <2>3. min \in Nat
    BY <1>2 DEF min
  <2> QED
    BY <2>1, <2>2, <2>3, MaxOfTwo
<1>4. data_gas(envelope, op) \in Nat
  <2>1. (size * NON_ZERO_BYTE_COST) \div SCALE \in Nat
    <3> HIDE DEF size
    <3> QED
      BY <1>1, <1>3 DEF NON_ZERO_BYTE_COST
  <2>2. (get_tokens_in_calldata(e.zeros, e.others, TRUE)
             + (IF OpEnabled(op, "REGOLITH") THEN 0 ELSE 68 * 4)) * STANDARD_TOKEN_COST \in Nat
    BY <1>1 DEF get_tokens_in_calldata, STANDARD_TOKEN_COST
  <2> QED
    BY Zenon, <2>1, <2>2 DEF data_gas
<1> QED
  BY <1>3, <1>4

(* The L1 cost of a transaction is a number. *)
LEMMA L1CostIsNumber ==
    ASSUME NEW info \in L1Info, NEW envelope \in DOMAIN Envelopes, NEW op
    PROVE  l1_cost(info, envelope, op) \in Nat
<1> DEFINE fee == info.l1_base_fee
           scalar == info.l1_base_fee_scalar
           overhead == Or(info.l1_fee_overhead, 0)
           blob_fee == Or(info.l1_blob_base_fee, 0)
           blob_scalar == Or(info.l1_blob_base_fee_scalar, 0)
           size == estimate_tx_compressed_size(envelope)
           gas == data_gas(envelope, op)
           scaled == calculate_l1_fee_scaled_ecotone(info)
<1>1. fee \in Nat /\ scalar \in Nat /\ overhead \in Nat /\ blob_fee \in Nat /\ blob_scalar \in Nat
  BY DEF L1Info, Or, Option
<1>2. size \in Nat /\ gas \in Nat /\ MaxU256 \in Nat /\ SCALE \in Nat /\ SCALE > 0
  BY SizesAreNumbers, WidthAssumption, ScaleAssumption
<1>3. scaled \in Nat
  <2>1. scaled = fee * 16 * scalar + blob_fee * blob_scalar
    BY DEF calculate_l1_fee_scaled_ecotone, NON_ZERO_BYTE_COST
  <2> HIDE DEF fee, scalar, blob_fee, blob_scalar, scaled
  <2>2. fee * 16 * scalar \in Nat /\ blob_fee * blob_scalar \in Nat
    BY <1>1
  <2> QED
    BY <2>1, <2>2
<1>4. calculate_tx_l1_cost_bedrock(info, envelope, op) \in Nat
  <2> DEFINE x == SatMul(gas + overhead, fee, MaxU256)
             y == SatMul(x, scalar, MaxU256)
  <2>1. calculate_tx_l1_cost_bedrock(info, envelope, op) = y \div SCALE
    BY DEF calculate_tx_l1_cost_bedrock
  <2> HIDE DEF fee, scalar, overhead, gas
  <2>2. gas + overhead \in Nat
    BY <1>1, <1>2
  <2>3. x \in Nat
    BY Zenon, <1>1, <1>2, <2>2, SatMulValue
  <2>4. y \in Nat
    BY Zenon, <1>1, <1>2, <2>3, SatMulValue
  <2> HIDE DEF x, y
  <2> QED
    BY <1>2, <2>1, <2>4
<1>5. calculate_tx_l1_cost_ecotone(info, envelope, op) \in Nat
  <2> DEFINE x == SatMul(scaled, gas, MaxU256)
             d == SCALE * NON_ZERO_BYTE_COST
  <2>1. calculate_tx_l1_cost_ecotone(info, envelope, op)
            = IF info.empty_ecotone_scalars THEN calculate_tx_l1_cost_bedrock(info, envelope, op)
              ELSE x \div d
    BY DEF calculate_tx_l1_cost_ecotone
  <2>2. d \in Nat /\ d > 0
    BY <1>2 DEF NON_ZERO_BYTE_COST
  <2> HIDE DEF scaled, gas
  <2>3. x \in Nat
    BY <1>2, <1>3, SatMulValue
  <2> HIDE DEF x, d
  <2>4. x \div d \in Nat
    BY <2>2, <2>3
  <2> QED
    BY <1>4, <2>1, <2>4
<1>6. calculate_tx_l1_cost_fjord(info, envelope) \in Nat
  <2> DEFINE x == SatMul(size, scaled, MaxU256)
             d == SCALE * SCALE
  <2>1. calculate_tx_l1_cost_fjord(info, envelope) = x \div d
    BY DEF calculate_tx_l1_cost_fjord
  <2>2. d \in Nat /\ d > 0
    BY <1>2
  <2> HIDE DEF scaled, size
  <2>3. x \in Nat
    BY <1>2, <1>3, SatMulValue
  <2> HIDE DEF x, d
  <2>4. x \div d \in Nat
    BY <2>2, <2>3
  <2> QED
    BY <2>1, <2>4
<1> QED
  BY <1>4, <1>5, <1>6 DEF l1_cost

(* It is computed from the attributes, not from what is remembered. *)
LEMMA L1CostOfAttributes ==
    ASSUME NEW info \in L1Info, NEW envelope, NEW op
    PROVE  /\ l1_cost(clear_tx_l1_cost(info), envelope, op) = l1_cost(info, envelope, op)
           /\ \A gas : operator_fee_charge_inner(clear_tx_l1_cost(info), gas, op)
                           = operator_fee_charge_inner(info, gas, op)
<1> DEFINE cleared == clear_tx_l1_cost(info)
<1>1. /\ cleared.l1_base_fee = info.l1_base_fee /\ cleared.l1_fee_overhead = info.l1_fee_overhead
      /\ cleared.l1_base_fee_scalar = info.l1_base_fee_scalar
      /\ cleared.l1_blob_base_fee = info.l1_blob_base_fee
      /\ cleared.l1_blob_base_fee_scalar = info.l1_blob_base_fee_scalar
      /\ cleared.empty_ecotone_scalars = info.empty_ecotone_scalars
      /\ cleared.operator_fee_scalar = info.operator_fee_scalar
      /\ cleared.operator_fee_constant = info.operator_fee_constant
  BY DEF clear_tx_l1_cost, L1Info
<1> HIDE DEF cleared
<1>2. calculate_tx_l1_cost_bedrock(cleared, envelope, op) = calculate_tx_l1_cost_bedrock(info, envelope, op)
  BY <1>1 DEF calculate_tx_l1_cost_bedrock
<1>3. calculate_l1_fee_scaled_ecotone(cleared) = calculate_l1_fee_scaled_ecotone(info)
  BY <1>1 DEF calculate_l1_fee_scaled_ecotone
<1>4. l1_cost(cleared, envelope, op) = l1_cost(info, envelope, op)
  BY <1>1, <1>2, <1>3 DEF l1_cost, calculate_tx_l1_cost_fjord, calculate_tx_l1_cost_ecotone
<1>5. \A gas : operator_fee_charge_inner(cleared, gas, op) = operator_fee_charge_inner(info, gas, op)
  BY <1>1 DEF operator_fee_charge_inner
<1> QED
  BY <1>4, <1>5 DEF cleared

-----------------------------------------------------------------------------
(* Gas *)
GasType == [limit : Nat, remaining : Nat, refunded : Nat]

(* What a transaction is charged before it runs, and at least. *)
LEMMA InitialGasFits ==
    ASSUME NEW t \in TxEnvType, NEW cfg, validate_initial_tx_gas(t, cfg) = "none"
    PROVE  InitialAndFloor(t, cfg).initial \in 0..t.gas_limit /\ InitialAndFloor(t, cfg).floor \in 0..t.gas_limit
<1> DEFINE accounts == IF t.type = Legacy THEN 0 ELSE t.access
           create == t.kind = "create"
           parts == [zeros |-> t.zeros, others |-> t.others, create |-> create,
                     accounts |-> accounts, slots |-> 0, auths |-> t.auths]
           gas == InitialAndFloor(t, cfg)
<1>1. t.gas_limit \in Nat /\ t.zeros \in Nat /\ t.others \in Nat /\ t.access \in Nat /\ t.auths \in Nat
  BY TxNumbers
<1>2. gas.initial = initial_gas(cfg.spec, parts)
      /\ gas.floor = IF cfg.disable_eip7623 THEN 0 ELSE floor_gas(cfg.spec, parts)
  BY Zenon DEF InitialAndFloor
<1>3. /\ parts.zeros \in Nat /\ parts.others \in Nat /\ parts.accounts \in Nat /\ parts.slots \in Nat
      /\ parts.auths \in Nat
  BY <1>1
<1> HIDE DEF parts
<1>4. /\ get_tokens_in_calldata(parts.zeros, parts.others, TRUE) \in Nat
      /\ get_tokens_in_calldata(parts.zeros, parts.others, Enabled(cfg.spec, "ISTANBUL")) \in Nat
  BY <1>3 DEF get_tokens_in_calldata
<1>5. initial_gas(cfg.spec, parts) \in Nat
  <2> DEFINE tokens == get_tokens_in_calldata(parts.zeros, parts.others, Enabled(cfg.spec, "ISTANBUL"))
             code == IF parts.create /\ Enabled(cfg.spec, "SHANGHAI")
                     THEN initcode_cost(parts.zeros + parts.others) ELSE 0
  <2>1. code \in Nat
    BY <1>3 DEF initcode_cost, cost_per_word, num_words, INITCODE_WORD_COST
  <2>2. initial_gas(cfg.spec, parts) =
          tokens * 4 + parts.accounts * 2400 + parts.slots * 1900
            + (IF parts.create /\ Enabled(cfg.spec, "HOMESTEAD") THEN 53000 ELSE 21000) + code
            + (IF Enabled(cfg.spec, "PRAGUE") THEN parts.auths * 25000 ELSE 0)
    BY DEF initial_gas, STANDARD_TOKEN_COST, ACCESS_LIST_ADDRESS, ACCESS_LIST_STORAGE_KEY,
           PER_EMPTY_ACCOUNT_COST
  <2> HIDE DEF tokens, code
  <2> QED
    BY <1>3, <1>4, <2>1, <2>2 DEF tokens
<1>6. floor_gas(cfg.spec, parts) \in Nat
      /\ (~ Enabled(cfg.spec, "PRAGUE") => floor_gas(cfg.spec, parts) = 0)
  <2> DEFINE tokens == get_tokens_in_calldata(parts.zeros, parts.others, TRUE)
  <2>1. calc_tx_floor_cost(tokens) \in Nat
    <3>1. tokens \in Nat
      BY Zenon, <1>4
    <3> HIDE DEF tokens
    <3> QED
      BY <3>1 DEF calc_tx_floor_cost, TOTAL_COST_FLOOR_PER_TOKEN
  <2> QED
    BY Zenon, <2>1 DEF floor_gas
<1> HIDE DEF gas
<1>7. gas.initial \in Nat /\ gas.floor \in Nat /\ (~ Enabled(cfg.spec, "PRAGUE") => gas.floor = 0)
  BY <1>2, <1>5, <1>6
<1>8. ~ (gas.initial > t.gas_limit) /\ ~ (Enabled(cfg.spec, "PRAGUE") /\ gas.floor > t.gas_limit)
  BY DEF validate_initial_tx_gas, gas
<1>9. gas.initial \in 0..t.gas_limit /\ gas.floor \in 0..t.gas_limit
  BY <1>1, <1>7, <1>8
<1> QED
  BY <1>9 DEF gas

(* The gas of the first frame's result. *)
LEMMA FrameGas ==
    ASSUME NEW r, NEW limit \in Nat, NEW remaining \in 0..limit, NEW refunded \in Nat
    PROVE  LET g == R!last_frame_result(r, limit, remaining, refunded)
           IN  g \in GasType /\ g.limit = limit /\ g.remaining \in 0..limit
<1> DEFINE zero == 0
           all == [limit |-> limit, remaining |-> zero, refunded |-> zero]
           back == IF R!is_ok_or_revert(r) THEN R!erase_cost(all, remaining) ELSE all
<1>1. zero \in Nat /\ zero = 0
  OBVIOUS
<1>2. R!last_frame_result(r, limit, remaining, refunded)
          = IF R!is_ok(r) THEN R!record_refund(back, refunded) ELSE back
  BY DEF R!last_frame_result
<1>3. \E left \in 0..limit : back = [limit |-> limit, remaining |-> left, refunded |-> zero]
  BY DEF R!erase_cost
<1>4. PICK left \in 0..limit : back = [limit |-> limit, remaining |-> left, refunded |-> zero]
  BY <1>3
<1> HIDE DEF back
<1>5. \E n \in Nat : R!last_frame_result(r, limit, remaining, refunded)
                         = [limit |-> limit, remaining |-> left, refunded |-> n]
  BY <1>2, <1>4 DEF R!record_refund
<1>6. PICK n \in Nat : R!last_frame_result(r, limit, remaining, refunded)
                         = [limit |-> limit, remaining |-> left, refunded |-> n]
  BY <1>5
<1> QED
  BY <1>6 DEF GasType

(* After the refund and the floor, what is used is at most the limit, and the rest goes back. *)
LEMMA SettledGas ==
    ASSUME NEW g \in GasType, g.remaining <= g.limit, NEW floor \in 0..g.limit, NEW london \in BOOLEAN
    PROVE  LET s == R!eip7623_check_gas_floor(R!refund(g, london, 0), floor)
           IN  /\ s \in GasType /\ s.limit = g.limit /\ R!used(s) \in 0..g.limit
               /\ s.remaining + s.refunded = g.limit - R!used(s)
<1> DEFINE spent == g.limit - g.remaining
           quotient == spent \div (IF london THEN 5 ELSE 2)
           back == IF g.refunded > quotient THEN quotient ELSE g.refunded
           h == R!refund(g, london, 0)
           s == R!eip7623_check_gas_floor(h, floor)
<1>1. g.limit \in Nat /\ g.remaining \in Nat /\ g.refunded \in Nat /\ spent \in Nat
  BY DEF GasType
<1>2. quotient \in Nat /\ quotient <= spent
  <2> HIDE DEF spent
  <2>1. spent \div 5 \in Nat /\ spent \div 5 <= spent /\ spent \div 2 \in Nat /\ spent \div 2 <= spent
    BY <1>1
  <2> QED
    BY <2>1
<1>3. h = [limit |-> g.limit, remaining |-> g.remaining, refunded |-> back]
  <2>1. R!record_refund(g, 0) = g
    BY <1>1 DEF R!record_refund, GasType
  <2> QED
    BY <2>1 DEF R!refund, R!set_final_refund, R!spent, GasType
<1> HIDE DEF quotient
<1>4. back \in 0..spent
  BY <1>1, <1>2
<1> HIDE DEF back
<1>5. R!used(h) = spent - back
  BY <1>3 DEF R!used, R!spent
<1> DEFINE zero == 0
           left == h.limit - floor
           floored == [h EXCEPT !.remaining = left, !.refunded = zero]
<1>6. s = IF R!used(h) < floor THEN floored ELSE h
  BY DEF R!eip7623_check_gas_floor
<1> HIDE DEF s
<1>7. CASE spent - back < floor
  <2>1. left = g.limit - floor /\ left \in Nat /\ zero \in Nat /\ left + zero = g.limit - floor
    BY <1>1, <1>3
  <2> HIDE DEF h, zero, left
  <2>2. s = floored
    BY <1>5, <1>6, <1>7
  <2>3. s \in GasType /\ s.limit = g.limit /\ s.remaining = left /\ s.refunded = zero
    BY Zenon, <1>1, <1>3, <1>4, <2>1, <2>2 DEF GasType
  <2>4. R!used(s) = g.limit - left - zero
    BY <2>3 DEF R!used, R!spent
  <2>5. R!used(s) = floor
    BY <1>1, <2>1, <2>4 DEF zero
  <2> QED
    BY <2>1, <2>3, <2>5 DEF s, h
<1>8. CASE ~ (spent - back < floor)
  <2>1. s = [limit |-> g.limit, remaining |-> g.remaining, refunded |-> back]
    BY <1>3, <1>5, <1>6, <1>8
  <2>2. R!used(s) = spent - back
    BY <2>1 DEF R!used, R!spent
  <2>3. s \in GasType /\ s.limit = g.limit /\ s.remaining + s.refunded = g.limit - (spent - back)
    BY <1>1, <1>4, <2>1 DEF GasType
  <2>4. spent - back \in 0..g.limit
    BY <1>1, <1>4
  <2> QED
    BY <2>2, <2>3, <2>4 DEF s, h
<1> QED
  BY <1>7, <1>8

-----------------------------------------------------------------------------
(* The inductive invariant *)
State == [acc : [Addresses -> Account], attrs : {Attributes[n] : n \in 1..LastBlock}, supply : Int]

SystemCall == call.op \in System

Fetched == try_fetch(L1BlockStorage(Attributes[block.number]), block.number, env.op)

(* The types of the variables. *)
Types ==
    /\ Drafted /\ tx \in TxType /\ l1 \in L1Info
    /\ db \in State /\ view \in State /\ base \in State
    /\ pc \in {"idle", "validate", "pre", "execution", "post", "result", "caught", "return"}
    /\ DOMAIN call = {"op", "rest", "start", "done", "error"}
    /\ call.rest \in Seq(TxType) /\ call.done \in Nat
    /\ DOMAIN run = {"gas", "result", "sent", "error"}
    /\ run.gas \in GasType /\ run.sent \in Nat
    /\ calls \in 0..env.calls /\ warm \subseteq Addresses

(* Where a call is, and what it carries. *)
Control ==
    /\ pc # "idle" => call.op \in env.ops
    /\ pc # "idle" => IF SystemCall THEN tx = SystemTx /\ call.rest = <<>> ELSE SentOn(env.chain, tx)
    /\ pc # "idle" => \A i \in DOMAIN call.rest : SentOn(env.chain, call.rest[i])
    /\ pc = "idle" => tx = NoTx \/ SentOn(env.chain, tx) \/ (tx = SystemTx /\ env.ops \cap System # {})
    /\ pc \in {"validate", "pre", "post"} => ~ SystemCall
    /\ pc \notin {"idle", "return"} => call.error = "none"
    /\ pc \in {"validate", "pre", "execution"} => run = NoRun
    /\ pc \in {"post", "result"} => run.error = "none" \/ (run.error = "Database" /\ ~ IsOp)
    /\ pc = "caught" => run.error # "none" /\ (IsOp => run.error # "Database")

(* The transaction as its trait shows it. *)
LEMMA TxIsTyped ==
    ASSUME tx \in TxType
    PROVE  /\ T \in TxEnvType /\ T.type = type /\ T.caller = tx.base.caller /\ T.to = tx.base.to
           /\ T.value = tx.base.value /\ T.kind = tx.base.kind /\ T.gas_limit = tx.base.gas_limit
           /\ T.gas_price = tx.base.gas_price /\ Caller = tx.base.caller /\ Minted \in Nat
           /\ Deposit => T.type = DEPOSIT_TRANSACTION_TYPE
           /\ ~ Deposit => T.type = tx.base.type
<1> DEFINE ty == type
<1>1. tx.base \in TxEnvType /\ tx.mint \in Option
  BY DEF TxType
<1>2. ty \in Option
  <2>1. tx.base.type \in Option
    BY <1>1 DEF TxEnvType
  <2> QED
    BY <2>1 DEF type, op_tx_type, DEPOSIT_TRANSACTION_TYPE, Option
<1>3. T = [tx.base EXCEPT !.type = ty]
  BY DEF T
<1>4. Minted \in Nat
  BY <1>1 DEF Minted, Or, Option
<1>5. (Deposit => ty = DEPOSIT_TRANSACTION_TYPE) /\ (~ Deposit => ty = tx.base.type)
  BY DEF type, Deposit, op_tx_type, is_deposit
<1> HIDE DEF ty
<1>6. T \in TxEnvType
  BY Zenon, <1>1, <1>2, <1>3 DEF TxEnvType
<1>7. /\ T.type = ty /\ T.caller = tx.base.caller /\ T.to = tx.base.to
      /\ T.value = tx.base.value /\ T.kind = tx.base.kind /\ T.gas_limit = tx.base.gas_limit
      /\ T.gas_price = tx.base.gas_price
  <2>1. {"type", "caller", "to", "value", "kind", "gas_limit", "gas_price"} \subseteq DOMAIN tx.base
    BY <1>1 DEF TxEnvType
  <2> QED
    BY <1>3, <2>1
<1> QED
  BY <1>4, <1>5, <1>6, <1>7 DEF Caller, ty

(* What depends on the environment and on the transaction only. *)
LEMMA SameTx ==
    ASSUME env' = env, tx' = tx
    PROVE  /\ T' = T /\ type' = type /\ Caller' = Caller /\ Target' = Target /\ Minted' = Minted
           /\ SystemTx' = SystemTx
           /\ (IsOp' <=> IsOp) /\ (Deposit' <=> Deposit) /\ (Regolith' <=> Regolith)
<1>1. (IsOp' <=> IsOp) /\ (Deposit' <=> Deposit) /\ (Regolith' <=> Regolith)
  BY DEF IsOp, Deposit, Regolith
<1>2. type' = type /\ Minted' = Minted /\ SystemTx' = SystemTx
  BY Zenon, <1>1 DEF type, Minted, SystemTx
<1>3. T' = T
  BY <1>2 DEF T
<1> QED
  BY <1>1, <1>2, <1>3 DEF Caller, Target

(* The transaction of a call of the system. *)
LEMMA SystemTxIs ==
    ASSUME env \in Envs
    PROVE  /\ SystemTx \in TxType /\ SystemTx # NoTx
           /\ SystemTx.base.caller = "system" /\ SystemTx.base.to = "bob" /\ SystemTx.base.kind = "call"
           /\ SystemTx.base.value = 0 /\ SystemTx.base.auths = 0 /\ SystemTx.base.type = Legacy
           /\ SystemTx.base.gas_limit \in Nat
           /\ SystemTx.source_hash = 0
           /\ IsOp => SystemTx.envelope = "empty"
           /\ ~ IsOp => SystemTx.envelope = "none"
<1> DEFINE b == [NewBuilder EXCEPT !.caller = "system", !.to = "bob", !.gas_limit = SYSTEM_GAS_LIMIT]
           t == new_system_tx("system", "bob")
           e == IF IsOp THEN "empty" ELSE "none"
<1>1. SYSTEM_GAS_LIMIT \in Nat
  BY DEF SYSTEM_GAS_LIMIT
<1>2. "system" \in Addresses /\ "bob" \in Addresses /\ e \in DOMAIN Envelopes \cup {"none"}
  BY GenesisAssumption
<1> DEFINE caller == "system"
           to == "bob"
           gas_limit == SYSTEM_GAS_LIMIT
<1>3. b \in TxEnvType
  <2> HIDE DEF caller, to, gas_limit
  <2>1. caller \in Addresses \cup {"zero"} /\ to \in Addresses \cup {"zero"} /\ gas_limit \in Nat
    BY <1>1, <1>2 DEF caller, to, gas_limit
  <2>2. [NewBuilder EXCEPT !.caller = caller, !.to = to, !.gas_limit = gas_limit] \in TxEnvType
    BY Zenon, <2>1, BuildersStart DEF TxEnvType
  <2> QED
    BY <2>2 DEF caller, to, gas_limit
<1>4. /\ b.type = None /\ b.priority = None /\ b.access = 0 /\ b.blobs = <<>> /\ b.max_blob_fee = 0
      /\ b.auths = 0 /\ b.value = 0 /\ b.kind = "call" /\ b.caller = "system" /\ b.to = "bob"
      /\ b.gas_limit = SYSTEM_GAS_LIMIT
  BY DEF NewBuilder
<1>5. {"type", "caller", "gas_limit", "kind", "to", "value", "auths", "priority", "access", "blobs", "max_blob_fee"}
          \subseteq DOMAIN b
  BY DEF NewBuilder
<1>6. t = build(b).tx
  BY DEF new_system_tx
<1> HIDE DEF b, t
<1>7. t = [[b EXCEPT !.type = Legacy] EXCEPT !.type = Legacy]
  <2> DEFINE u == Typed(b)
  <2>1. u = [b EXCEPT !.type = Legacy]
    BY <1>4 DEF Typed, Or
  <2>2. /\ u.type = Legacy /\ u.priority = None /\ u.access = 0 /\ u.blobs = <<>> /\ u.max_blob_fee = 0
        /\ u.auths = 0
    BY <1>4, <1>5, <2>1
  <2> HIDE DEF u
  <2>3. derive_tx_type(u).tx = [u EXCEPT !.type = Legacy]
    BY <2>2 DEF derive_tx_type, Built, BuildError
  <2> QED
    BY <1>4, <1>6, <2>1, <2>3 DEF build, u
<1>8. /\ t.caller = "system" /\ t.to = "bob" /\ t.kind = "call" /\ t.value = 0 /\ t.auths = 0
      /\ t.type = Legacy /\ t.gas_limit = SYSTEM_GAS_LIMIT
  BY <1>4, <1>5, <1>7
<1>9. t \in TxEnvType
  <2> DEFINE ty == Legacy
  <2>1. ty \in Option
    BY DEF Option, Legacy
  <2>2. t = [[b EXCEPT !.type = ty] EXCEPT !.type = ty]
    BY <1>7
  <2> HIDE DEF ty
  <2>3. [b EXCEPT !.type = ty] \in TxEnvType
    BY <1>3, <2>1 DEF TxEnvType
  <2> QED
    BY Zenon, <2>1, <2>2, <2>3 DEF TxEnvType
<1>10. NoTx = NewOpBuilder
  BY DEF NoTx, NewOpBuilder
<1> HIDE DEF e
<1>11. SystemTx = [NoTx EXCEPT !.base = t, !.envelope = e]
  BY DEF SystemTx, t, e
<1>12. SystemTx \in TxType
  BY Zenon, <1>2, <1>9, <1>10, <1>11, BuildersStart DEF TxType
<1>13. SystemTx.base = t /\ SystemTx.envelope = e /\ SystemTx.source_hash = 0
  BY <1>11 DEF NoTx
<1>14. NoTx.base.caller = "zero"
  BY DEF NoTx, NewBuilder
<1>15. SystemTx # NoTx
  BY <1>8, <1>13, <1>14
<1> QED
  BY <1>1, <1>8, <1>12, <1>13, <1>15 DEF e

(* What all the calls of the program that execute something start with. *)
Begins(op, t, rest) ==
    /\ Begin(op, t, rest) /\ op \in env.ops
    /\ t \in TxType /\ rest \in Seq(TxType)
    /\ IF op \in System THEN t = SystemTx /\ rest = <<>>
       ELSE /\ SentOn(env.chain, t) /\ Sendable(t)
            /\ \A i \in DOMAIN rest : SentOn(env.chain, rest[i]) /\ Sendable(rest[i])

(* A call of the system is none of the others. *)
LEMMA SystemIsApart ==
    {"transact_one", "transact", "transact_commit"} \cap System = {} /\ Many \cap System = {} /\ Replays \cap System = {}
BY DEF System, Many, Replays

(* Every call begins by handing its handler a transaction and what comes after it. *)
LEMMA CallsBegin ==
    ASSUME Types, Control, Calls
    PROVE  (\E op, t, rest : Begins(op, t, rest)) \/ SetBlock \/ Finalize \/ Draft
<1>1. env \in Envs /\ tx \in TxType
  BY DEF Types, Drafted
<1>2. /\ \A t \in Txs[env.txs] : t \in TxType /\ SentOn(env.chain, t)
      /\ \A ts \in Batches[env.txs] :
            ts \in Seq(TxType) /\ ts # <<>> /\ \A i \in DOMAIN ts : SentOn(env.chain, ts[i])
      /\ IsOp => env.ops \cap Replays = {} \/ env.ops \cap System = {}
  BY <1>1, EnvsAssumption DEF IsOp
<1>3. <<>> \in Seq(TxType) /\ DOMAIN <<>> = {}
  OBVIOUS
<1>4. ASSUME NEW op \in {"transact_one", "transact", "transact_commit"} \cap env.ops, transact(op)
      PROVE  \E t, rest : Begins(op, t, rest)
  <2>1. PICK t \in Txs[env.txs] : Sendable(t) /\ Begin(op, t, <<>>)
    BY <1>4 DEF transact
  <2>2. op \notin System
    BY SystemIsApart
  <2>3. Begins(op, t, <<>>)
    BY <1>2, <1>3, <2>1, <2>2 DEF Begins
  <2> QED
    BY <2>3
<1>5. ASSUME NEW op \in Many \cap env.ops, transact_many(op)
      PROVE  \E t, rest : Begins(op, t, rest)
  <2>1. PICK ts \in Batches[env.txs] : (\A i \in DOMAIN ts : Sendable(ts[i])) /\ Begin(op, ts[1], Tail(ts))
    BY <1>5 DEF transact_many
  <2>2. op \notin System
    BY SystemIsApart
  <2>3. ts \in Seq(TxType) /\ ts # <<>> /\ \A i \in DOMAIN ts : SentOn(env.chain, ts[i])
    BY <1>2
  <2>4. 1 \in DOMAIN ts /\ ts[1] \in TxType /\ Tail(ts) \in Seq(TxType)
    BY <2>3
  <2>5. \A i \in DOMAIN Tail(ts) : i + 1 \in DOMAIN ts /\ Tail(ts)[i] = ts[i + 1]
    BY <2>3
  <2> DEFINE rest == Tail(ts)
  <2>6. \A i \in DOMAIN rest : SentOn(env.chain, rest[i]) /\ Sendable(rest[i])
    BY <2>1, <2>3, <2>5
  <2> HIDE DEF rest
  <2>7. Begins(op, ts[1], rest)
    BY <2>1, <2>2, <2>3, <2>4, <2>6 DEF Begins, rest
  <2> QED
    BY <2>7
<1>6. ASSUME NEW op \in Replays \cap env.ops, replay(op)
      PROVE  \E t, rest : Begins(op, t, rest)
  <2>1. tx # NoTx /\ Sendable(tx) /\ Begin(op, tx, <<>>) /\ pc = "idle"
    BY Zenon, <1>6 DEF replay, Begin, Idle
  <2>2. op \notin System
    BY SystemIsApart
  <2>3. SentOn(env.chain, tx)
    <3>1. CASE tx = SystemTx /\ env.ops \cap System # {}
      <4>1. ~ IsOp
        BY <1>2, <3>1
      <4>2. tx.base.caller \in Addresses /\ tx.base.to \in Addresses /\ tx.base.auths = 0
        BY <1>1, <3>1, SystemTxIs, GenesisAssumption
      <4>3. tx.base.type \in Legacy..Eip7702 /\ ~ Free(tx.envelope)
        <5>1. tx.base.type = Legacy /\ tx.envelope = "none"
          BY <1>1, <3>1, <4>1, SystemTxIs
        <5> QED
          BY <5>1 DEF Legacy, Eip7702, Free
      <4> QED
        BY <4>1, <4>2, <4>3 DEF SentOn, IsOp
    <3> QED
      BY <2>1, <3>1 DEF Control
  <2>4. Begins(op, tx, <<>>)
    BY <1>1, <1>3, <2>1, <2>2, <2>3 DEF Begins
  <2> QED
    BY <2>4
<1>7. ASSUME NEW op \in System \cap env.ops, system_call(op)
      PROVE  \E t, rest : Begins(op, t, rest)
  <2>1. Begins(op, SystemTx, <<>>)
    BY <1>1, <1>3, <1>7, SystemTxIs DEF system_call, Begins
  <2> QED
    BY <2>1
<1> QED
  BY <1>4, <1>5, <1>6, <1>7 DEF Calls

(* A step of the system, by what it does. *)
LEMMA Steps ==
    ASSUME Types, Control, [Next]_vars
    PROVE  \/ \E op, t, rest : Begins(op, t, rest)
           \/ SetBlock \/ Finalize \/ Draft
           \/ Validate \/ DeductDeposit \/ Deduct \/ PreFails \/ Execution \/ ExecutionFails
           \/ PostExecution \/ PostFails \/ ExecutionResult \/ ExecutionResultFails
           \/ CatchDeposit \/ CatchError \/ NextTx \/ Return
           \/ UNCHANGED vars
BY CallsBegin DEF Next, Step

(* Validation never reports that the database failed. *)
LEMMA ValidationErrors ==
    ASSUME NEW t, NEW cfg, NEW blk, NEW account, NEW balance
    PROVE  /\ validate_env(t, cfg, blk) # "Database"
           /\ validate_initial_tx_gas(t, cfg) # "Database"
           /\ validate_account_nonce_and_code(account, t, cfg) # "Database"
           /\ ensure_enough_balance(t, balance) # "Database"
<1>1. \A p, f : validate_legacy_gas_price(p, f) # "Database"
  BY DEF validate_legacy_gas_price
<1>2. \A f, u : validate_priority_fee_tx(t, f, u) # "Database"
  BY DEF validate_priority_fee_tx
<1>3. \A p, m : validate_eip4844_tx(t, p, m) # "Database"
  BY DEF validate_eip4844_tx
<1>4. validate_type(t, cfg, blk) # "Database"
  BY <1>1, <1>2, <1>3 DEF validate_type
<1>5. validate_env(t, cfg, blk) # "Database"
  BY <1>4 DEF validate_env, validate_tx_env
<1> QED
  BY <1>5 DEF validate_initial_tx_gas, validate_account_nonce_and_code, ensure_enough_balance

(* The steps of the handler that only look at the call and its transaction. *)
LEMMA ControlStep ==
    ASSUME ~ OpDbErrors, Types, Control, [Next]_vars
    PROVE  Control'
<1> USE DEF SystemCall
<1>1. DOMAIN call = {"op", "rest", "start", "done", "error"} /\ DOMAIN run = {"gas", "result", "sent", "error"}
  BY DEF Types
<1>2. call.rest \in Seq(TxType)
  BY DEF Types
<1>3. ASSUME env' = env PROVE (IsOp' <=> IsOp) /\ SystemTx' = SystemTx
  BY <1>3 DEF IsOp, SystemTx
<1>4. ASSUME Handling, pc # "idle", pc' \notin {"idle", "return"},
             pc' \in {"validate", "pre", "post"} => ~ SystemCall,
             pc' \in {"validate", "pre", "execution"} => run' = NoRun,
             pc' \in {"post", "result"} => run'.error = "none" \/ (run'.error = "Database" /\ ~ IsOp),
             pc' = "caught" => run'.error # "none" /\ (IsOp => run'.error # "Database"),
             pc \notin {"idle", "return"}
      PROVE  Control'
  BY <1>3, <1>4 DEF Control, Handling
<1>5. ASSUME NEW op, NEW t, NEW rest, Begins(op, t, rest) PROVE Control'
  BY <1>3, <1>5 DEF Control, Begins, Begin
<1>6. CASE SetBlock
  BY <1>3, <1>6 DEF Control, SetBlock, Idle
<1>7. CASE Finalize
  BY Zenon, <1>3, <1>7 DEF Control, Finalize, Idle
<1>8. CASE Draft
  BY Zenon, <1>3, <1>8 DEF Control, Draft
<1>9. CASE Validate
  <2>1. pc = "validate" /\ Handling /\ ~ SystemCall /\ run = NoRun
    BY <1>9 DEF Validate, Control
  <2>2. ASSUME NEW e, e # "none", e # "Database", Fail(e) PROVE Control'
    <3>1. pc' = "caught" /\ run'.error = e
      BY <1>1, <2>2 DEF Fail
    <3> QED
      BY <1>4, <2>1, <2>2, <3>1
  <2>3. CASE pc' = "pre" /\ run' = run
    BY <1>4, <2>1, <2>3
  <2>4. op_validate_env # "Database"
    BY ValidationErrors DEF op_validate_env
  <2> QED
    BY <1>9, <2>2, <2>3, <2>4, ValidationErrors DEF Validate, Goto
<1>10. CASE DeductDeposit
  <2>1. pc = "pre" /\ Handling /\ run = NoRun /\ pc' = "execution" /\ run' = run
    BY <1>10 DEF DeductDeposit, Control, Goto
  <2> QED
    BY <1>4, <2>1
<1>11. CASE Deduct
  <2>1. pc = "pre" /\ Handling /\ run = NoRun
    BY Zenon, <1>11 DEF Deduct, Control
  <2>2. ASSUME NEW e, e # "none", e # "Database", Fail(e) PROVE Control'
    <3>1. pc' = "caught" /\ run'.error = e
      BY <1>1, <2>2 DEF Fail
    <3> QED
      BY <1>4, <2>1, <2>2, <3>1
  <2>3. CASE pc' = "execution" /\ run' = run
    BY <1>4, <2>1, <2>3
  <2> QED
    BY <1>11, <2>2, <2>3, ValidationErrors DEF Deduct, Goto
<1>12. ASSUME DbFails, Handling, pc \in {"pre", "execution", "post"} PROVE Control'
  <2>1. ~ IsOp /\ pc' = "caught" /\ run'.error = "Database"
    BY <1>1, <1>12, SettersAssumption DEF DbFails, Fail
  <2> QED
    BY <1>4, <1>12, <2>1
<1>13. CASE PreFails
  BY <1>12, <1>13 DEF PreFails
<1>14. CASE Execution
  <2>1. pc = "execution" /\ Handling
    BY <1>14 DEF Execution
  <2>2. ASSUME NEW r, NEW remaining, NEW refunded, Execute(r, remaining, refunded),
               r = "FatalExternalError" => ~ IsOp
        PROVE  Control'
    <3>1. /\ run'.error = IF r = "FatalExternalError" THEN "Database" ELSE "none"
          /\ pc' = IF call.op \in System THEN "result" ELSE "post"
      BY <2>2 DEF Execute, Goto
    <3> QED
      BY <1>4, <2>1, <2>2, <3>1
  <2> QED
    BY <1>14, <2>2 DEF Execution
<1>15. CASE ExecutionFails
  BY <1>12, <1>15 DEF ExecutionFails
<1>16. CASE PostExecution
  <2>1. pc = "post" /\ Handling /\ pc' = "result" /\ run'.error = run.error
    BY <1>1, <1>16 DEF PostExecution, Goto
  <2>2. run.error = "none" \/ (run.error = "Database" /\ ~ IsOp)
    BY <2>1 DEF Control
  <2> QED
    BY <1>4, <2>1, <2>2
<1>17. CASE PostFails
  BY <1>12, <1>17 DEF PostFails
<1>18. ASSUME NEW v, NEW used, NEW error, Include(v, used, error), pc # "idle" PROVE Control'
  BY <1>3, <1>18 DEF Include, Goto, Control
<1>19. CASE ExecutionResult
  BY <1>18, <1>19 DEF ExecutionResult
<1>20. CASE ExecutionResultFails
  <2>1. pc = "result" /\ Handling /\ pc' = "caught"
    BY <1>20 DEF ExecutionResultFails, Fail
  <2>2. run'.error = IF run.error # "none" THEN run.error ELSE "HaltedDepositPostRegolith"
    BY <1>1, <1>20 DEF ExecutionResultFails, Fail
  <2>3. run.error = "none" \/ (run.error = "Database" /\ ~ IsOp)
    BY <2>1 DEF Control
  <2> QED
    BY <1>4, <2>1, <2>2, <2>3
<1>21. CASE CatchDeposit
  BY <1>18, <1>21 DEF CatchDeposit, FailedDeposit
<1>22. CASE CatchError
  <2>1. pc = "caught" /\ env' = env /\ tx' = tx /\ pc' = "return" /\ call' = [call EXCEPT !.error = run.error]
    BY <1>22 DEF CatchError, Goto
  <2>2. call'.op = call.op /\ call'.rest = call.rest
    BY <1>1, <2>1
  <2> QED
    BY <1>3, <2>1, <2>2 DEF Control
<1>23. CASE NextTx
  <2>1. pc = "return" /\ env' = env /\ run' = NoRun /\ pc' = "validate" /\ call.error = "none"
        /\ call.rest # <<>> /\ tx' = Head(call.rest)
    BY <1>23 DEF NextTx, Goto
  <2>2. call'.op = call.op /\ call'.rest = Tail(call.rest) /\ call'.error = call.error
    BY <1>1, <1>23 DEF NextTx
  <2>3. ~ SystemCall /\ call.op \in env.ops /\ \A i \in DOMAIN call.rest : SentOn(env.chain, call.rest[i])
    BY <2>1 DEF Control
  <2>4. 1 \in DOMAIN call.rest /\ Head(call.rest) = call.rest[1]
    BY <1>2, <2>1
  <2>5. \A i \in DOMAIN Tail(call.rest) : i + 1 \in DOMAIN call.rest /\ Tail(call.rest)[i] = call.rest[i + 1]
    BY <1>2, <2>1
  <2> DEFINE rest == Tail(call.rest)
  <2>6. \A i \in DOMAIN rest : SentOn(env.chain, rest[i])
    BY <2>3, <2>5
  <2>7. SentOn(env.chain, tx')
    BY <2>1, <2>3, <2>4
  <2> HIDE DEF rest
  <2> QED
    BY <1>3, <2>1, <2>2, <2>3, <2>6, <2>7 DEF Control, rest
<1>24. CASE Return
  <2>1. pc = "return" /\ env' = env /\ tx' = tx /\ pc' = "idle"
    BY <1>24 DEF Return, Goto
  <2>2. SentOn(env.chain, tx) \/ (tx = SystemTx /\ env.ops \cap System # {})
    BY <2>1 DEF Control
  <2> QED
    BY <1>3, <2>1, <2>2 DEF Control
<1>25. CASE UNCHANGED vars
  BY <1>3, <1>25 DEF vars, Control
<1> QED
  BY <1>5, <1>6, <1>7, <1>8, <1>9, <1>10, <1>11, <1>13, <1>14, <1>15, <1>16, <1>17, <1>19, <1>20, <1>21,
     <1>22, <1>23, <1>24, <1>25, Steps

=============================================================================
