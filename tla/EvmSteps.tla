------------------------------ MODULE EvmSteps ------------------------------
(***************************************************************************)
(* What each step of the handler of Evm does to the accounts, the fees and *)
(* the gas: one lemma per step, from deduct_caller to the inclusion of the *)
(* result, and that every step keeps the types.                            *)
(***************************************************************************)
EXTENDS EvmFacts

(* The provers a leaf that names none is given to, in turn. *)
USE SMTT(20), ZenonT(20), Z3T(20)

-----------------------------------------------------------------------------
(* What the steps use of a sum over the accounts: it is a number, and when one value changes it     *)
(* changes by as much.  EvmProofs proves it; until then the lemmas that need it assume it.          *)
SumsAddUp ==
    /\ \A f \in [Addresses -> Int] : SumFunction(f) \in Int
    /\ \A f, g \in [Addresses -> Int], x \in Addresses :
          (\A y \in Addresses : y # x => g[y] = f[y]) => SumFunction(g) = SumFunction(f) + (g[x] - f[x])

-----------------------------------------------------------------------------
(* The journal and its sums *)

(* The parts of a state are what their types say. *)
LEMMA StateParts ==
    ASSUME SumsAddUp, NEW v \in State
    PROVE  /\ v.acc \in [Addresses -> Account] /\ v.supply \in Int
           /\ v.attrs \in {Attributes[n] : n \in 1..LastBlock}
           /\ \A a \in Addresses : v.acc[a] \in Account /\ v.acc[a].balance \in Nat /\ v.acc[a].nonce \in Nat
           /\ Balances(v) \in Int /\ Nonces(v) \in Int
<1>1. v.acc \in [Addresses -> Account] /\ v.supply \in Int /\ v.attrs \in {Attributes[n] : n \in 1..LastBlock}
  BY DEF State
<1>2. \A a \in Addresses : v.acc[a] \in Account /\ v.acc[a].balance \in Nat /\ v.acc[a].nonce \in Nat
  BY <1>1 DEF Account
<1>3. [a \in Addresses |-> v.acc[a].balance] \in [Addresses -> Int] /\ [a \in Addresses |-> v.acc[a].nonce] \in [Addresses -> Int]
  BY <1>2
<1>4. Balances(v) \in Int /\ Nonces(v) \in Int
  BY <1>3 DEF Balances, Nonces, SumsAddUp
<1> QED
  BY <1>1, <1>2, <1>4

(* Two states with the same numbers everywhere but at one account differ by that account. *)
LEMMA OneAccount ==
    ASSUME SumsAddUp, NEW v \in State, NEW w \in State, NEW a \in Addresses,
           \A b \in Addresses : b # a => w.acc[b].balance = v.acc[b].balance /\ w.acc[b].nonce = v.acc[b].nonce
    PROVE  /\ Balances(w) = Balances(v) + (w.acc[a].balance - v.acc[a].balance)
           /\ Nonces(w) = Nonces(v) + (w.acc[a].nonce - v.acc[a].nonce)
<1> DEFINE f == [b \in Addresses |-> v.acc[b].balance]
           g == [b \in Addresses |-> w.acc[b].balance]
           m == [b \in Addresses |-> v.acc[b].nonce]
           n == [b \in Addresses |-> w.acc[b].nonce]
<1>1. f \in [Addresses -> Int] /\ g \in [Addresses -> Int] /\ m \in [Addresses -> Int] /\ n \in [Addresses -> Int]
  BY StateParts
<1>2. \A b \in Addresses : b # a => g[b] = f[b] /\ n[b] = m[b]
  OBVIOUS
<1>3. g[a] = w.acc[a].balance /\ f[a] = v.acc[a].balance /\ n[a] = w.acc[a].nonce /\ m[a] = v.acc[a].nonce
  OBVIOUS
<1>4. Balances(w) = SumFunction(g) /\ Balances(v) = SumFunction(f) /\ Nonces(w) = SumFunction(n) /\ Nonces(v) = SumFunction(m)
  BY DEF Balances, Nonces
<1> HIDE DEF f, g, m, n
<1>5. SumFunction(g) = SumFunction(f) + (g[a] - f[a])
  BY <1>1, <1>2 DEF SumsAddUp
<1>6. SumFunction(n) = SumFunction(m) + (n[a] - m[a])
  BY <1>1, <1>2 DEF SumsAddUp
<1> QED
  BY <1>3, <1>4, <1>5, <1>6

(* A balance is set. *)
LEMMA SetBalanceKeeps ==
    ASSUME SumsAddUp, NEW v \in State, NEW a \in Addresses, NEW n \in Nat
    PROVE  LET w == [v EXCEPT !.acc[a].balance = n]
           IN  /\ w \in State /\ w.supply = v.supply /\ w.attrs = v.attrs
               /\ \A b \in Addresses : w.acc[b].nonce = v.acc[b].nonce /\ w.acc[b].code = v.acc[b].code
               /\ \A b \in Addresses : w.acc[b].balance = IF b = a THEN n ELSE v.acc[b].balance
               /\ Balances(w) = Balances(v) + (n - v.acc[a].balance) /\ Nonces(w) = Nonces(v)
<1> DEFINE w == [v EXCEPT !.acc[a].balance = n]
<1>1. v.acc \in [Addresses -> Account] /\ \A b \in Addresses : v.acc[b] \in Account
  BY StateParts
<1>2. w.acc = [v.acc EXCEPT ![a].balance = n] /\ w.supply = v.supply /\ w.attrs = v.attrs
  BY DEF State
<1>3. \A b \in Addresses : w.acc[b] = IF b = a THEN [v.acc[a] EXCEPT !.balance = n] ELSE v.acc[b]
  BY <1>1, <1>2
<1>4. [v.acc[a] EXCEPT !.balance = n] \in Account
  BY <1>1 DEF Account
<1>5. w.acc \in [Addresses -> Account]
  BY <1>1, <1>2, <1>4
<1>6. w \in State
  BY <1>2, <1>5 DEF State
<1>7. \A b \in Addresses : w.acc[b].nonce = v.acc[b].nonce /\ w.acc[b].code = v.acc[b].code
  BY <1>1, <1>3 DEF Account
<1>8. \A b \in Addresses : w.acc[b].balance = IF b = a THEN n ELSE v.acc[b].balance
  BY <1>1, <1>3 DEF Account
<1> HIDE DEF w
<1>9. /\ Balances(w) = Balances(v) + (w.acc[a].balance - v.acc[a].balance)
      /\ Nonces(w) = Nonces(v) + (w.acc[a].nonce - v.acc[a].nonce)
  BY <1>6, <1>7, <1>8, OneAccount
<1>10. Nonces(w) = Nonces(v)
  BY <1>7, <1>9, StateParts
<1> QED
  BY <1>2, <1>6, <1>7, <1>8, <1>9, <1>10 DEF w

(* A balance is changed by an amount that it covers. *)
Credited(v, w, a, n) ==
    /\ w \in State /\ w.supply = v.supply /\ w.attrs = v.attrs
    /\ \A b \in Addresses : w.acc[b].nonce = v.acc[b].nonce /\ w.acc[b].code = v.acc[b].code
    /\ \A b \in Addresses : w.acc[b].balance = v.acc[b].balance + (IF b = a THEN n ELSE 0)
    /\ Balances(w) = Balances(v) + n /\ Nonces(w) = Nonces(v)

LEMMA CreditKeeps ==
    ASSUME SumsAddUp, NEW v \in State, NEW a \in Addresses, NEW n \in Int, v.acc[a].balance + n \in Nat
    PROVE  Credited(v, Credit(v, a, n), a, n)
<1> DEFINE sum == v.acc[a].balance + n
           w == [v EXCEPT !.acc[a].balance = sum]
<1>1. \A b \in Addresses : v.acc[b].balance \in Nat
  BY StateParts
<1>2. Balances(v) \in Int
  BY StateParts
<1>3. Credit(v, a, n) = w
  BY DEF Credit, State
<1>4. sum \in Nat /\ sum - v.acc[a].balance = n
  BY <1>1
<1> HIDE DEF sum
<1>5. /\ w \in State /\ w.supply = v.supply /\ w.attrs = v.attrs
      /\ \A b \in Addresses : w.acc[b].nonce = v.acc[b].nonce /\ w.acc[b].code = v.acc[b].code
      /\ \A b \in Addresses : w.acc[b].balance = IF b = a THEN sum ELSE v.acc[b].balance
      /\ Balances(w) = Balances(v) + (sum - v.acc[a].balance) /\ Nonces(w) = Nonces(v)
  BY ZenonT(30), <1>4, SetBalanceKeeps
<1> HIDE DEF w
<1>6. \A b \in Addresses : w.acc[b].balance = v.acc[b].balance + (IF b = a THEN n ELSE 0)
  BY <1>1, <1>5 DEF sum
<1> QED
  BY Zenon, <1>3, <1>4, <1>5, <1>6 DEF Credited

(* A nonce is used up. *)
LEMMA BumpNonceKeeps ==
    ASSUME SumsAddUp, NEW v \in State, NEW a \in Addresses
    PROVE  LET w == BumpNonce(v, a)
           IN  /\ w \in State /\ w.supply = v.supply /\ w.attrs = v.attrs
               /\ \A b \in Addresses : w.acc[b].balance = v.acc[b].balance /\ w.acc[b].code = v.acc[b].code
               /\ \A b \in Addresses : w.acc[b].nonce = v.acc[b].nonce + (IF b = a THEN 1 ELSE 0)
               /\ Balances(w) = Balances(v) /\ Nonces(w) = Nonces(v) + 1
<1> DEFINE n == v.acc[a].nonce + 1
           w == [v EXCEPT !.acc[a].nonce = n]
<1>1. v.acc \in [Addresses -> Account] /\ \A b \in Addresses : v.acc[b] \in Account /\ v.acc[b].nonce \in Nat
  BY StateParts
<1>2. BumpNonce(v, a) = w
  BY DEF BumpNonce, State
<1>3. n \in Nat
  BY <1>1
<1> HIDE DEF n
<1>4. w.acc = [v.acc EXCEPT ![a].nonce = n] /\ w.supply = v.supply /\ w.attrs = v.attrs
  BY DEF State
<1>5. \A b \in Addresses : w.acc[b] = IF b = a THEN [v.acc[a] EXCEPT !.nonce = n] ELSE v.acc[b]
  BY <1>1, <1>4
<1>6. [v.acc[a] EXCEPT !.nonce = n] \in Account
  BY <1>1, <1>3 DEF Account
<1>7. w.acc \in [Addresses -> Account]
  BY <1>1, <1>4, <1>6
<1>8. w \in State
  BY <1>4, <1>7 DEF State
<1>9. \A b \in Addresses : w.acc[b].balance = v.acc[b].balance /\ w.acc[b].code = v.acc[b].code
  BY <1>1, <1>5 DEF Account
<1>10. \A b \in Addresses : w.acc[b].nonce = IF b = a THEN n ELSE v.acc[b].nonce
  BY <1>1, <1>5 DEF Account
<1> HIDE DEF w
<1>11. \A b \in Addresses : w.acc[b].nonce = v.acc[b].nonce + (IF b = a THEN 1 ELSE 0)
  BY <1>1, <1>10 DEF n
<1>12. /\ Balances(w) = Balances(v) + (w.acc[a].balance - v.acc[a].balance)
       /\ Nonces(w) = Nonces(v) + (w.acc[a].nonce - v.acc[a].nonce)
  BY <1>8, <1>9, <1>10, OneAccount
<1>13. Balances(v) \in Int /\ Nonces(v) \in Int /\ v.acc[a].balance \in Nat
  BY StateParts
<1>14. Balances(w) = Balances(v) /\ Nonces(w) = Nonces(v) + 1
  BY <1>1, <1>9, <1>11, <1>12, <1>13
<1> QED
  BY <1>2, <1>4, <1>8, <1>9, <1>11, <1>14

-----------------------------------------------------------------------------
(* The transaction in its environment *)

(* A transaction of Optimism before Regolith is priced by the rules of the Merge: without a floor. *)
LEMMA NoFloorBeforeRegolith ==
    ASSUME NEW t, NEW cfg, NEW op \in DOMAIN OpForks, cfg.spec = into_eth_spec(op), ~ OpEnabled(op, "REGOLITH")
    PROVE  InitialAndFloor(t, cfg).floor = 0
<1>1. DOMAIN OpForks = 1..11
  BY OpForkOrder
<1>2. \A i \in 1..11 : /\ OpForks[i] = "REGOLITH" => i = 2
                       /\ OpForks[i] = "CANYON" => i = 3
                       /\ OpForks[i] = "HOLOCENE" => i = 7
                       /\ OpForks[i] = "INTEROP" => i = 10
  BY DEF OpForks
<1>3. OpForks[2] = "REGOLITH" /\ OpForks[3] = "CANYON" /\ OpForks[7] = "HOLOCENE" /\ OpForks[10] = "INTEROP"
  BY DEF OpForks
<1>4. OpFork("REGOLITH") = 2 /\ OpFork("CANYON") = 3 /\ OpFork("HOLOCENE") = 7 /\ OpFork("INTEROP") = 10
  BY <1>1, <1>2, <1>3 DEF OpFork
<1>5. op = 1
  BY <1>1, <1>4 DEF OpEnabled
<1>6. into_eth_spec(op) = Fork("MERGE")
  BY <1>4, <1>5, OpForkOrder DEF into_eth_spec
<1>7. Fork("MERGE") = 16 /\ Fork("PRAGUE") = 19
  <2>1. Specs = 1..21
    BY DEF Specs, Forks
  <2>2. \A i \in 1..21 : (Forks[i] = "MERGE" => i = 16) /\ (Forks[i] = "PRAGUE" => i = 19)
    BY DEF Forks
  <2>3. Forks[16] = "MERGE" /\ Forks[19] = "PRAGUE"
    BY DEF Forks
  <2> QED
    BY <2>1, <2>2, <2>3 DEF Fork
<1>8. ~ Enabled(cfg.spec, "PRAGUE")
  BY <1>6, <1>7 DEF Enabled
<1> QED
  BY <1>8 DEF InitialAndFloor, floor_gas

(* What the environment and the block are made of. *)
LEMMA EnvParts ==
    ASSUME Drafted
    PROVE  /\ env.op \in DOMAIN OpForks /\ block.number \in Nat /\ block.number \in 1..LastBlock
           /\ block.basefee \in Nat /\ Or(block.blob_price, 0) \in Nat /\ block.beneficiary \in Addresses
           /\ env.calls \in Nat
           /\ env.cfg.disable_balance_check \in BOOLEAN /\ env.cfg.disable_base_fee \in BOOLEAN
           /\ env.cfg.disable_fee_charge \in BOOLEAN
           /\ IsOp => env.cfg.spec = into_eth_spec(env.op) /\ Enabled(env.cfg.spec, "LONDON")
<1>1. env \in EnvType /\ (IsOp => env.cfg.spec = into_eth_spec(env.op))
  BY EnvsAssumption DEF Drafted, IsOp
<1>2. env.op \in DOMAIN OpForks /\ env.cfg \in CfgType /\ env.calls \in Nat
  BY <1>1 DEF EnvType
<1>3. env.cfg.disable_balance_check \in BOOLEAN /\ env.cfg.disable_base_fee \in BOOLEAN
      /\ env.cfg.disable_fee_charge \in BOOLEAN
  BY <1>2 DEF CfgType
<1>4. block.number \in 1..LastBlock /\ block.basefee \in Nat /\ block.blob_price \in Option
      /\ block.beneficiary \in Addresses
  BY DEF Drafted, BlockType
<1>5. block.number \in Nat
  BY <1>4, AttributesAssumption
<1>6. Or(block.blob_price, 0) \in Nat
  BY <1>4 DEF Or, Option
<1> QED
  BY <1>1, <1>2, <1>3, <1>4, <1>5, <1>6, OpIsAfterLondon

(* What a transaction that is being handled is made of. *)
LEMMA TxParts ==
    ASSUME Types, Control, pc # "idle"
    PROVE  /\ T \in TxEnvType /\ Caller \in Addresses /\ Target \in Addresses /\ Minted \in Nat
           /\ T.gas_limit \in Nat /\ T.value \in Nat /\ T.kind \in {"call", "create"}
           /\ Numbers(T, block.basefee, Or(block.blob_price, 0))
           /\ Price \in Nat /\ Price <= T.gas_price
           /\ Deposit => ~ SystemCall /\ Price = 0 /\ T.type = DEPOSIT_TRANSACTION_TYPE
           /\ ~ Deposit => T.type \in Legacy..Eip7702 /\ Minted = 0
           /\ IsOp /\ ~ Deposit /\ ~ SystemCall => ~ Free(tx.envelope)
<1>1. tx \in TxType /\ Drafted /\ env \in Envs
  BY DEF Types, Drafted
<1>2. /\ T \in TxEnvType /\ T.to = tx.base.to /\ T.gas_price = tx.base.gas_price
      /\ Caller = tx.base.caller /\ Minted \in Nat
      /\ Deposit => T.type = DEPOSIT_TRANSACTION_TYPE
      /\ ~ Deposit => T.type = tx.base.type
  BY <1>1, TxIsTyped
<1>5. /\ tx.base.caller \in Addresses /\ tx.base.to \in Addresses
      /\ Deposit => ~ SystemCall /\ tx.base.gas_price = 0
      /\ ~ Deposit => tx.base.type \in Legacy..Eip7702
      /\ IsOp /\ ~ Deposit /\ ~ SystemCall => ~ Free(tx.envelope)
  <2>1. SystemCall => /\ tx.base.caller \in Addresses /\ tx.base.to \in Addresses
                      /\ ~ Deposit /\ tx.base.type \in Legacy..Eip7702
    <3> SUFFICES ASSUME SystemCall PROVE tx.base.caller \in Addresses /\ tx.base.to \in Addresses
                                         /\ ~ Deposit /\ tx.base.type \in Legacy..Eip7702
      OBVIOUS
    <3>1. tx = SystemTx
      BY DEF Control
    <3>2. tx.base.caller \in Addresses /\ tx.base.to \in Addresses /\ tx.base.type = Legacy /\ tx.source_hash = 0
      BY <1>1, <3>1, SystemTxIs, GenesisAssumption
    <3> QED
      BY <3>2 DEF Deposit, is_deposit, op_tx_type, DEPOSIT_TRANSACTION_TYPE, Legacy, Eip7702
  <2>2. ~ SystemCall => /\ tx.base.caller \in Addresses /\ tx.base.to \in Addresses
                        /\ Deposit => tx.base.gas_price = 0
                        /\ ~ Deposit => tx.base.type \in Legacy..Eip7702 /\ ~ Free(tx.envelope)
    BY DEF Control, SentOn, Deposit, IsOp
  <2> QED
    BY <2>1, <2>2
<1>6. Target \in Addresses
  BY <1>2, <1>5, GenesisAssumption DEF Target
<1>7. Numbers(T, block.basefee, Or(block.blob_price, 0))
  BY <1>1, <1>2, EnvParts, TxNumbers, WidthAssumption DEF Numbers, Option
<1>8. Price \in Nat /\ Price <= T.gas_price
  <2>1. Numbers(T, block.basefee, 0)
    BY <1>7 DEF Numbers
  <2> QED
    BY <2>1, EffectivePriceIsLess DEF Price
<1>9. Deposit => Price = 0
  BY <1>2, <1>5 DEF Price, effective_gas_price
<1>10. T.gas_limit \in Nat /\ T.value \in Nat /\ T.kind \in {"call", "create"}
  BY <1>2, TxNumbers
<1>11. ~ Deposit => Minted = 0
  BY DEF Minted
<1> QED
  BY <1>2, <1>5, <1>6, <1>7, <1>8, <1>9, <1>10, <1>11

(* The L1 cost that is remembered is apart from what it was computed from. *)
LEMMA L1Remembers ==
    ASSUME NEW info \in L1Info, NEW c \in Option
    PROVE  LET i == [info EXCEPT !.tx_l1_cost = c]
           IN  /\ i \in L1Info /\ i.tx_l1_cost = c /\ i.l2_block = info.l2_block
               /\ i.operator_fee_scalar = info.operator_fee_scalar
               /\ i.operator_fee_constant = info.operator_fee_constant
               /\ clear_tx_l1_cost(i) = clear_tx_l1_cost(info)
               /\ c = info.tx_l1_cost => i = info
<1> DEFINE i == [info EXCEPT !.tx_l1_cost = c]
<1>1. i \in L1Info /\ i.tx_l1_cost = c /\ i.l2_block = info.l2_block
      /\ i.operator_fee_scalar = info.operator_fee_scalar /\ i.operator_fee_constant = info.operator_fee_constant
  BY DEF L1Info
<1> DEFINE none == None
<1> HIDE DEF none
<1>2. [i EXCEPT !.tx_l1_cost = none] = [info EXCEPT !.tx_l1_cost = none]
  BY Zenon
<1>3. clear_tx_l1_cost(i) = clear_tx_l1_cost(info)
  BY <1>2 DEF clear_tx_l1_cost, none
<1>4. c = info.tx_l1_cost => i = info
  BY DEF L1Info
<1> QED
  BY <1>1, <1>3, <1>4

(* The same for forgetting it. *)
LEMMA L1Forgets ==
    ASSUME NEW info \in L1Info
    PROVE  LET i == clear_tx_l1_cost(info)
           IN  /\ i \in L1Info /\ i.tx_l1_cost = None /\ i.l2_block = info.l2_block
               /\ i.operator_fee_scalar = info.operator_fee_scalar
               /\ i.operator_fee_constant = info.operator_fee_constant
               /\ clear_tx_l1_cost(i) = i
               /\ info.tx_l1_cost = None => i = info
<1>1. None \in Option
  BY DEF Option
<1> QED
  BY Zenon, <1>1, L1Remembers DEF clear_tx_l1_cost

(* The attributes of the block are what is fetched from the database that has them. *)
LEMMA FetchedIs ==
    ASSUME SumsAddUp, Types
    PROVE  /\ Fetched \in L1Info /\ Fetched.l2_block = block.number /\ Fetched.tx_l1_cost = None
           /\ clear_tx_l1_cost(Fetched) = Fetched
           /\ OpEnabled(env.op, "ISTHMUS") =>
                 Fetched.operator_fee_scalar \in Nat /\ Fetched.operator_fee_constant \in Nat
           /\ db.attrs.block = block.number => Fetched = try_fetch(L1BlockStorage(db.attrs), block.number, env.op)
<1>1. env.op \in DOMAIN OpForks /\ block.number \in 1..LastBlock /\ block.number \in Nat
  BY EnvParts DEF Types
<1>2. Attributes[block.number] \in AttributesType
  BY <1>1, AttributesAssumption
<1>3. /\ Fetched \in L1Info /\ Fetched.l2_block = block.number /\ Fetched.tx_l1_cost = None
      /\ OpEnabled(env.op, "ISTHMUS") =>
            Fetched.operator_fee_scalar \in Nat /\ Fetched.operator_fee_constant \in Nat
  BY <1>1, <1>2, FetchedInfo DEF Fetched
<1>4. db.attrs.block = block.number => db.attrs = Attributes[block.number]
  <2>1. PICK n \in 1..LastBlock : db.attrs = Attributes[n]
    BY Zenon, StateParts DEF Types
  <2> QED
    BY <2>1, AttributesAssumption
<1> QED
  BY <1>3, <1>4, L1Forgets DEF Fetched

-----------------------------------------------------------------------------
(* What of the journal is not the last finished transaction. *)
Clean ==
    /\ pc \in {"idle", "validate", "pre", "return"} => view = base
    /\ pc = "execution" /\ SystemCall => view = base
    /\ pc = "caught" /\ IsOp /\ ~ Deposit => view = base

(* The attributes of the L1 block that a transaction pays by. *)
Fees ==
    /\ pc # "idle" /\ ~ SystemCall /\ IsOp =>
          /\ ~ is_deposit(tx) => db.attrs.block = block.number
          /\ \A i \in DOMAIN call.rest : ~ is_deposit(call.rest[i]) => db.attrs.block = block.number
    /\ l1.l2_block = None \/ l1.l2_block <= block.number
    /\ l1.l2_block # None /\ OpEnabled(env.op, "ISTHMUS") =>
          l1.operator_fee_scalar \in Nat /\ l1.operator_fee_constant \in Nat
    /\ l1.l2_block = block.number => clear_tx_l1_cost(l1) = Fetched
    /\ ~ IsOp \/ pc \notin {"execution", "post", "result", "caught"} => l1.tx_l1_cost = None
    /\ pc \in {"execution", "post"} /\ ~ SystemCall /\ IsOp /\ ~ Deposit =>
          /\ l1.l2_block = block.number
          /\ l1.tx_l1_cost \in {None, l1_cost(Fetched, tx.envelope, env.op)}

(* The gas of the transaction. *)
GasBounds ==
    /\ pc \in {"pre", "execution", "post"} /\ ~ SystemCall => validate_initial_tx_gas(T, env.cfg) = "none"
    /\ pc \in {"pre", "execution", "post"} /\ ~ SystemCall /\ ~ Deposit =>
          validate_env(T, env.cfg, block) = "none" /\ (IsOp => tx.envelope # "none")
    /\ pc = "post" =>
          /\ run.gas.limit = T.gas_limit /\ run.gas.remaining <= T.gas_limit
          /\ Deposit /\ ~ Regolith => run.gas.refunded = 0 /\ run.gas.remaining \in {0, T.gas_limit}
    /\ pc = "result" /\ ~ SystemCall =>
          /\ run.gas.limit = T.gas_limit /\ R!used(run.gas) \in 0..T.gas_limit
          /\ Deposit /\ ~ Regolith => R!used(run.gas) \in {0, T.gas_limit}

NonceStep ==
    IF SystemCall THEN 0
    ELSE IF pc = "execution" THEN IF T.kind = "call" THEN 1 ELSE 0
    ELSE IF T.kind = "create" /\ run.result = "OutOfFunds" THEN 0 ELSE 1

(* One nonce is used up, and what the transaction sends is there. *)
NonceInv ==
    /\ pc \in {"execution", "post", "result"} =>
          \A a \in Addresses :
              view.acc[a].nonce = base.acc[a].nonce + (IF a = Caller THEN NonceStep ELSE 0)
    /\ pc = "execution" /\ ~ SystemCall /\ ~ Deposit => T.value <= Balance(Caller)
    /\ pc \in {"post", "result"} /\ ~ SystemCall /\ ~ Deposit => run.result # "OutOfFunds"
    /\ pc = "caught" /\ Deposit /\ ~ Regolith => run.result # "OutOfFunds"

(* How many nonces a call has used. *)
Counted ==
    /\ pc \notin {"idle", "return"} => Nonces(base) = Nonces(call.start.base) + call.done
    /\ pc = "return" /\ call.error = "none" =>
          Nonces(base) = Nonces(call.start.base) + call.done + NoncesUsed
    /\ pc # "idle" => call.start.db = db /\ Nonces(call.start.base) \in Int

(* The info that a transaction of Optimism pays by is of this block, whether it was fetched *)
(* now or by a transaction before, and has no cost of a transaction before.                *)
LEMMA RefetchedIs ==
    ASSUME SumsAddUp, Types, Control, Fees, pc = "pre", IsOp, ~ Deposit
    PROVE  /\ refetched \in L1Info /\ refetched.l2_block = block.number /\ refetched.tx_l1_cost = None
           /\ clear_tx_l1_cost(refetched) = Fetched
<1>1. ~ SystemCall /\ ~ is_deposit(tx)
  BY DEF Control, Deposit
<1>2. db.attrs.block = block.number
  BY <1>1 DEF Fees
<1>3. Fetched = try_fetch(L1BlockStorage(db.attrs), block.number, env.op)
  BY <1>2, FetchedIs
<1>4. CASE l1.l2_block = block.number
  <2>1. refetched = l1
    BY <1>4 DEF refetched
  <2> QED
    BY <1>4, <2>1 DEF Types, Fees
<1>5. CASE l1.l2_block # block.number
  <2>1. refetched = Fetched
    BY <1>3, <1>5 DEF refetched
  <2> QED
    BY <2>1, FetchedIs
<1> QED
  BY <1>4, <1>5

(* What an info of this block says of the costs. *)
LEMMA CostsOfBlock ==
    ASSUME SumsAddUp, Types, Control, pc \in {"pre", "execution", "post"}, IsOp, ~ Deposit, ~ SystemCall, tx.envelope # "none",
           NEW info \in L1Info, clear_tx_l1_cost(info) = Fetched
    PROVE  /\ l1_cost(info, tx.envelope, env.op) = l1_cost(Fetched, tx.envelope, env.op)
           /\ l1_cost(Fetched, tx.envelope, env.op) \in Nat
           /\ \A gas : operator_fee_charge(info, tx.envelope, gas, env.op) = operator_fee_charge(Fetched, tx.envelope, gas, env.op)
           /\ \A gas : operator_fee_charge(info, tx.envelope, gas, env.op) = operator_fee_charge_inner(info, gas, env.op)
           /\ OpEnabled(env.op, "ISTHMUS") => info.operator_fee_scalar \in Nat /\ info.operator_fee_constant \in Nat
<1>1. ~ Free(tx.envelope) /\ tx.envelope \in DOMAIN Envelopes
  <2>1. tx.envelope \in DOMAIN Envelopes \cup {"none"}
    BY DEF Types, TxType
  <2> QED
    BY <2>1, TxParts
<1>2. Fetched \in L1Info /\ (OpEnabled(env.op, "ISTHMUS") =>
          Fetched.operator_fee_scalar \in Nat /\ Fetched.operator_fee_constant \in Nat)
  BY FetchedIs
<1>3. info.operator_fee_scalar = Fetched.operator_fee_scalar /\ info.operator_fee_constant = Fetched.operator_fee_constant
  BY L1Forgets
<1>4. l1_cost(info, tx.envelope, env.op) = l1_cost(Fetched, tx.envelope, env.op)
      /\ \A gas : operator_fee_charge_inner(Fetched, gas, env.op) = operator_fee_charge_inner(info, gas, env.op)
  BY L1CostOfAttributes
<1>5. \A gas : operator_fee_charge(info, tx.envelope, gas, env.op) = operator_fee_charge_inner(info, gas, env.op)
               /\ operator_fee_charge(Fetched, tx.envelope, gas, env.op) = operator_fee_charge_inner(Fetched, gas, env.op)
  BY <1>1 DEF operator_fee_charge
<1>6. l1_cost(Fetched, tx.envelope, env.op) \in Nat
  BY <1>1, <1>2, L1CostIsNumber
<1> QED
  BY <1>2, <1>3, <1>4, <1>5, <1>6

-----------------------------------------------------------------------------
(* What a transaction owes *)
BlobFee == IF T.type = Eip4844 THEN SatMul(total_blob_gas(T), Or(block.blob_price, 0), MaxU128) ELSE 0

OperatorFee(gas) ==
    IF OpEnabled(env.op, "ISTHMUS") THEN operator_fee_charge(Fetched, tx.envelope, gas, env.op) ELSE 0

OpFees(gas) == IF IsOp THEN l1_cost(Fetched, tx.envelope, env.op) + OperatorFee(gas) ELSE 0

Owed(gas) == IF Deposit THEN - Minted ELSE gas * Price + BlobFee + OpFees(gas)

(* What spending computes when it does not overflow. *)
LEMMA SpendingValue ==
    ASSUME NEW t, NEW price \in Nat, NEW blob_price \in Nat, Numbers(t, 0, blob_price)
    PROVE  LET fee == IF t.type = Eip4844 THEN SatMul(total_blob_gas(t), blob_price, MaxU128) ELSE 0
           IN  /\ fee \in Nat /\ t.gas_limit * price \in Nat /\ spending(t, price, blob_price) \in Int
               /\ spending(t, price, blob_price) # None =>
                     /\ spending(t, price, blob_price) = t.gas_limit * price + t.value + fee
                     /\ t.gas_limit * price <= MaxU128
<1> DEFINE fee == IF t.type = Eip4844 THEN SatMul(total_blob_gas(t), blob_price, MaxU128) ELSE 0
           gas == t.gas_limit * price
<1>1. t.gas_limit \in Nat /\ t.value \in Nat /\ Len(t.blobs) \in Nat /\ MaxU128 \in Nat /\ MaxU256 \in Nat
  BY DEF Numbers
<1>2. gas \in Nat /\ total_blob_gas(t) \in Nat
  BY <1>1 DEF total_blob_gas, GAS_PER_BLOB
<1>3. fee \in Nat
  BY Zenon, <1>1, <1>2, SatMulValue
<1>4. price > 0 => (t.gas_limit > MaxU128 \div price <=> gas > MaxU128)
  BY Zenon, <1>1, DivisionTestsProduct
<1>5. price = 0 => gas = 0
  BY <1>1
<1>6. spending(t, price, blob_price) =
          IF price > 0 /\ t.gas_limit > MaxU128 \div price THEN None
          ELSE IF gas > MaxU256 - t.value THEN None
          ELSE IF gas + t.value > MaxU256 - fee THEN None
          ELSE gas + t.value + fee
  BY DEF spending
<1> HIDE DEF fee, gas
<1>7. spending(t, price, blob_price) \in Int
  BY <1>1, <1>2, <1>3, <1>6 DEF None
<1>8. ASSUME spending(t, price, blob_price) # None
      PROVE  spending(t, price, blob_price) = gas + t.value + fee /\ gas <= MaxU128
  BY <1>1, <1>2, <1>4, <1>5, <1>6, <1>8
<1> QED
  BY <1>2, <1>3, <1>7, <1>8 DEF fee, gas

(* What the deduction leaves in the journal. *)
LEMMA DeductedIs ==
    ASSUME SumsAddUp, Types, Control, pc = "pre", NEW balance \in Nat
    PROVE  LET w == Deducted(balance)
           IN  /\ w \in State /\ w.supply = view.supply /\ w.attrs = view.attrs
               /\ w.acc[Caller].balance = balance
               /\ \A a \in Addresses : w.acc[a].nonce = view.acc[a].nonce + (IF a = Caller /\ T.kind = "call" THEN 1 ELSE 0)
               /\ Balances(w) = Balances(view) + (balance - Balance(Caller))
<1> DEFINE paid == [view EXCEPT !.acc[Caller].balance = balance]
<1>1. view \in State /\ Caller \in Addresses
  BY TxParts DEF Types
<1>2. /\ paid \in State /\ paid.supply = view.supply /\ paid.attrs = view.attrs
      /\ \A b \in Addresses : paid.acc[b].nonce = view.acc[b].nonce
      /\ \A b \in Addresses : paid.acc[b].balance = IF b = Caller THEN balance ELSE view.acc[b].balance
      /\ Balances(paid) = Balances(view) + (balance - Balance(Caller))
  BY <1>1, SetBalanceKeeps DEF Balance
<1>3. Deducted(balance) = IF T.kind = "call" THEN BumpNonce(paid, Caller) ELSE paid
  BY DEF Deducted
<1>4. \A b \in Addresses : view.acc[b].nonce \in Nat
  BY <1>1, StateParts
<1> HIDE DEF paid
<1>5. CASE T.kind = "call"
  <2>1. Deducted(balance) = BumpNonce(paid, Caller)
    BY <1>3, <1>5
  <2> QED
    BY <1>1, <1>2, <1>5, <2>1, BumpNonceKeeps
<1>6. CASE T.kind # "call"
  <2>1. Deducted(balance) = paid
    BY <1>3, <1>6
  <2> QED
    BY <1>1, <1>2, <1>4, <1>6, <2>1
<1> QED
  BY <1>5, <1>6

(* A deposit is charged nothing and is given its mint; only without the balance check may it *)
(* be given what it sends.                                                                  *)
LEMMA DepositDeducts ==
    ASSUME SumsAddUp, Types, Control, DeductDeposit
    PROVE  \E balance \in Nat : /\ view' = Deducted(balance)
                                /\ ~ env.cfg.disable_balance_check => balance = Balance(Caller) + Minted
<1>1. pc = "pre" /\ Deposit
  BY DEF DeductDeposit
<1>2. /\ Caller \in Addresses /\ Minted \in Nat /\ T.value \in Nat /\ T.gas_limit \in Nat
      /\ Price = 0 /\ T.type = DEPOSIT_TRANSACTION_TYPE /\ T \in TxEnvType
  BY <1>1, TxParts
<1>3. Minted = Or(tx.mint, 0)
  BY <1>1 DEF Minted
<1>4. T.value \in 0..MaxU256 /\ MaxU256 \in Nat
  BY <1>2, WidthAssumption DEF TxEnvType
<1>5. gas_balance_spending(T, block.basefee, Or(block.blob_price, 0)) = 0
  <2>1. effective_balance_spending(T, block.basefee, Or(block.blob_price, 0)) = spending(T, 0, Or(block.blob_price, 0))
    BY <1>2 DEF effective_balance_spending, Price
  <2>2. T.gas_limit * 0 = 0
    BY <1>2
  <2>3. spending(T, 0, Or(block.blob_price, 0)) = T.value
    BY <1>2, <1>4, <2>2 DEF spending, DEPOSIT_TRANSACTION_TYPE, Eip4844
  <2> QED
    BY <1>2, <2>1, <2>3 DEF gas_balance_spending
<1> DEFINE minted == Balance(Caller) + Minted
           balance == IF env.cfg.disable_balance_check THEN Max({minted, T.value}) ELSE minted
<1>6. Balance(Caller) \in Nat
  BY <1>2, StateParts DEF Types, Balance
<1>7. minted \in Nat /\ minted - 0 = minted /\ ~ (0 > minted)
  BY <1>2, <1>6
<1>8. view' = Deducted(balance)
  BY Zenon, <1>3, <1>5, <1>7 DEF DeductDeposit
<1>9. balance \in Nat
  BY <1>2, <1>7, MaxOfTwo
<1> QED
  BY <1>8, <1>9

(* What the fee leaves of a balance that the checks accept. *)
LEMMA CallerFeeIs ==
    ASSUME Types, Control, GasBounds, pc = "pre", ~ Deposit, NEW balance \in Nat,
           ~ env.cfg.disable_balance_check => ensure_enough_balance(T, balance) = "none"
    PROVE  LET left == calculate_caller_fee(balance, T, env.cfg, block)
           IN  /\ left \in Nat /\ T.value <= left
               /\ T.gas_limit * Price \in Nat /\ BlobFee \in Nat
               /\ ~ env.cfg.disable_balance_check =>
                     left = balance - T.gas_limit * Price - BlobFee /\ T.gas_limit * Price <= MaxU128
<1> DEFINE left == calculate_caller_fee(balance, T, env.cfg, block)
           blob == Or(block.blob_price, 0)
           spends == spending(T, Price, blob)
           spent == spends - T.value
           rest == IF spent > balance THEN 0 ELSE balance - spent
           gas == T.gas_limit * Price
<1>1. /\ Numbers(T, block.basefee, blob) /\ T.value \in Nat /\ T.gas_limit \in Nat /\ blob \in Nat
      /\ Price \in Nat /\ Price <= T.gas_price
  BY TxParts DEF Numbers
<1>2. Numbers(T, 0, blob)
  BY <1>1 DEF Numbers
<1>3. /\ BlobFee \in Nat /\ gas \in Nat /\ spends \in Int
      /\ spends # None => spends = gas + T.value + BlobFee /\ gas <= MaxU128
  BY <1>1, <1>2, SpendingValue DEF BlobFee
<1>4. left = IF env.cfg.disable_balance_check THEN Max({rest, T.value}) ELSE rest
  BY DEF calculate_caller_fee, gas_balance_spending, effective_balance_spending, Price
<1> HIDE DEF left, blob, spends, gas
<1>5. rest \in Nat
  BY <1>1, <1>3
<1>6. CASE env.cfg.disable_balance_check
  <2>1. Max({rest, T.value}) = IF rest >= T.value THEN rest ELSE T.value
    BY <1>1, <1>5, MaxOfTwo
  <2>2. left \in Nat /\ T.value <= left
    BY <1>1, <1>4, <1>5, <1>6, <2>1
  <2> QED
    BY <1>3, <1>6, <2>2 DEF left, gas
<1>7. CASE ~ env.cfg.disable_balance_check
  <2>1. max_balance_spending(T) # None /\ ~ (max_balance_spending(T) > balance)
    BY <1>7 DEF ensure_enough_balance
  <2>2. ~ SystemCall
    BY DEF Control
  <2>3. T.type = Eip4844 => blob <= T.max_blob_fee
    BY <1>1, <2>2, AcceptedBlobPrice DEF GasBounds, Numbers, blob
  <2>4. max_balance_spending(T) \in Nat /\ spends \in T.value..max_balance_spending(T)
    BY <1>1, <1>2, <2>1, <2>3, SpendingKeepsOrder DEF spends
  <2>5. spends \in Nat /\ spends <= balance /\ spends # None
    BY <1>1, <2>1, <2>4 DEF None
  <2>6. spends = gas + T.value + BlobFee /\ gas <= MaxU128
    BY <1>3, <2>5
  <2>7. left = balance - gas - BlobFee /\ left \in Nat /\ T.value <= left
    BY <1>1, <1>3, <1>4, <1>7, <2>5, <2>6
  <2> QED
    BY <1>3, <2>6, <2>7 DEF left, gas
<1> QED
  BY <1>6, <1>7

(* What is charged to a transaction of Optimism on top. *)
LEMMA OpFeesAre ==
    ASSUME SumsAddUp, Types, Control, pc \in {"pre", "execution", "post"}, ~ SystemCall, ~ Deposit,
           IsOp => tx.envelope # "none", NEW gas \in Nat
    PROVE  OpFees(gas) \in Nat /\ OperatorFee(gas) \in Nat
           /\ (IsOp => l1_cost(Fetched, tx.envelope, env.op) \in Nat)
<1>1. OperatorFee(gas) = 0 \/ OpEnabled(env.op, "ISTHMUS")
  BY DEF OperatorFee
<1>2. CASE IsOp
  <2>1. Fetched \in L1Info /\ clear_tx_l1_cost(Fetched) = Fetched
    BY FetchedIs
  <2>2. /\ l1_cost(Fetched, tx.envelope, env.op) \in Nat
        /\ operator_fee_charge(Fetched, tx.envelope, gas, env.op) = operator_fee_charge_inner(Fetched, gas, env.op)
        /\ OpEnabled(env.op, "ISTHMUS") => Fetched.operator_fee_scalar \in Nat /\ Fetched.operator_fee_constant \in Nat
    BY <1>2, <2>1, CostsOfBlock
  <2>3. OperatorFee(gas) \in Nat
    <3>1. CASE OpEnabled(env.op, "ISTHMUS")
      <4>1. operator_fee_charge_inner(Fetched, gas, env.op) \in Nat
        BY <2>2, <3>1, OperatorFeeGrows
      <4> QED
        BY <2>2, <3>1, <4>1 DEF OperatorFee
    <3> QED
      BY <3>1 DEF OperatorFee
  <2> QED
    BY <1>2, <2>2, <2>3 DEF OpFees
<1>3. CASE ~ IsOp
  <2>1. OperatorFee(gas) \in Nat
    <3>1. CASE OpEnabled(env.op, "ISTHMUS")
      <4>1. Fetched.operator_fee_scalar \in Nat /\ Fetched.operator_fee_constant \in Nat
        BY <3>1, FetchedIs
      <4>2. operator_fee_charge_inner(Fetched, gas, env.op) \in Nat
        BY <4>1, OperatorFeeGrows
      <4> QED
        BY <3>1, <4>2 DEF OperatorFee, operator_fee_charge
    <3> QED
      BY <3>1 DEF OperatorFee
  <2> QED
    BY <1>3, <2>1 DEF OpFees
<1> QED
  BY <1>2, <1>3

(* What the deduction does to the journal and to the info. *)
LEMMA DeductCharges ==
    ASSUME SumsAddUp, Types, Control, Fees, GasBounds, Deduct
    PROVE  /\ l1' \in L1Info
           /\ ~ IsOp => l1' = l1
           /\ IsOp => /\ l1'.l2_block = block.number /\ clear_tx_l1_cost(l1') = Fetched
                      /\ l1'.tx_l1_cost \in {None, l1_cost(Fetched, tx.envelope, env.op)}
           /\ \/ pc' = "caught" /\ view' = view /\ \E e : run' = [run EXCEPT !.error = e]
              \/ /\ pc' = "execution" /\ run' = run
                 /\ \E balance \in Nat :
                       /\ view' = Deducted(balance) /\ T.value <= balance
                       /\ StrictCfg => /\ balance = Balance(Caller) - Owed(T.gas_limit)
                                       /\ T.gas_limit * Price <= MaxU128
<1> DEFINE info == refetched
           rejected == validate_account_nonce_and_code(view.acc[Caller], T, env.cfg)
           charged == IsOp /\ ~ env.cfg.disable_fee_charge
           additional == IF charged THEN tx_cost(info, tx.envelope, T.gas_limit, env.op) ELSE 0
           balance == Balance(Caller) - additional
           poor == IF env.cfg.disable_balance_check THEN "none" ELSE ensure_enough_balance(T, balance)
<1>1. pc = "pre" /\ ~ Deposit /\ ~ SystemCall
  BY Zenon DEF Deduct, Control
<1>2. IsOp => tx.envelope # "none" /\ ~ Free(tx.envelope)
  BY <1>1, TxParts DEF GasBounds
<1>3. Caller \in Addresses /\ T.gas_limit \in Nat /\ T.value \in Nat
  BY <1>1, TxParts
<1>4. /\ OpFees(T.gas_limit) \in Nat
      /\ (IsOp => l1_cost(Fetched, tx.envelope, env.op) \in Nat)
  BY <1>1, <1>2, <1>3, OpFeesAre
<1>5. IsOp => /\ info \in L1Info /\ info.l2_block = block.number /\ info.tx_l1_cost = None
              /\ clear_tx_l1_cost(info) = Fetched
  BY <1>1, RefetchedIs
<1>6. IsOp => /\ l1_cost(info, tx.envelope, env.op) = l1_cost(Fetched, tx.envelope, env.op)
              /\ operator_fee_charge(info, tx.envelope, T.gas_limit, env.op)
                     = operator_fee_charge(Fetched, tx.envelope, T.gas_limit, env.op)
  BY <1>1, <1>2, <1>5, CostsOfBlock
<1>7. ~ IsOp => info = l1
  BY DEF refetched
<1>8. /\ l1' = IF charged /\ rejected = "none" THEN WithL1Cost(info, tx.envelope, env.op) ELSE info
      /\ IF rejected # "none" THEN Fail(rejected) /\ UNCHANGED view
         ELSE IF balance < 0 THEN Fail("LackOfFundForMaxFee") /\ UNCHANGED view
         ELSE IF poor # "none" THEN Fail(poor) /\ UNCHANGED view
         ELSE /\ view' = Deducted(calculate_caller_fee(balance, T, env.cfg, block))
              /\ Goto("execution") /\ UNCHANGED run
  BY DEF Deduct
<1> HIDE DEF info, rejected
<1>9. charged => additional = OpFees(T.gas_limit)
  <2> SUFFICES ASSUME charged PROVE tx_cost(info, tx.envelope, T.gas_limit, env.op) = OpFees(T.gas_limit)
    OBVIOUS
  <2>1. calculate_tx_l1_cost(info, tx.envelope, env.op) = l1_cost(Fetched, tx.envelope, env.op)
    BY <1>5, <1>6 DEF calculate_tx_l1_cost, Or
  <2> QED
    BY <1>6, <2>1 DEF tx_cost, OpFees, OperatorFee
<1> HIDE DEF additional
<1>10. additional \in Nat
  BY <1>4, <1>9 DEF additional
<1>11. IsOp => /\ l1' \in L1Info /\ l1'.l2_block = block.number /\ clear_tx_l1_cost(l1') = Fetched
               /\ l1'.tx_l1_cost \in {None, l1_cost(Fetched, tx.envelope, env.op)}
  <2> SUFFICES ASSUME IsOp
               PROVE  /\ l1' \in L1Info /\ l1'.l2_block = block.number /\ clear_tx_l1_cost(l1') = Fetched
                      /\ l1'.tx_l1_cost \in {None, l1_cost(Fetched, tx.envelope, env.op)}
    OBVIOUS
  <2> DEFINE c == l1_cost(Fetched, tx.envelope, env.op)
  <2>1. WithL1Cost(info, tx.envelope, env.op) = [info EXCEPT !.tx_l1_cost = c]
    BY <1>2, <1>5, <1>6 DEF WithL1Cost, calculate_tx_l1_cost, Or
  <2>2. c \in Option
    BY <1>4 DEF Option
  <2> HIDE DEF c
  <2>3. CASE l1' = info
    BY <1>5, <2>3
  <2>4. CASE l1' = [info EXCEPT !.tx_l1_cost = c]
    BY <1>5, <2>2, <2>4, L1Remembers DEF c
  <2> QED
    BY <1>8, <2>1, <2>3, <2>4
<1>12. ~ IsOp => l1' = l1 /\ l1' \in L1Info
  BY <1>7, <1>8 DEF Types
<1> HIDE DEF poor
<1>13. CASE rejected # "none" \/ balance < 0 \/ poor # "none"
  <2>1. pc' = "caught" /\ view' = view /\ \E e : run' = [run EXCEPT !.error = e]
    BY <1>8, <1>13 DEF Fail
  <2> QED
    BY Zenon, <1>11, <1>12, <2>1
<1>14. CASE ~ (rejected # "none" \/ balance < 0 \/ poor # "none")
  <2> DEFINE left == calculate_caller_fee(balance, T, env.cfg, block)
  <2>1. pc' = "execution" /\ run' = run /\ view' = Deducted(left)
    BY <1>8, <1>14 DEF Goto
  <2>2. Balance(Caller) \in Nat
    BY <1>3, StateParts DEF Types, Balance
  <2>3. balance \in Nat
    BY <1>10, <1>14, <2>2
  <2>4. ~ env.cfg.disable_balance_check => ensure_enough_balance(T, balance) = "none"
    BY <1>14 DEF poor
  <2>5. /\ left \in Nat /\ T.value <= left
        /\ T.gas_limit * Price \in Nat /\ BlobFee \in Nat
        /\ ~ env.cfg.disable_balance_check =>
              left = balance - T.gas_limit * Price - BlobFee /\ T.gas_limit * Price <= MaxU128
    BY <1>1, <2>3, <2>4, CallerFeeIs
  <2> HIDE DEF left
  <2>6. ASSUME StrictCfg
        PROVE  left = Balance(Caller) - Owed(T.gas_limit) /\ T.gas_limit * Price <= MaxU128
    <3>1. additional = OpFees(T.gas_limit)
      BY <1>9, <2>6 DEF StrictCfg, OpFees, additional
    <3> DEFINE gas == T.gas_limit * Price
    <3>2. Owed(T.gas_limit) = gas + BlobFee + OpFees(T.gas_limit)
      BY <1>1 DEF Owed
    <3> HIDE DEF gas
    <3>3. gas \in Nat /\ left = balance - gas - BlobFee /\ gas <= MaxU128
      BY <2>5, <2>6 DEF StrictCfg, gas
    <3>4. left = Balance(Caller) - Owed(T.gas_limit)
      BY <1>4, <2>2, <2>5, <3>1, <3>2, <3>3
    <3> QED
      BY <3>3, <3>4 DEF gas
  <2>7. \E b \in Nat : /\ view' = Deducted(b) /\ T.value <= b
                       /\ StrictCfg => /\ b = Balance(Caller) - Owed(T.gas_limit)
                                       /\ T.gas_limit * Price <= MaxU128
    BY <2>1, <2>5, <2>6
  <2> QED
    BY <1>11, <1>12, <2>1, <2>7
<1> QED
  BY <1>13, <1>14

(* The attributes of the block are no account. *)
LEMMA AttributedKeeps ==
    ASSUME Types, NEW v \in State
    PROVE  LET w == Attributed(v)
           IN  w \in State /\ w.acc = v.acc /\ w.supply = v.supply /\ Balances(w) = Balances(v)
<1> DEFINE attrs == Attributes[block.number]
<1>1. attrs \in {Attributes[n] : n \in 1..LastBlock}
  BY EnvParts DEF Types
<1> HIDE DEF attrs
<1>2. [v EXCEPT !.attrs = attrs] \in State /\ [v EXCEPT !.attrs = attrs].acc = v.acc
      /\ [v EXCEPT !.attrs = attrs].supply = v.supply
  BY <1>1 DEF State
<1>3. Attributed(v) \in State /\ Attributed(v).acc = v.acc /\ Attributed(v).supply = v.supply
  BY <1>2 DEF Attributed, attrs
<1> QED
  BY <1>3 DEF Balances

(* The value moves from the caller to the target and nowhere else. *)
LEMMA SentIs ==
    ASSUME SumsAddUp, Types, Control, pc # "idle", NEW v \in State, T.value <= v.acc[Caller].balance
    PROVE  LET w == Sent(v)
           IN  /\ w \in State /\ w.supply = v.supply /\ Balances(w) = Balances(v)
               /\ \A a \in Addresses : w.acc[a].nonce = v.acc[a].nonce
               /\ w.acc[Caller].balance = v.acc[Caller].balance - (IF Target # Caller THEN T.value ELSE 0)
<1> DEFINE out == Credit(v, Caller, - T.value)
           in == Credit(out, Target, T.value)
<1>1. Caller \in Addresses /\ Target \in Addresses /\ T.value \in Nat
  BY TxParts
<1>2. \A a \in Addresses : v.acc[a].balance \in Nat /\ v.acc[a].nonce \in Nat
  BY StateParts
<1>3. Balances(v) \in Int /\ v.acc[Caller].balance + (- T.value) \in Nat /\ - T.value \in Int
  BY <1>1, <1>2, StateParts
<1>4. /\ out \in State /\ out.supply = v.supply
      /\ \A b \in Addresses : out.acc[b].nonce = v.acc[b].nonce
      /\ \A b \in Addresses : out.acc[b].balance = v.acc[b].balance + (IF b = Caller THEN - T.value ELSE 0)
      /\ Balances(out) = Balances(v) + (- T.value)
  BY <1>1, <1>3, CreditKeeps DEF Credited
<1> HIDE DEF out
<1>5. out.acc[Target].balance + T.value \in Nat /\ T.value \in Int
  <2>1. out.acc[Target].balance \in Nat
    BY <1>1, <1>4, StateParts
  <2> QED
    BY <1>1, <2>1
<1>6. /\ in \in State /\ in.supply = out.supply
      /\ \A b \in Addresses : in.acc[b].nonce = out.acc[b].nonce
      /\ \A b \in Addresses : in.acc[b].balance = out.acc[b].balance + (IF b = Target THEN T.value ELSE 0)
      /\ Balances(in) = Balances(out) + T.value
  BY <1>1, <1>4, <1>5, CreditKeeps DEF Credited
<1>7. Sent(v) = Attributed(in)
  BY DEF Sent, in, out
<1> HIDE DEF in
<1>8. Sent(v) \in State /\ Sent(v).acc = in.acc /\ Sent(v).supply = in.supply /\ Balances(Sent(v)) = Balances(in)
  BY <1>6, <1>7, AttributedKeeps
<1>9. Balances(in) = Balances(v)
  BY <1>1, <1>3, <1>4, <1>6
<1>10. in.acc[Caller].balance = v.acc[Caller].balance - (IF Target # Caller THEN T.value ELSE 0)
  BY <1>1, <1>2, <1>4, <1>6
<1> QED
  BY <1>4, <1>6, <1>8, <1>9, <1>10

(* What the frame leaves of the gas, by the rules of the fork. *)
LEMMA OpFrameGas ==
    ASSUME T.gas_limit \in Nat, NEW r, NEW remaining \in 0..T.gas_limit, NEW refunded \in Nat
    PROVE  LET g == IF IsOp THEN op_last_frame_result(r, remaining, refunded)
                    ELSE R!last_frame_result(r, T.gas_limit, remaining, refunded)
           IN  /\ g \in GasType /\ g.limit = T.gas_limit /\ g.remaining \in 0..T.gas_limit
               /\ Deposit /\ ~ Regolith => g.refunded = 0 /\ g.remaining \in {0, T.gas_limit}
<1> DEFINE g == IF IsOp THEN op_last_frame_result(r, remaining, refunded)
                ELSE R!last_frame_result(r, T.gas_limit, remaining, refunded)
           limit == T.gas_limit
           zero == 0
           all == [limit |-> limit, remaining |-> zero, refunded |-> zero]
<1>1. CASE ~ (Deposit /\ ~ Regolith)
  <2>1. g = R!last_frame_result(r, T.gas_limit, remaining, refunded)
    BY <1>1 DEF op_last_frame_result
  <2> QED
    BY <1>1, <2>1, FrameGas
<1>2. CASE Deposit /\ ~ Regolith
  <2>1. IsOp
    BY <1>2 DEF Deposit
  <2>2. g = all \/ g = R!erase_cost(all, limit)
    BY <1>2, <2>1 DEF op_last_frame_result
  <2>3. zero \in Nat /\ limit \in Nat /\ zero + limit = limit
    OBVIOUS
  <2>4. R!erase_cost(all, limit) = [all EXCEPT !.remaining = zero + limit]
    BY DEF R!erase_cost
  <2> HIDE DEF g, zero, limit
  <2>5. R!erase_cost(all, limit) = [limit |-> limit, remaining |-> limit, refunded |-> zero]
    BY <2>3, <2>4
  <2>6. g \in GasType /\ g.limit = limit /\ g.refunded = zero /\ g.remaining \in {zero, limit}
    BY <2>2, <2>3, <2>5 DEF GasType
  <2> QED
    BY <2>6 DEF g, zero, limit
<1> QED
  BY <1>1, <1>2

(* What the frames of a transaction do to the journal, to the caller and to the gas. *)
LEMMA ExecuteIs ==
    ASSUME SumsAddUp, Types, Control, pc = "execution",
           NEW r, NEW remaining \in 0..T.gas_limit, NEW refunded \in Nat, Execute(r, remaining, refunded)
    PROVE  /\ view' \in State /\ view'.supply = view.supply /\ Balances(view') = Balances(view)
           /\ \A a \in Addresses :
                 view'.acc[a].nonce = view.acc[a].nonce
                     + (IF a = Caller /\ T.kind = "create" /\ r # "OutOfFunds" THEN 1 ELSE 0)
           /\ view'.acc[Caller].balance = view.acc[Caller].balance - run'.sent
           /\ DOMAIN run' = {"gas", "result", "sent", "error"} /\ run'.sent \in Nat /\ run'.result = r
           /\ ~ R!is_ok(r) => run'.sent = 0
           /\ run'.gas \in GasType /\ run'.gas.limit = T.gas_limit /\ run'.gas.remaining <= T.gas_limit
           /\ Deposit /\ ~ Regolith => run'.gas.refunded = 0 /\ run'.gas.remaining \in {0, T.gas_limit}
           /\ r = "OutOfFunds" <=> T.value > Balance(Caller)
           /\ pc' = IF SystemCall THEN "result" ELSE "post"
           /\ warm' \subseteq Addresses
<1>1. view \in State /\ Caller \in Addresses /\ T.value \in Nat /\ T.gas_limit \in Nat /\ Target \in Addresses
  BY TxParts DEF Types
<1> DEFINE g == IF IsOp THEN op_last_frame_result(r, remaining, refunded)
                ELSE R!last_frame_result(r, T.gas_limit, remaining, refunded)
           sent == IF R!is_ok(r) /\ Target # Caller THEN T.value ELSE 0
           error == IF r = "FatalExternalError" THEN "Database" ELSE "none"
           bumps == T.kind = "create" /\ r # "OutOfFunds"
           bumped == IF bumps THEN BumpNonce(view, Caller) ELSE view
<1>2. /\ (r = "OutOfFunds") = (T.value > Balance(Caller))
      /\ view' = IF R!is_ok(r) THEN Sent(bumped) ELSE bumped
      /\ run' = [gas |-> g, result |-> r, sent |-> sent, error |-> error]
      /\ warm' = warm \cup {Caller, Target}
      /\ pc' = IF SystemCall THEN "result" ELSE "post"
  BY DEF Execute, Goto, SystemCall
<1>3. /\ g \in GasType /\ g.limit = T.gas_limit /\ g.remaining \in 0..T.gas_limit
      /\ Deposit /\ ~ Regolith => g.refunded = 0 /\ g.remaining \in {0, T.gas_limit}
  BY <1>1, OpFrameGas
<1>4. \A a \in Addresses : view.acc[a].nonce \in Nat /\ view.acc[a].balance \in Nat
  BY <1>1, StateParts
<1>5. /\ bumped \in State /\ bumped.supply = view.supply /\ Balances(bumped) = Balances(view)
      /\ \A a \in Addresses : bumped.acc[a].balance = view.acc[a].balance
      /\ \A a \in Addresses : bumped.acc[a].nonce = view.acc[a].nonce + (IF a = Caller /\ bumps THEN 1 ELSE 0)
  <2>1. CASE bumps
    BY <1>1, <2>1, BumpNonceKeeps
  <2>2. CASE ~ bumps
    BY <1>1, <1>4, <2>2
  <2> QED
    BY <2>1, <2>2
<1>6. R!is_ok(r) => r # "OutOfFunds"
  BY DEF R!is_ok, R!return_ok
<1>7. sent \in Nat
  BY <1>1
<1>8. /\ DOMAIN run' = {"gas", "result", "sent", "error"} /\ run'.gas = g /\ run'.sent = sent /\ run'.result = r
  <2> HIDE DEF g, error, sent
  <2> QED
    BY <1>2
<1> HIDE DEF g, error, bumped
<1>9. warm' \subseteq Addresses
  BY <1>1, <1>2 DEF Types
<1>10. (r = "OutOfFunds") = (T.value > view.acc[Caller].balance)
  BY <1>2 DEF Balance
<1>11. /\ view' \in State /\ view'.supply = bumped.supply /\ Balances(view') = Balances(bumped)
       /\ \A a \in Addresses : view'.acc[a].nonce = bumped.acc[a].nonce
       /\ view'.acc[Caller].balance = bumped.acc[Caller].balance - sent
       /\ ~ R!is_ok(r) => sent = 0
  <2>1. CASE R!is_ok(r)
    <3>1. bumped \in State /\ T.value <= bumped.acc[Caller].balance
      BY <1>1, <1>4, <1>5, <1>6, <1>10, <2>1
    <3>2. view' = Sent(bumped)
      BY <1>2, <2>1
    <3>3. sent = IF Target # Caller THEN T.value ELSE 0
      BY <2>1
    <3> HIDE DEF sent
    <3> QED
      BY <2>1, <3>1, <3>2, <3>3, SentIs
  <2>2. CASE ~ R!is_ok(r)
    <3>1. view' = bumped /\ sent = 0
      BY <1>2, <2>2
    <3>2. bumped.acc[Caller].balance \in Nat
      BY <1>1, <1>4, <1>5
    <3> HIDE DEF sent
    <3> QED
      BY <1>5, <3>1, <3>2
  <2> QED
    BY <2>1, <2>2
<1> HIDE DEF sent
<1>12. /\ view'.supply = view.supply /\ Balances(view') = Balances(view)
       /\ view'.acc[Caller].balance = view.acc[Caller].balance - run'.sent
  BY <1>1, <1>5, <1>8, <1>11
<1>13. \A a \in Addresses :
          view'.acc[a].nonce = view.acc[a].nonce
              + (IF a = Caller /\ T.kind = "create" /\ r # "OutOfFunds" THEN 1 ELSE 0)
  BY <1>5, <1>11
<1>14. /\ run'.gas \in GasType /\ run'.gas.limit = T.gas_limit /\ run'.gas.remaining <= T.gas_limit
       /\ Deposit /\ ~ Regolith => run'.gas.refunded = 0 /\ run'.gas.remaining \in {0, T.gas_limit}
  BY <1>1, <1>3, <1>8
<1>15. (r = "OutOfFunds" <=> T.value > Balance(Caller)) /\ pc' = IF SystemCall THEN "result" ELSE "post"
  BY <1>2
<1>16. DOMAIN run' = {"gas", "result", "sent", "error"} /\ run'.sent \in Nat /\ run'.result = r
       /\ (~ R!is_ok(r) => run'.sent = 0)
  BY <1>7, <1>8, <1>11
<1> QED
  BY <1>9, <1>11, <1>12, <1>13, <1>14, <1>15, <1>16

(* The gas after the refund and the floor. *)
LEMMA SettledIs ==
    ASSUME Types, Control, GasBounds, pc = "post"
    PROVE  LET g == settled(run.gas)
           IN  /\ g \in GasType /\ g.limit = T.gas_limit /\ R!used(g) \in 0..T.gas_limit
               /\ g.remaining + g.refunded = T.gas_limit - R!used(g)
               /\ g.limit - (g.remaining + g.refunded) = R!used(g)
               /\ Deposit /\ ~ Regolith => R!used(g) \in {0, T.gas_limit}
<1> DEFINE floor == InitialAndFloor(T, env.cfg).floor
           g == settled(run.gas)
           london == Enabled(env.cfg.spec, "LONDON")
<1>1. ~ SystemCall /\ run.gas \in GasType /\ T.gas_limit \in Nat /\ T \in TxEnvType
  BY Zenon, TxParts DEF Control, Types
<1>2. /\ run.gas.limit = T.gas_limit /\ run.gas.remaining <= T.gas_limit
      /\ Deposit /\ ~ Regolith => run.gas.refunded = 0 /\ run.gas.remaining \in {0, T.gas_limit}
  BY DEF GasBounds
<1>3. floor \in 0..run.gas.limit
  BY <1>1, <1>2, InitialGasFits DEF GasBounds
<1>4. london \in BOOLEAN
  BY DEF Enabled
<1>5. /\ g \in GasType /\ g.limit = T.gas_limit /\ R!used(g) \in 0..T.gas_limit
      /\ g.remaining + g.refunded = T.gas_limit - R!used(g)
      /\ Deposit /\ ~ Regolith => R!used(g) \in {0, T.gas_limit}
  <2>1. CASE Deposit /\ ~ Regolith
    <3>1. floor = 0
      BY <2>1, EnvParts, NoFloorBeforeRegolith DEF Types, Deposit, Regolith
    <3>2. IsOp
      BY <2>1 DEF Deposit
    <3>3. g = R!eip7623_check_gas_floor(run.gas, floor)
      BY <2>1, <3>2 DEF settled, op_refund
    <3>4. R!used(run.gas) = run.gas.limit - run.gas.remaining - run.gas.refunded
      BY DEF R!used, R!spent
    <3> HIDE DEF g, floor
    <3>5. R!used(run.gas) \in {0, T.gas_limit}
      BY <1>1, <1>2, <2>1, <3>4 DEF GasType
    <3>6. g = run.gas
      BY <1>1, <3>1, <3>3, <3>5 DEF R!eip7623_check_gas_floor
    <3>7. run.gas.remaining + run.gas.refunded = T.gas_limit - R!used(run.gas)
      BY <1>1, <1>2, <2>1, <3>4 DEF GasType
    <3> QED
      BY <1>1, <1>2, <3>5, <3>6, <3>7
  <2>2. CASE ~ (Deposit /\ ~ Regolith)
    <3>1. g = R!eip7623_check_gas_floor(R!refund(run.gas, london, 0), floor)
      BY <2>2 DEF settled, op_refund
    <3>2. run.gas.remaining <= run.gas.limit
      BY <1>2
    <3> HIDE DEF floor, london
    <3> QED
      BY <1>1, <1>2, <1>3, <1>4, <2>2, <3>1, <3>2, SettledGas
  <2> QED
    BY <2>1, <2>2
<1> HIDE DEF g
<1>6. g.limit - (g.remaining + g.refunded) = R!used(g)
  BY <1>1, <1>5
<1> QED
  BY <1>5, <1>6 DEF g

(* What the caller is given back. *)
Back(g) ==
    SatMul(g.remaining + g.refunded, Price, MaxU128)
        + (IF IsOp /\ ~ Deposit /\ ~ env.cfg.disable_fee_charge THEN operator_fee_refund(l1, g, env.op) ELSE 0)

(* It is a number; if the fees are charged it is what was taken for the gas that is not used. *)
LEMMA BackIs ==
    ASSUME SumsAddUp, Types, Control, Fees, GasBounds, pc = "post"
    PROVE  LET g == settled(run.gas)
           IN  /\ Back(g) \in Nat
               /\ StrictCfg /\ ~ Deposit /\ T.gas_limit * Price <= MaxU128 =>
                     Back(g) = Owed(T.gas_limit) - Owed(R!used(g))
               /\ Deposit => Back(g) = 0
<1> DEFINE g == settled(run.gas)
           used == R!used(g)
           left == g.remaining + g.refunded
           price == SatMul(left, Price, MaxU128)
           operator == IF IsOp /\ ~ Deposit /\ ~ env.cfg.disable_fee_charge THEN operator_fee_refund(l1, g, env.op) ELSE 0
<1>1. /\ g \in GasType /\ g.limit = T.gas_limit /\ used \in 0..T.gas_limit
      /\ left = T.gas_limit - used /\ g.limit - left = used
  BY SettledIs
<1>2. ~ SystemCall /\ T.gas_limit \in Nat /\ Price \in Nat /\ MaxU128 \in Nat /\ (Deposit => Price = 0)
      /\ Numbers(T, block.basefee, Or(block.blob_price, 0))
  BY ZenonT(30), TxParts, WidthAssumption DEF Control
<1>3. Back(g) = price + operator
  BY DEF Back
<1>4. left \in Nat /\ left <= T.gas_limit /\ used \in Nat
  BY <1>1, <1>2
<1>5. operator \in Nat /\ (IsOp /\ ~ Deposit /\ ~ env.cfg.disable_fee_charge => operator = OperatorFee(T.gas_limit) - OperatorFee(used))
      /\ (~ (IsOp /\ ~ Deposit /\ ~ env.cfg.disable_fee_charge) => operator = 0)
  <2>1. CASE ~ (IsOp /\ ~ Deposit /\ ~ env.cfg.disable_fee_charge)
    BY <2>1
  <2>2. CASE IsOp /\ ~ Deposit /\ ~ env.cfg.disable_fee_charge
    <3>1. tx.envelope # "none" /\ l1.l2_block = block.number /\ clear_tx_l1_cost(l1) = Fetched /\ l1 \in L1Info
      BY Zenon, <1>2, <2>2 DEF GasBounds, Fees, Types
    <3>2. /\ \A n : operator_fee_charge(l1, tx.envelope, n, env.op) = operator_fee_charge(Fetched, tx.envelope, n, env.op)
          /\ \A n : operator_fee_charge(l1, tx.envelope, n, env.op) = operator_fee_charge_inner(l1, n, env.op)
          /\ OpEnabled(env.op, "ISTHMUS") => l1.operator_fee_scalar \in Nat /\ l1.operator_fee_constant \in Nat
      BY ZenonT(30), <1>2, <2>2, <3>1, CostsOfBlock
    <3>3. operator = operator_fee_refund(l1, g, env.op)
      BY <2>2
    <3>4. CASE ~ OpEnabled(env.op, "ISTHMUS")
      <4>1. operator = 0 /\ OperatorFee(T.gas_limit) = 0 /\ OperatorFee(used) = 0
        BY <3>3, <3>4 DEF operator_fee_refund, OperatorFee
      <4> QED
        BY <2>2, <4>1
    <3>5. CASE OpEnabled(env.op, "ISTHMUS")
      <4> DEFINE inner(n) == operator_fee_charge_inner(l1, n, env.op)
      <4>1. inner(used) \in Nat /\ inner(T.gas_limit) \in Nat /\ inner(used) <= inner(T.gas_limit)
        BY <1>1, <1>2, <1>4, <3>2, <3>5, OperatorFeeGrows
      <4>2. operator = inner(T.gas_limit) - inner(used)
        BY <1>1, <3>3, <3>5 DEF operator_fee_refund
      <4>3. OperatorFee(T.gas_limit) = inner(T.gas_limit) /\ OperatorFee(used) = inner(used)
        BY <3>2, <3>5 DEF OperatorFee
      <4> HIDE DEF inner, operator, used
      <4> QED
        BY <2>2, <4>1, <4>2, <4>3
    <3> QED
      BY <3>4, <3>5
  <2> QED
    BY <2>1, <2>2
<1> HIDE DEF used, left, operator
<1>6. /\ left * Price \in Nat /\ price \in Nat
      /\ price = IF left * Price > MaxU128 THEN MaxU128 ELSE left * Price
  BY ZenonT(30), <1>2, <1>4, SatMulValue
<1>7. Back(g) \in Nat
  BY <1>3, <1>5, <1>6
<1>8. ASSUME Deposit PROVE Back(g) = 0
  <2>1. left * Price = 0
    BY <1>2, <1>4, <1>8
  <2> QED
    BY <1>2, <1>3, <1>5, <1>6, <1>8, <2>1
<1>9. ASSUME StrictCfg, ~ Deposit, T.gas_limit * Price <= MaxU128
      PROVE  Back(g) = Owed(T.gas_limit) - Owed(used)
  <2> DEFINE all == T.gas_limit * Price
             some == used * Price
             rest == left * Price
  <2>1. all \in Nat /\ some \in Nat /\ rest \in Nat /\ rest = all - some
    BY <1>1, <1>2, <1>4
  <2>2. Owed(T.gas_limit) = all + BlobFee + OpFees(T.gas_limit) /\ Owed(used) = some + BlobFee + OpFees(used)
    BY <1>9 DEF Owed
  <2>3. BlobFee \in Nat
    <3>1. Numbers(T, 0, Or(block.blob_price, 0)) /\ Or(block.blob_price, 0) \in Nat
      BY <1>2 DEF Numbers
    <3> QED
      BY <1>2, <3>1, SpendingValue DEF BlobFee
  <2>4. /\ OpFees(T.gas_limit) \in Nat /\ OpFees(used) \in Nat
        /\ OperatorFee(T.gas_limit) \in Nat /\ OperatorFee(used) \in Nat
        /\ (IsOp => l1_cost(Fetched, tx.envelope, env.op) \in Nat)
    <3>1. IsOp => tx.envelope # "none"
      BY <1>2, <1>9 DEF GasBounds
    <3> QED
      BY <1>2, <1>4, <1>9, <3>1, OpFeesAre
  <2>5. operator = OpFees(T.gas_limit) - OpFees(used)
    <3>1. CASE IsOp
      <4> DEFINE c == l1_cost(Fetched, tx.envelope, env.op)
      <4>1. OpFees(T.gas_limit) = c + OperatorFee(T.gas_limit) /\ OpFees(used) = c + OperatorFee(used) /\ c \in Nat
        BY <2>4, <3>1 DEF OpFees
      <4>2. operator = OperatorFee(T.gas_limit) - OperatorFee(used)
        BY <1>5, <1>9, <3>1 DEF StrictCfg
      <4> HIDE DEF c
      <4> QED
        BY <2>4, <4>1, <4>2
    <3>2. CASE ~ IsOp
      BY <1>5, <3>2 DEF OpFees
    <3> QED
      BY <3>1, <3>2
  <2>6. price = rest
    <3> HIDE DEF all, some
    <3>1. ~ (rest > MaxU128)
      BY <1>2, <1>9, <2>1 DEF all
    <3> QED
      BY <1>6, <3>1
  <2> HIDE DEF all, some, rest, price
  <2> QED
    BY <1>3, <2>1, <2>2, <2>3, <2>4, <2>5, <2>6
<1> QED
  BY <1>7, <1>8, <1>9 DEF used

(* What the beneficiary and the vaults are paid. *)
Tip(g) ==
    (IF ~ Enabled(env.cfg.spec, "LONDON") THEN Price
     ELSE IF block.basefee > Price THEN 0 ELSE Price - block.basefee) * R!used(g)

VaultFees(g) ==
    l1_cost(Fetched, tx.envelope, env.op) + SatMul(block.basefee, R!used(g), MaxU128) + OperatorFee(R!used(g))

Rewards(g) == IF Deposit THEN 0 ELSE Tip(g) + (IF IsOp THEN VaultFees(g) ELSE 0)

(* The caller is given back what is not used. *)
LEMMA ReimburseIs ==
    ASSUME SumsAddUp, Types, Control, Fees, GasBounds, pc = "post"
    PROVE  LET g == settled(run.gas)
               w == reimburse_caller(view, g)
           IN  /\ w \in State /\ w.supply = view.supply
               /\ \A a \in Addresses : w.acc[a].nonce = view.acc[a].nonce
               /\ w.acc[Caller].balance = view.acc[Caller].balance + Back(g)
               /\ Balances(w) = Balances(view) + Back(g)
<1> DEFINE g == settled(run.gas)
           back == Back(g)
<1>1. view \in State /\ Caller \in Addresses
  BY TxParts DEF Types
<1>2. back \in Nat
  BY BackIs
<1>3. reimburse_caller(view, g) = Credit(view, Caller, back)
  BY DEF reimburse_caller, Back
<1> HIDE DEF back
<1>4. view.acc[Caller].balance + back \in Nat /\ back \in Int
  <2>1. view.acc[Caller].balance \in Nat
    BY <1>1, StateParts
  <2> QED
    BY <1>2, <2>1
<1> DEFINE w == Credit(view, Caller, back)
<1>5. Credited(view, w, Caller, back)
  BY Zenon, <1>1, <1>4, CreditKeeps
<1> HIDE DEF w
<1>6. /\ w \in State /\ w.supply = view.supply
      /\ \A a \in Addresses : w.acc[a].nonce = view.acc[a].nonce
      /\ Balances(w) = Balances(view) + back
  BY Zenon, <1>5 DEF Credited
<1>7. w.acc[Caller].balance = view.acc[Caller].balance + back
  <2>1. w.acc[Caller].balance = view.acc[Caller].balance + (IF Caller = Caller THEN back ELSE 0)
    BY Zenon, <1>1, <1>5 DEF Credited
  <2> QED
    BY Zenon, <2>1
<1>8. reimburse_caller(view, g) = w /\ back = Back(g)
  BY Zenon, <1>3 DEF w, back
<1> QED
  BY ZenonT(30), <1>6, <1>7, <1>8

(* An account is paid a fee. *)
LEMMA FeePaid ==
    ASSUME SumsAddUp, NEW v \in State, NEW a \in Addresses, NEW n \in Nat
    PROVE  LET w == Credit(v, a, n)
           IN  /\ w \in State /\ w.supply = v.supply
               /\ \A b \in Addresses : w.acc[b].nonce = v.acc[b].nonce
               /\ \A b \in Addresses : b # a => w.acc[b].balance = v.acc[b].balance
               /\ Balances(w) = Balances(v) + n
<1>1. v.acc[a].balance + n \in Nat /\ n \in Int
  <2>1. v.acc[a].balance \in Nat
    BY StateParts
  <2> QED
    BY <2>1
<1>2. \A b \in Addresses : v.acc[b].balance \in Nat
  BY StateParts
<1> DEFINE w == Credit(v, a, n)
<1>3. Credited(v, w, a, n)
  BY Zenon, <1>1, CreditKeeps
<1> HIDE DEF w
<1>4. /\ w \in State /\ w.supply = v.supply
      /\ \A b \in Addresses : w.acc[b].nonce = v.acc[b].nonce
      /\ \A b \in Addresses : w.acc[b].balance = v.acc[b].balance + (IF b = a THEN n ELSE 0)
      /\ Balances(w) = Balances(v) + n
  BY Zenon, <1>3 DEF Credited
<1>5. \A b \in Addresses : b # a => w.acc[b].balance = v.acc[b].balance
  BY <1>2, <1>4
<1> QED
  BY ZenonT(30), <1>4, <1>5 DEF w

(* What post-execution does to the journal and to the info. *)
LEMMA PostIs ==
    ASSUME SumsAddUp, Types, Control, Fees, GasBounds, PostExecution
    PROVE  LET g == settled(run.gas)
           IN  /\ run' = [run EXCEPT !.gas = g] /\ pc = "post" /\ pc' = "result"
               /\ view' \in State /\ view'.supply = view.supply
               /\ \A a \in Addresses : view'.acc[a].nonce = view.acc[a].nonce
               /\ Balances(view') = Balances(view) + Back(g) + Rewards(g)
               /\ Back(g) \in Nat /\ Rewards(g) \in Nat
               /\ Deposit \/ Caller \notin {block.beneficiary} \cup Vaults =>
                     view'.acc[Caller].balance = view.acc[Caller].balance + Back(g)
               /\ l1' \in L1Info /\ l1'.l2_block = l1.l2_block /\ clear_tx_l1_cost(l1') = clear_tx_l1_cost(l1)
               /\ l1'.operator_fee_scalar = l1.operator_fee_scalar
               /\ l1'.operator_fee_constant = l1.operator_fee_constant
<1> DEFINE g == settled(run.gas)
           back == reimburse_caller(view, g)
           used == R!used(g)
<1>1. /\ pc = "post" /\ run' = [run EXCEPT !.gas = g] /\ pc' = "result"
      /\ view' = IF Deposit THEN back
                 ELSE IF IsOp THEN op_rewards(reward_beneficiary(back, g), g)
                 ELSE reward_beneficiary(back, g)
      /\ l1' = IF IsOp /\ ~ Deposit THEN WithL1Cost(l1, tx.envelope, env.op) ELSE l1
  BY DEF PostExecution, Goto
<1>2. /\ back \in State /\ back.supply = view.supply
      /\ \A a \in Addresses : back.acc[a].nonce = view.acc[a].nonce
      /\ back.acc[Caller].balance = view.acc[Caller].balance + Back(g)
      /\ Balances(back) = Balances(view) + Back(g)
  BY <1>1, ReimburseIs
<1>3. Back(g) \in Nat /\ used \in Nat
  <2>1. used \in 0..T.gas_limit
    BY <1>1, SettledIs
  <2> QED
    BY <1>1, <2>1, BackIs
<1>4. Caller \in Addresses /\ Price \in Nat /\ ~ SystemCall
  BY <1>1, TxParts DEF Control
<1>5. block.basefee \in Nat /\ block.beneficiary \in Addresses /\ MaxU128 \in Nat
  BY Zenon, EnvParts, WidthAssumption DEF Types
<1> HIDE DEF back
<1>6. Tip(g) \in Nat
  <2> DEFINE price == IF ~ Enabled(env.cfg.spec, "LONDON") THEN Price
                      ELSE IF block.basefee > Price THEN 0 ELSE Price - block.basefee
  <2>1. price \in Nat
    BY <1>4, <1>5
  <2>2. Tip(g) = price * used
    BY DEF Tip
  <2> HIDE DEF price, used
  <2> QED
    BY <1>3, <2>1, <2>2
<1> DEFINE tipped == reward_beneficiary(back, g)
<1>7. tipped = Credit(back, block.beneficiary, Tip(g))
  BY DEF reward_beneficiary, Tip
<1> HIDE DEF tipped, g, used
<1>8. /\ tipped \in State /\ tipped.supply = view.supply
      /\ \A b \in Addresses : tipped.acc[b].nonce = view.acc[b].nonce
      /\ \A b \in Addresses : b # block.beneficiary => tipped.acc[b].balance = back.acc[b].balance
      /\ Balances(tipped) = Balances(back) + Tip(g)
  <2>1. back \in State /\ block.beneficiary \in Addresses
    BY <1>2, <1>5
  <2>2. /\ tipped \in State /\ tipped.supply = back.supply
        /\ \A b \in Addresses : tipped.acc[b].nonce = back.acc[b].nonce
        /\ \A b \in Addresses : b # block.beneficiary => tipped.acc[b].balance = back.acc[b].balance
        /\ Balances(tipped) = Balances(back) + Tip(g)
    BY <1>6, <1>7, <2>1, FeePaid
  <2> QED
    BY <1>2, <2>2
<1>9. Balances(view) \in Int
  BY StateParts DEF Types
<1>10. CASE Deposit
  <2>1. view' = back /\ l1' = l1 /\ Rewards(g) = 0
    BY <1>1, <1>10 DEF Rewards
  <2>2. Balances(view') = Balances(view) + Back(g) + Rewards(g)
    BY <1>2, <1>3, <1>9, <2>1
  <2> QED
    BY <1>1, <1>2, <1>3, <1>10, <2>1, <2>2 DEF Types, g
<1>11. CASE ~ Deposit /\ ~ IsOp
  <2>1. view' = tipped /\ l1' = l1 /\ Rewards(g) = Tip(g) + 0
    BY <1>1, <1>11 DEF Rewards, tipped
  <2>2. Balances(view') = Balances(view) + Back(g) + Rewards(g) /\ Rewards(g) \in Nat
    BY <1>2, <1>3, <1>6, <1>8, <1>9, <2>1
  <2> QED
    BY <1>1, <1>2, <1>3, <1>4, <1>8, <1>11, <2>1, <2>2 DEF Types, g
<1>12. CASE ~ Deposit /\ IsOp
  <2> DEFINE c == l1_cost(Fetched, tx.envelope, env.op)
             b == SatMul(block.basefee, used, MaxU128)
             o == OperatorFee(used)
             v1 == Credit(tipped, "l1fee", c)
             v2 == Credit(v1, "basefee", b)
             v3 == Credit(v2, "operator", o)
  <2>1. /\ tx.envelope # "none" /\ ~ Free(tx.envelope) /\ l1 \in L1Info /\ clear_tx_l1_cost(l1) = Fetched
        /\ l1.tx_l1_cost \in {None, c}
    BY <1>1, <1>4, <1>12, TxParts DEF GasBounds, Fees, Types
  <2>2. c \in Nat /\ o \in Nat
    BY <1>1, <1>3, <1>4, <1>12, <2>1, OpFeesAre
  <2>3. l1_cost(l1, tx.envelope, env.op) = c
        /\ operator_fee_charge(l1, tx.envelope, used, env.op) = operator_fee_charge(Fetched, tx.envelope, used, env.op)
    BY <1>1, <1>4, <1>12, <2>1, CostsOfBlock
  <2>4. calculate_tx_l1_cost(l1, tx.envelope, env.op) = c
    BY <2>1, <2>3 DEF calculate_tx_l1_cost, Or
  <2>5. b \in Nat
    BY ZenonT(30), <1>3, <1>5, SatMulValue
  <2>6. view' = v3
    <3>1. view' = op_rewards(tipped, g)
      BY <1>1, <1>12 DEF tipped
    <3>2. (IF OpEnabled(env.op, "ISTHMUS") THEN operator_fee_charge(l1, tx.envelope, used, env.op) ELSE 0) = o
      BY <2>3 DEF OperatorFee
    <3> HIDE DEF c, o
    <3> QED
      BY <2>4, <3>1, <3>2 DEF op_rewards, used
  <2>7. l1' = [l1 EXCEPT !.tx_l1_cost = c]
    BY <1>1, <1>12, <2>1, <2>4 DEF WithL1Cost
  <2>8. "l1fee" \in Addresses /\ "basefee" \in Addresses /\ "operator" \in Addresses
    BY GenesisAssumption DEF Vaults
  <2>9. Rewards(g) = Tip(g) + (c + b + o)
    BY <1>12 DEF Rewards, VaultFees, used
  <2> HIDE DEF c, b, o
  <2>10. c \in Option
    BY <2>2 DEF Option
  <2>11. /\ l1' \in L1Info /\ l1'.l2_block = l1.l2_block /\ clear_tx_l1_cost(l1') = clear_tx_l1_cost(l1)
         /\ l1'.operator_fee_scalar = l1.operator_fee_scalar
         /\ l1'.operator_fee_constant = l1.operator_fee_constant
    BY <2>1, <2>7, <2>10, L1Remembers
  <2>12. /\ v1 \in State /\ v1.supply = view.supply
         /\ \A a \in Addresses : v1.acc[a].nonce = view.acc[a].nonce
         /\ \A a \in Addresses : a # "l1fee" => v1.acc[a].balance = tipped.acc[a].balance
         /\ Balances(v1) = Balances(tipped) + c
    BY <1>8, <2>2, <2>8, FeePaid
  <2> HIDE DEF v1
  <2>13. /\ v2 \in State /\ v2.supply = view.supply
         /\ \A a \in Addresses : v2.acc[a].nonce = view.acc[a].nonce
         /\ \A a \in Addresses : a # "basefee" => v2.acc[a].balance = v1.acc[a].balance
         /\ Balances(v2) = Balances(v1) + b
    BY <2>5, <2>8, <2>12, FeePaid
  <2> HIDE DEF v2
  <2>14. /\ v3 \in State /\ v3.supply = view.supply
         /\ \A a \in Addresses : v3.acc[a].nonce = view.acc[a].nonce
         /\ \A a \in Addresses : a # "operator" => v3.acc[a].balance = v2.acc[a].balance
         /\ Balances(v3) = Balances(v2) + o
    BY <2>2, <2>8, <2>13, FeePaid
  <2> HIDE DEF v3
  <2>15. Balances(v3) = Balances(view) + Back(g) + Rewards(g) /\ Rewards(g) \in Nat
    <3>1. Balances(v3) = Balances(tipped) + c + b + o /\ Balances(tipped) = Balances(view) + Back(g) + Tip(g)
      <4>1. Balances(v1) = Balances(tipped) + c /\ Balances(v2) = Balances(v1) + b /\ Balances(v3) = Balances(v2) + o
        BY <2>12, <2>13, <2>14
      <4>2. Balances(tipped) = Balances(view) + Back(g) + Tip(g)
        BY <1>2, <1>8
      <4> QED
        BY <4>1, <4>2
    <3> QED
      BY <1>3, <1>6, <1>9, <2>2, <2>5, <2>9, <3>1
  <2>16. ASSUME Caller \notin {block.beneficiary} \cup Vaults
         PROVE  v3.acc[Caller].balance = view.acc[Caller].balance + Back(g)
    <3>1. Caller # block.beneficiary /\ Caller # "l1fee" /\ Caller # "basefee" /\ Caller # "operator"
      BY <2>16 DEF Vaults
    <3> QED
      BY <1>2, <1>4, <1>8, <2>12, <2>13, <2>14, <3>1
  <2> QED
    BY <1>1, <1>3, <1>12, <2>6, <2>11, <2>14, <2>15, <2>16 DEF g
<1> QED
  BY <1>10, <1>11, <1>12

-----------------------------------------------------------------------------
(* Every step keeps the types *)

(* An error is noted in the run and changes nothing else of it. *)
LEMMA RunKeeps ==
    ASSUME Types, run' = run \/ \E e : run' = [run EXCEPT !.error = e]
    PROVE  /\ DOMAIN run' = {"gas", "result", "sent", "error"} /\ run'.gas = run.gas /\ run'.sent = run.sent
           /\ run'.result = run.result /\ run'.gas \in GasType /\ run'.sent \in Nat
BY DEF Types

(* What a transaction burns is a number. *)
LEMMA BurntIs ==
    ASSUME Types, Control, pc # "idle", NEW used \in Nat
    PROVE  Burnt(used) \in Nat /\ BlobFee \in Nat
<1>1. Price \in Nat /\ block.basefee \in Nat /\ Numbers(T, block.basefee, Or(block.blob_price, 0))
  BY TxParts, EnvParts DEF Types
<1>2. BlobFee \in Nat
  <2>1. Numbers(T, 0, Or(block.blob_price, 0)) /\ Or(block.blob_price, 0) \in Nat
    BY <1>1 DEF Numbers
  <2> QED
    BY <1>1, <2>1, SpendingValue DEF BlobFee
<1> DEFINE low == Min({block.basefee, Price})
           base_fee == IF IsOp \/ ~ Enabled(env.cfg.spec, "LONDON") THEN 0 ELSE low * used
<1>3. low \in Nat
  BY <1>1, MinOfTwo
<1>4. Burnt(used) = base_fee + BlobFee
  BY DEF Burnt, BlobFee
<1> HIDE DEF low
<1>5. base_fee \in Nat
  BY <1>3
<1> HIDE DEF base_fee
<1> QED
  BY <1>2, <1>4, <1>5

(* What a finished transaction leaves: the accounts as they are, and a new supply. *)
LEMMA IncludeIs ==
    ASSUME SumsAddUp, Types, Control, pc # "idle", NEW v \in State, NEW used, NEW error,
           used \in Nat \/ SystemCall \/ Deposit, Include(v, used, error)
    PROVE  /\ view' \in State /\ base' = view' /\ view'.acc = v.acc
           /\ view'.supply = v.supply + Minted - (IF SystemCall \/ Deposit THEN 0 ELSE Burnt(used))
           /\ l1' = (IF IsOp THEN clear_tx_l1_cost(l1) ELSE l1) /\ l1' \in L1Info
           /\ last' = [tx |-> tx, before |-> base, after |-> view', run |-> run, used |-> used, error |-> error]
           /\ pc' = "return" /\ warm' = {}
           /\ UNCHANGED <<env, block, tx, db, call, run, calls, draft>>
<1> DEFINE burnt == IF call.op \in System \/ Deposit THEN 0 ELSE Burnt(used)
           supply == v.supply + Minted - burnt
<1>1. burnt \in Int /\ Minted \in Nat /\ v.supply \in Int
  BY BurntIs, TxParts, StateParts DEF SystemCall
<1>2. supply \in Int
  BY <1>1
<1>3. /\ view' = [v EXCEPT !.supply = supply] /\ base' = view' /\ pc' = "return" /\ warm' = {}
      /\ l1' = IF IsOp THEN clear_tx_l1_cost(l1) ELSE l1
      /\ last' = [tx |-> tx, before |-> base, after |-> view', run |-> run, used |-> used, error |-> error]
      /\ UNCHANGED <<env, block, tx, db, call, run, calls, draft>>
  BY DEF Include, Goto, State
<1> HIDE DEF supply
<1>4. view' \in State /\ view'.acc = v.acc /\ view'.supply = supply
  BY <1>2, <1>3 DEF State
<1>5. l1' \in L1Info
  BY <1>3, L1Forgets DEF Types
<1> QED
  BY <1>3, <1>4, <1>5 DEF supply, SystemCall

(* An execution is one of the outcomes with gas that there is. *)
LEMMA ExecutionRuns ==
    ASSUME Types, Control, GasBounds, Execution
    PROVE  \E r \in {"Stop", "Revert", "OutOfGas", "OutOfFunds", "FatalExternalError"},
              remaining \in 0..T.gas_limit, refunded \in Nat :
                  Execute(r, remaining, refunded) /\ (r = "FatalExternalError" => ~ IsOp \/ OpDbErrors)
<1> DEFINE initial == IF call.op \in System THEN 0 ELSE InitialAndFloor(T, env.cfg).initial
           available == T.gas_limit - initial
           Runs(r, remaining, refunded) ==
               Execute(r, remaining, refunded) /\ (r = "FatalExternalError" => ~ IsOp \/ OpDbErrors)
<1>1. pc = "execution" /\ T.gas_limit \in Nat /\ T \in TxEnvType
  BY TxParts DEF Execution
<1>2. initial \in 0..T.gas_limit
  <2>1. ~ SystemCall => validate_initial_tx_gas(T, env.cfg) = "none"
    BY <1>1 DEF GasBounds
  <2>2. ~ SystemCall => InitialAndFloor(T, env.cfg).initial \in 0..T.gas_limit
    BY <1>1, <2>1, InitialGasFits
  <2> QED
    BY <1>1, <2>2 DEF SystemCall
<1> HIDE DEF initial
<1>3. available \in 0..T.gas_limit
  BY <1>1, <1>2
<1>4. \/ \E used \in {0, available} : Execute("Stop", available - used, 0)
      \/ Execute("Stop", available \div 3, 2 * available)
      \/ Execute("Revert", available \div 2, available)
      \/ Execute("OutOfGas", 0, 0)
      \/ Execute("OutOfFunds", available, 0)
      \/ (~ IsOp \/ OpDbErrors) /\ Execute("FatalExternalError", 0, 0)
  BY DEF Execution, initial
<1> HIDE DEF available
<1>5. /\ \A used \in {0, available} : available - used \in 0..T.gas_limit
      /\ available \div 3 \in 0..T.gas_limit /\ available \div 2 \in 0..T.gas_limit
      /\ 2 * available \in Nat /\ available \in Nat /\ 0 \in 0..T.gas_limit /\ 0 \in Nat
  BY <1>1, <1>3
<1> QED
  BY <1>3, <1>4, <1>5

(* What a failed deposit leaves. *)
LEMMA FailedDepositIs ==
    ASSUME SumsAddUp, Types, Control, pc # "idle"
    PROVE  LET v == Credit(BumpNonce(base, Caller), Caller, Minted)
           IN  /\ v \in State /\ v.supply = base.supply
               /\ v.acc[Caller].balance = base.acc[Caller].balance + Minted
               /\ \A a \in Addresses : v.acc[a].nonce = base.acc[a].nonce + (IF a = Caller THEN 1 ELSE 0)
               /\ Balances(v) = Balances(base) + Minted /\ Nonces(v) = Nonces(base) + 1
<1> DEFINE u == BumpNonce(base, Caller)
<1>1. base \in State /\ Caller \in Addresses /\ Minted \in Nat
  BY TxParts DEF Types
<1>2. /\ u \in State /\ u.supply = base.supply
      /\ \A b \in Addresses : u.acc[b].balance = base.acc[b].balance
      /\ \A b \in Addresses : u.acc[b].nonce = base.acc[b].nonce + (IF b = Caller THEN 1 ELSE 0)
      /\ Balances(u) = Balances(base) /\ Nonces(u) = Nonces(base) + 1
  BY <1>1, BumpNonceKeeps
<1> HIDE DEF u
<1>3. u.acc[Caller].balance + Minted \in Nat /\ Minted \in Int
  <2>1. u.acc[Caller].balance \in Nat
    BY <1>1, <1>2, StateParts
  <2> QED
    BY <1>1, <2>1
<1>4. LET v == Credit(u, Caller, Minted)
      IN  /\ v \in State /\ v.supply = u.supply
          /\ \A b \in Addresses : v.acc[b].nonce = u.acc[b].nonce
          /\ \A b \in Addresses : v.acc[b].balance = u.acc[b].balance + (IF b = Caller THEN Minted ELSE 0)
          /\ Balances(v) = Balances(u) + Minted /\ Nonces(v) = Nonces(u)
  <2>1. u \in State /\ Caller \in Addresses
    BY <1>1, <1>2
  <2>2. Credited(u, Credit(u, Caller, Minted), Caller, Minted)
    BY <1>3, <2>1, CreditKeeps
  <2> QED
    BY ZenonT(30), <2>2 DEF Credited
<1> QED
  BY ZenonT(30), <1>1, <1>2, <1>4 DEF u

(* The types are kept. *)
LEMMA TypesStep ==
    ASSUME SumsAddUp, ~ OpDbErrors, Types, Control, Fees, GasBounds, [Next]_vars
    PROVE  Types'
<1>1. Drafted'
  BY DraftedStep DEF Types
<1>2. env \in Envs /\ env.calls \in Nat /\ calls \in 0..env.calls
  BY EnvParts DEF Types, Drafted
<1> DEFINE Steps8 == {"idle", "validate", "pre", "execution", "post", "result", "caught", "return"}
<1>3. ASSUME Handling, l1' \in L1Info, view' \in State, pc' \in Steps8, warm' \subseteq Addresses,
             run' = run \/ (\E e : run' = [run EXCEPT !.error = e])
      PROVE  Types'
  BY <1>1, <1>3, RunKeeps DEF Types, Handling
<1>4. ASSUME NEW op, NEW t, NEW rest, Begins(op, t, rest) PROVE Types'
  <2>1. /\ tx' = t /\ call' = [op |-> op, rest |-> rest, start |-> [db |-> db, base |-> base], done |-> 0, error |-> "none"]
        /\ pc' \in Steps8 /\ run' = NoRun /\ calls' = calls + 1 /\ calls < env.calls
        /\ UNCHANGED <<env, l1, db, view, base, warm>>
        /\ t \in TxType /\ rest \in Seq(TxType)
    BY ZenonT(30), <1>4 DEF Begins, Begin, Idle
  <2>2. calls' \in 0..env.calls
    BY <1>2, <2>1
  <2>3. DOMAIN run' = {"gas", "result", "sent", "error"} /\ run'.gas \in GasType /\ run'.sent \in Nat
    BY ZenonT(30), <2>1 DEF NoRun, GasType
  <2>4. DOMAIN call' = {"op", "rest", "start", "done", "error"} /\ call'.rest = rest /\ call'.done = 0
    BY <2>1
  <2> QED
    BY Zenon, <1>1, <2>1, <2>2, <2>3, <2>4 DEF Types
<1>5. CASE SetBlock
  <2>1. calls' = calls + 1 /\ calls < env.calls /\ call' = NoCall
        /\ UNCHANGED <<env, tx, l1, db, view, base, warm, pc, run>>
    BY <1>5 DEF SetBlock, Idle
  <2>2. calls' \in 0..env.calls
    BY <1>2, <2>1
  <2>3. DOMAIN call' = {"op", "rest", "start", "done", "error"} /\ call'.rest \in Seq(TxType) /\ call'.done \in Nat
    BY <2>1 DEF NoCall
  <2> QED
    BY <1>1, <2>1, <2>2, <2>3 DEF Types
<1>6. CASE Finalize
  <2>1. calls' = calls + 1 /\ calls < env.calls /\ call' = NoCall /\ warm' = {}
        /\ UNCHANGED <<env, tx, l1, pc, run>>
        /\ db' \in {db, view} /\ view' \in {db, view} /\ base' \in {db, view}
    BY <1>6 DEF Finalize, Idle
  <2>2. calls' \in 0..env.calls
    BY <1>2, <2>1
  <2>3. DOMAIN call' = {"op", "rest", "start", "done", "error"} /\ call'.rest \in Seq(TxType) /\ call'.done \in Nat
    BY <2>1 DEF NoCall
  <2> QED
    BY <1>1, <2>1, <2>2, <2>3 DEF Types
<1>7. CASE Draft
  <2>1. UNCHANGED <<env, block, tx, l1, db, view, base, warm, pc, call, run, last, calls>>
    BY <1>7 DEF Draft
  <2> QED
    BY <1>1, <2>1 DEF Types
<1>8. WarmCoinbase \subseteq Addresses
  BY EnvParts DEF Types, WarmCoinbase
<1>9. CASE Validate
  <2>1. Handling /\ l1' = l1 /\ view' = view /\ warm' = warm /\ pc' \in Steps8
        /\ (run' = run \/ (\E e : run' = [run EXCEPT !.error = e]))
    BY <1>9 DEF Validate, Fail, Goto
  <2> QED
    BY <1>3, <2>1 DEF Types
<1>10. CASE DeductDeposit
  <2>1. pc = "pre" /\ Handling /\ l1' = l1 /\ run' = run /\ pc' \in Steps8
        /\ warm' = warm \cup {Caller} \cup WarmCoinbase
    BY <1>10 DEF DeductDeposit, Goto
  <2>2. Caller \in Addresses
    BY <2>1, TxParts
  <2>3. view' \in State
    BY <1>10, <2>1, DepositDeducts, DeductedIs
  <2> QED
    BY <1>3, <1>8, <2>1, <2>2, <2>3 DEF Types
<1>11. CASE Deduct
  <2>1. pc = "pre" /\ Handling
        /\ warm' = warm \cup {Caller} \cup (IF pc' = "execution" THEN WarmCoinbase ELSE {})
    BY <1>11 DEF Deduct
  <2>2. Caller \in Addresses
    BY <2>1, TxParts
  <2>3. l1' \in L1Info
    BY <1>11, DeductCharges
  <2>4. \/ pc' = "caught" /\ view' = view /\ \E e : run' = [run EXCEPT !.error = e]
        \/ pc' = "execution" /\ run' = run /\ \E balance \in Nat : view' = Deducted(balance)
    BY <1>11, DeductCharges
  <2>5. view' \in State
    BY <2>1, <2>4, DeductedIs DEF Types
  <2>6. warm' \subseteq Addresses
    BY <1>8, <2>1, <2>2 DEF Types
  <2> QED
    BY <1>3, <2>1, <2>3, <2>4, <2>5, <2>6
<1>12. CASE PreFails \/ ExecutionFails \/ ExecutionResultFails
  <2>1. Handling /\ l1' = l1 /\ view' = view /\ warm' = warm /\ pc' \in Steps8
        /\ (\E e : run' = [run EXCEPT !.error = e])
    BY <1>12 DEF PreFails, ExecutionFails, ExecutionResultFails, DbFails, Fail
  <2> QED
    BY ZenonT(30), <1>3, <2>1 DEF Types
<1>13. CASE Execution
  <2>1. pc = "execution" /\ Handling /\ l1' = l1
    BY <1>13 DEF Execution
  <2>2. PICK r \in {"Stop", "Revert", "OutOfGas", "OutOfFunds", "FatalExternalError"},
             remaining \in 0..T.gas_limit, refunded \in Nat : Execute(r, remaining, refunded)
    BY <1>13, ExecutionRuns
  <2>3. view' \in State /\ pc' \in Steps8 /\ warm' \subseteq Addresses
        /\ DOMAIN run' = {"gas", "result", "sent", "error"} /\ run'.gas \in GasType /\ run'.sent \in Nat
    BY ZenonT(30), <2>1, <2>2, ExecuteIs
  <2> QED
    BY <1>1, <2>1, <2>3 DEF Types, Handling
<1>14. CASE PostExecution
  <2>1. pc = "post" /\ Handling /\ warm' = warm /\ pc' \in Steps8
    BY <1>14 DEF PostExecution, Goto
  <2>2. run' = [run EXCEPT !.gas = settled(run.gas)] /\ view' \in State /\ l1' \in L1Info
    BY <1>14, PostIs
  <2>3. settled(run.gas) \in GasType
    BY <2>1, SettledIs
  <2>4. DOMAIN run' = {"gas", "result", "sent", "error"} /\ run'.gas \in GasType /\ run'.sent \in Nat
    BY <2>2, <2>3 DEF Types
  <2> QED
    BY <1>1, <2>1, <2>2, <2>4 DEF Types, Handling
<1>15. CASE PostFails
  <2>1. pc = "post" /\ Handling /\ warm' = warm /\ l1' = l1 /\ pc' \in Steps8
        /\ view' = reimburse_caller(view, settled(run.gas))
        /\ (\E e : run' = [run EXCEPT !.error = e])
    BY <1>15 DEF PostFails, DbFails, Fail
  <2>2. view' \in State
    BY <2>1, ReimburseIs
  <2> QED
    BY ZenonT(30), <1>3, <2>1, <2>2 DEF Types
<1>16. ASSUME NEW v \in State, NEW used, NEW error, used \in Nat \/ SystemCall \/ Deposit, Include(v, used, error),
              pc # "idle"
       PROVE  Types'
  <2>1. view' \in State /\ base' = view' /\ l1' \in L1Info /\ pc' \in Steps8 /\ warm' = {}
        /\ UNCHANGED <<env, block, tx, db, call, run, calls, draft>>
    BY <1>16, IncludeIs
  <2> QED
    BY <1>1, <2>1 DEF Types
<1>17. CASE ExecutionResult
  <2>1. pc = "result" /\ Include(view, R!used(run.gas), "none")
    BY <1>17 DEF ExecutionResult
  <2>2. R!used(run.gas) \in Nat \/ SystemCall
    <3>1. ~ SystemCall => R!used(run.gas) \in 0..T.gas_limit
      BY Zenon, <2>1 DEF GasBounds
    <3> QED
      BY <3>1
  <2> QED
    BY <1>16, <2>1, <2>2 DEF Types
<1>18. CASE CatchDeposit
  <2> DEFINE v == Credit(BumpNonce(base, Caller), Caller, Minted)
  <2>1. pc = "caught" /\ Deposit /\ \E used, error : Include(v, used, error)
    BY <1>18 DEF CatchDeposit, FailedDeposit
  <2>2. v \in State
    BY ZenonT(30), <2>1, FailedDepositIs
  <2> HIDE DEF v
  <2> QED
    BY <1>16, <2>1, <2>2
<1>19. CASE CatchError
  <2>1. /\ view' = Discarded /\ warm' = (IF IsOp THEN warm ELSE {}) /\ l1' = (IF IsOp THEN clear_tx_l1_cost(l1) ELSE l1)
        /\ call' = [call EXCEPT !.error = run.error] /\ pc' \in Steps8
        /\ UNCHANGED <<env, block, tx, db, base, run, calls, draft>>
    BY <1>19 DEF CatchError, Goto
  <2>2. view' \in State /\ warm' \subseteq Addresses /\ l1' \in L1Info
    BY <2>1, L1Forgets DEF Types, Discarded
  <2>3. DOMAIN call' = DOMAIN call /\ call'.rest = call.rest /\ call'.done = call.done
    BY <2>1 DEF Types
  <2> QED
    BY <1>1, <2>1, <2>2, <2>3 DEF Types
<1>20. NoncesUsed \in Nat
  BY DEF NoncesUsed
<1>21. CASE NextTx
  <2>1. /\ call.rest # <<>> /\ tx' = Head(call.rest) /\ run' = NoRun /\ pc' \in Steps8
        /\ call' = [call EXCEPT !.rest = Tail(@), !.done = @ + NoncesUsed]
        /\ UNCHANGED <<env, block, l1, db, view, base, warm, last, calls, draft>>
    BY <1>21 DEF NextTx, Goto
  <2>2. call.rest \in Seq(TxType) /\ call.done \in Nat
    BY DEF Types
  <2>3. Head(call.rest) \in TxType /\ Tail(call.rest) \in Seq(TxType)
    BY <2>1, <2>2
  <2>4. DOMAIN call' = DOMAIN call /\ call'.rest = Tail(call.rest) /\ call'.done = call.done + NoncesUsed
    BY <2>1 DEF Types
  <2>5. call.done + NoncesUsed \in Nat
    BY <1>20, <2>2
  <2>6. DOMAIN run' = {"gas", "result", "sent", "error"} /\ run'.gas \in GasType /\ run'.sent \in Nat
    BY <2>1 DEF NoRun, GasType
  <2> QED
    BY <1>1, <2>1, <2>3, <2>4, <2>5, <2>6 DEF Types
<1>22. CASE Return
  <2>1. /\ db' \in {db, view} /\ view' \in {db, view} /\ base' \in {db, view, base} /\ warm' \in {{}, warm}
        /\ run' = NoRun /\ pc' \in Steps8
        /\ call' = [call EXCEPT !.done = @ + (IF call.error = "none" THEN NoncesUsed ELSE 0)]
        /\ UNCHANGED <<env, block, tx, l1, calls, draft>>
    BY <1>22 DEF Return, Goto, Settle
  <2>2. call.done \in Nat
    BY DEF Types
  <2>3. DOMAIN call' = DOMAIN call /\ call'.rest = call.rest
        /\ call'.done = call.done + (IF call.error = "none" THEN NoncesUsed ELSE 0)
    BY <2>1 DEF Types
  <2>4. call'.done \in Nat
    BY <1>20, <2>2, <2>3
  <2>5. DOMAIN run' = {"gas", "result", "sent", "error"} /\ run'.gas \in GasType /\ run'.sent \in Nat
    BY <2>1 DEF NoRun, GasType
  <2> QED
    BY <1>1, <2>1, <2>3, <2>4, <2>5 DEF Types
<1>23. CASE UNCHANGED vars
  BY <1>1, <1>23 DEF vars, Types
<1> QED
  BY <1>4, <1>5, <1>6, <1>7, <1>9, <1>10, <1>11, <1>12, <1>13, <1>14, <1>15, <1>17, <1>18, <1>19, <1>21,
     <1>22, <1>23, Steps

=============================================================================
