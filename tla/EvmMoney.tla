------------------------------ MODULE EvmMoney ------------------------------
(***************************************************************************)
(* The money of Evm, step by step, with the invariant of EvmHandled: what  *)
(* a caller holds and owes, the sum of all balances, and what a            *)
(* transaction that is included has paid.                                  *)
(***************************************************************************)
EXTENDS EvmHandled

(* The provers a leaf that names none is given to, in turn. *)
USE SMTT(20), ZenonT(20), Z3T(20)

-----------------------------------------------------------------------------
(* What the caller pays *)

(* The checks of the configuration that make the accounts exact. *)
Exact == StrictCfg \/ (Deposit /\ ~ env.cfg.disable_balance_check)

(* The caller has paid what is owed for the whole gas limit, then for the gas used. *)
CallerInv ==
    /\ Exact /\ pc \in {"execution", "post"} /\ ~ SystemCall =>
          base.acc[Caller].balance - view.acc[Caller].balance = run.sent + Owed(T.gas_limit)
    /\ Exact /\ pc = "result" /\ ~ SystemCall /\ (Deposit \/ Caller \notin {block.beneficiary} \cup Vaults) =>
          base.acc[Caller].balance - view.acc[Caller].balance = run.sent + Owed(R!used(run.gas))
    /\ StrictCfg /\ pc \in {"execution", "post"} /\ ~ SystemCall /\ ~ Deposit => T.gas_limit * Price <= MaxU128
    /\ pc \in {"post", "result"} /\ ~ R!is_ok(run.result) => run.sent = 0
    /\ pc = "caught" /\ Deposit => run.sent = 0

(* A frame that succeeds does not halt. *)
LEMMA OkIsNoHalt ==
    ASSUME NEW r, R!is_ok(r)
    PROVE  ~ R!is_halt(R!success_or_halt(r))
<1>1. R!success_or_halt(r) = R!Outcome("Success", R!Reason(r))
  BY DEF R!success_or_halt, R!is_ok, R!return_ok
<1>2. \A c, x : R!Outcome(c, x).class = c
  BY DEF R!Outcome
<1> QED
  BY <1>1, <1>2 DEF R!is_halt

(* What is owed is a number. *)
LEMMA OwedIs ==
    ASSUME SumsAddUp, Types, Control, GasBounds, pc \in {"pre", "execution", "post"}, ~ SystemCall, NEW gas \in Nat
    PROVE  Owed(gas) \in Int /\ (Deposit => Owed(gas) = - Minted)
<1>1. Minted \in Nat /\ Price \in Nat /\ BlobFee \in Nat
  BY TxParts, BurntIs
<1>2. gas * Price \in Nat
  BY <1>1
<1>3. ~ Deposit => OpFees(gas) \in Nat
  BY OpFeesAre DEF GasBounds
<1> DEFINE p == gas * Price
<1> HIDE DEF p
<1> QED
  BY <1>1, <1>2, <1>3 DEF Owed, p

(* What the caller has paid is kept. *)
LEMMA CallerInvStep ==
    ASSUME SumsAddUp, ~ OpDbErrors, Handled, CallerInv, [Next]_vars
    PROVE  CallerInv'
<1> USE DEF Handled
<1>1. ASSUME pc' \in {"idle", "validate", "pre", "return"} PROVE CallerInv'
  BY <1>1 DEF CallerInv
<1>2. ASSUME pc' = "caught", ~ IsOp' \/ run'.sent = 0 PROVE CallerInv'
  BY <1>2 DEF CallerInv, Deposit, IsOp
<1>3. ASSUME env' = env, block' = block, tx' = tx, call' = call
      PROVE  /\ T' = T /\ Caller' = Caller /\ Price' = Price /\ Minted' = Minted
             /\ (Exact' <=> Exact) /\ (StrictCfg' <=> StrictCfg) /\ (Deposit' <=> Deposit) /\ (SystemCall' <=> SystemCall)
             /\ \A gas : Owed(gas)' = Owed(gas)
  <2>1. T' = T /\ Caller' = Caller /\ (Deposit' <=> Deposit) /\ Minted' = Minted
    BY <1>3, SameTx
  <2>2. Price' = Price /\ \A gas : Owed(gas)' = Owed(gas)
    BY <1>3, SameFees
  <2>3. StrictCfg' <=> StrictCfg
    BY <1>3 DEF StrictCfg
  <2>4. Exact' <=> Exact
    BY <1>3, <2>1, <2>3 DEF Exact
  <2> QED
    BY <1>3, <2>1, <2>2, <2>3, <2>4 DEF SystemCall
<1>4. ASSUME NEW op, NEW t, NEW rest, Begins(op, t, rest) PROVE CallerInv'
  <2>1. pc' = "validate" \/ (pc' = "execution" /\ SystemCall')
    BY <1>4 DEF Begins, Begin, SystemCall
  <2> QED
    BY <2>1 DEF CallerInv
<1>5. CASE SetBlock \/ Finalize
  BY <1>1, <1>5 DEF SetBlock, Finalize, Idle
<1>6. CASE Draft \/ UNCHANGED vars
  <2>1. UNCHANGED <<env, block, tx, call, base, view, run, pc>>
    BY <1>6 DEF Draft, vars
  <2>2. R!used(run.gas)' = R!used(run.gas) /\ (R!is_ok(run.result)' <=> R!is_ok(run.result))
    BY <2>1
  <2> QED
    BY <1>3, <2>1, <2>2 DEF CallerInv
<1>7. ASSUME pc \in {"validate", "pre"}, pc' = "caught", \E e : run' = [run EXCEPT !.error = e]
      PROVE  CallerInv'
  <2>1. run.sent = 0
    BY <1>7 DEF Control, NoRun
  <2>2. run'.sent = 0
    BY <1>7, <2>1, RunKeeps
  <2> QED
    BY <1>2, <1>7, <2>2
<1>8. CASE Validate \/ PreFails
  <2>1. pc \in {"validate", "pre"} /\ (pc' = "pre" \/ (pc' = "caught" /\ \E e : run' = [run EXCEPT !.error = e]))
    BY <1>8 DEF Validate, PreFails, DbFails, Fail, Goto
  <2> QED
    BY <1>1, <1>7, <2>1
<1>9. ASSUME pc = "pre", Handling, pc' = "execution", run' = run,
             NEW balance \in Nat, view' = Deducted(balance),
             Exact => balance = Balance(Caller) - Owed(T.gas_limit),
             StrictCfg /\ ~ Deposit => T.gas_limit * Price <= MaxU128,
             Owed(T.gas_limit) \in Int
      PROVE  CallerInv'
  <2>1. env' = env /\ block' = block /\ tx' = tx /\ call' = call /\ base' = base
    BY <1>9 DEF Handling
  <2>2. view'.acc[Caller].balance = balance
    BY <1>9, DeductedIs
  <2>3. view = base /\ run.sent = 0
    BY <1>9 DEF Clean, Control, NoRun
  <2>4. base.acc[Caller].balance \in Nat
    BY <1>9, TxParts, StateParts DEF Types
  <2>5. Exact => base.acc[Caller].balance - view'.acc[Caller].balance = run.sent + Owed(T.gas_limit)
    BY <1>9, <2>2, <2>3, <2>4 DEF Balance
  <2>6. Exact' => base'.acc[Caller'].balance - view'.acc[Caller'].balance = run'.sent + Owed(T.gas_limit)'
    <3>1. Owed(T.gas_limit)' = Owed(T.gas_limit)
      BY <1>3, <2>1 DEF Owed, OpFees, OperatorFee
    <3> QED
      BY <1>3, <1>9, <2>1, <2>5, <3>1
  <2>7. StrictCfg' /\ ~ Deposit' => T'.gas_limit * Price' <= MaxU128
    BY <1>3, <1>9, <2>1
  <2> QED
    BY <1>9, <2>6, <2>7 DEF CallerInv
<1>10. CASE DeductDeposit
  <2>1. pc = "pre" /\ Handling /\ pc' = "execution" /\ run' = run /\ Deposit
    BY <1>10 DEF DeductDeposit, Goto
  <2>2. PICK balance \in Nat : /\ view' = Deducted(balance)
                               /\ ~ env.cfg.disable_balance_check => balance = Balance(Caller) + Minted
    BY <1>10, DepositDeducts
  <2>3. T.gas_limit \in Nat /\ Minted \in Nat /\ Balance(Caller) \in Nat
    BY <2>1, TxParts, StateParts DEF Balance, Types
  <2>4. Owed(T.gas_limit) = - Minted /\ Owed(T.gas_limit) \in Int
    BY <2>1, <2>3, OwedIs DEF Control
  <2>5. Exact => balance = Balance(Caller) - Owed(T.gas_limit)
    BY <2>2, <2>3, <2>4 DEF Exact, StrictCfg
  <2> QED
    BY <1>9, <2>1, <2>2, <2>4, <2>5
<1>11. CASE Deduct
  <2>1. pc = "pre" /\ Handling /\ ~ Deposit
    BY <1>11 DEF Deduct
  <2>2. \/ pc' = "caught" /\ \E e : run' = [run EXCEPT !.error = e]
        \/ /\ pc' = "execution" /\ run' = run
           /\ \E balance \in Nat :
                 /\ view' = Deducted(balance)
                 /\ StrictCfg => balance = Balance(Caller) - Owed(T.gas_limit) /\ T.gas_limit * Price <= MaxU128
    BY <1>11, DeductCharges
  <2>3. Owed(T.gas_limit) \in Int
    <3>1. T.gas_limit \in Nat
      BY <2>1, TxParts
    <3> QED
      BY <2>1, <3>1, OwedIs DEF Control
  <2>4. Exact => StrictCfg
    BY <2>1 DEF Exact
  <2> QED
    BY <1>7, <1>9, <2>1, <2>2, <2>3, <2>4
<1>12. CASE Execution
  <2>1. pc = "execution" /\ Handling
    BY <1>12 DEF Execution
  <2>2. PICK r \in {"Stop", "Revert", "OutOfGas", "OutOfFunds", "FatalExternalError"},
             remaining \in 0..T.gas_limit, refunded \in Nat : Execute(r, remaining, refunded)
    BY <1>12, ExecutionRuns
  <2>3. /\ view'.acc[Caller].balance = view.acc[Caller].balance - run'.sent
        /\ run'.sent \in Nat /\ run'.result = r /\ (~ R!is_ok(r) => run'.sent = 0)
        /\ pc' = IF SystemCall THEN "result" ELSE "post"
    BY ZenonT(30), <2>1, <2>2, ExecuteIs
  <2>4. UNCHANGED <<env, block, tx, call, base>>
    BY <2>1 DEF Handling
  <2>5. run.sent = 0
    BY <2>1 DEF Control, NoRun
  <2>6. view.acc[Caller].balance \in Nat /\ base.acc[Caller].balance \in Nat
    BY <2>1, TxParts, StateParts DEF Types
  <2> DEFINE owed == Owed(T.gas_limit)
  <2>7. owed' = owed
    BY <1>3, <2>4 DEF Owed, OpFees, OperatorFee
  <2>8. ~ SystemCall => owed \in Int
    BY <2>1, OwedIs, TxParts
  <2>9. Exact /\ ~ SystemCall => base.acc[Caller].balance - view.acc[Caller].balance = run.sent + owed
    BY <2>1 DEF CallerInv
  <2> HIDE DEF owed
  <2>10. Exact /\ ~ SystemCall => base.acc[Caller].balance - view'.acc[Caller].balance = run'.sent + owed
    BY <2>3, <2>5, <2>6, <2>8, <2>9
  <2>11. Exact' /\ ~ SystemCall' => base'.acc[Caller'].balance - view'.acc[Caller'].balance = run'.sent + owed'
    BY <1>3, <2>4, <2>7, <2>10
  <2>12. StrictCfg' /\ ~ SystemCall' /\ ~ Deposit' => T'.gas_limit * Price' <= MaxU128
    BY <1>3, <2>1, <2>4 DEF CallerInv
  <2>13. R!is_ok(run.result)' <=> R!is_ok(r)
    BY <2>3 DEF R!is_ok
  <2>14. pc' = "post" \/ (pc' = "result" /\ SystemCall')
    BY <1>3, <2>3, <2>4
  <2> QED
    BY <2>3, <2>11, <2>12, <2>13, <2>14 DEF CallerInv, owed
<1>13. CASE PostExecution
  <2> DEFINE g == settled(run.gas)
  <2>1. Handling
    BY <1>13 DEF PostExecution
  <2>2. /\ run' = [run EXCEPT !.gas = g] /\ pc = "post" /\ pc' = "result"
        /\ Deposit \/ Caller \notin {block.beneficiary} \cup Vaults =>
              view'.acc[Caller].balance = view.acc[Caller].balance + Back(g)
    BY <1>13, PostIs
  <2>3. ~ SystemCall
    BY <2>2 DEF Control
  <2>4. UNCHANGED <<env, block, tx, call, base>>
    BY <2>1 DEF Handling
  <2>5. view.acc[Caller].balance \in Nat /\ base.acc[Caller].balance \in Nat /\ run.sent \in Nat /\ T.gas_limit \in Nat
    BY <2>2, TxParts, StateParts DEF Types
  <2>6. R!used(g) \in Nat
    BY <2>2, <2>5, SettledIs
  <2>7. Owed(T.gas_limit) \in Int /\ Owed(R!used(g)) \in Int
        /\ (Deposit => Owed(T.gas_limit) = - Minted /\ Owed(R!used(g)) = - Minted)
    BY <2>2, <2>3, <2>5, <2>6, OwedIs
  <2>8. Exact => Back(g) = Owed(T.gas_limit) - Owed(R!used(g))
    <3>1. CASE Deposit
      <4>1. Back(g) = 0
        BY <2>2, <3>1, BackIs
      <4>2. Minted \in Nat
        BY <2>2, TxParts
      <4> QED
        BY <2>7, <3>1, <4>1, <4>2
    <3>2. CASE ~ Deposit
      <4>1. Exact => StrictCfg /\ T.gas_limit * Price <= MaxU128
        BY <2>2, <2>3, <3>2 DEF CallerInv, Exact
      <4> QED
        BY <2>2, <3>2, <4>1, BackIs
    <3> QED
      BY <3>1, <3>2
  <2>9. run'.sent = run.sent /\ run'.result = run.result /\ run'.gas = g
    BY <2>2 DEF Types
  <2> HIDE DEF g
  <2> DEFINE owed == Owed(T.gas_limit)
             settledOwed == Owed(R!used(g))
  <2>10. Exact => base.acc[Caller].balance - view.acc[Caller].balance = run.sent + owed
    BY <2>2, <2>3 DEF CallerInv
  <2> HIDE DEF owed, settledOwed
  <2>11. Exact /\ (Deposit \/ Caller \notin {block.beneficiary} \cup Vaults) =>
            base.acc[Caller].balance - view'.acc[Caller].balance = run.sent + settledOwed
    <3>1. SUFFICES ASSUME Exact, Deposit \/ Caller \notin {block.beneficiary} \cup Vaults
                   PROVE  base.acc[Caller].balance - view'.acc[Caller].balance = run.sent + settledOwed
      OBVIOUS
    <3>2. view'.acc[Caller].balance = view.acc[Caller].balance + Back(g)
      BY <2>2, <3>1
    <3>3. Back(g) = owed - settledOwed /\ owed \in Int /\ settledOwed \in Int
      BY <2>7, <2>8, <3>1 DEF owed, settledOwed
    <3>4. base.acc[Caller].balance - view.acc[Caller].balance = run.sent + owed
      BY <2>10, <3>1
    <3> QED
      BY <2>5, <3>2, <3>3, <3>4
  <2>12. Owed(R!used(run.gas))' = settledOwed
    <3>1. R!used(run.gas)' = R!used(g)
      BY <2>9 DEF R!used, R!spent
    <3>2. Fetched' = Fetched /\ Price' = Price /\ BlobFee' = BlobFee /\ Minted' = Minted
          /\ (IsOp' <=> IsOp) /\ (Deposit' <=> Deposit)
      BY <2>4, SameTx, SameFees
    <3> QED
      BY <2>4, <3>1, <3>2 DEF settledOwed, Owed, OpFees, OperatorFee
  <2>13. Exact' /\ (Deposit' \/ Caller' \notin {block'.beneficiary} \cup Vaults) =>
            base'.acc[Caller'].balance - view'.acc[Caller'].balance = run'.sent + Owed(R!used(run.gas))'
    BY <1>3, <2>4, <2>9, <2>11, <2>12
  <2>14. ~ R!is_ok(run'.result) => run'.sent = 0
    BY <2>2, <2>9 DEF CallerInv
  <2> QED
    BY <2>2, <2>13, <2>14 DEF CallerInv
<1>14. CASE ExecutionFails \/ PostFails
  <2>1. pc' = "caught" /\ ~ IsOp /\ env' = env
    BY <1>14, SettersAssumption DEF ExecutionFails, PostFails, DbFails, Fail, Handling
  <2> QED
    BY <1>2, <2>1 DEF IsOp
<1>15. CASE ExecutionResultFails
  <2>1. pc = "result" /\ pc' = "caught" /\ Handling /\ (run.error # "none" \/ HaltedDeposit)
        /\ \E e : run' = [run EXCEPT !.error = e]
    BY <1>15 DEF ExecutionResultFails, Fail
  <2>2. ~ IsOp \/ HaltedDeposit
    BY <2>1 DEF Control
  <2>3. HaltedDeposit => run.sent = 0
    BY <2>1, OkIsNoHalt DEF HaltedDeposit, CallerInv
  <2>4. run'.sent = run.sent
    BY <2>1, RunKeeps
  <2>5. IsOp' <=> IsOp
    BY <2>1 DEF Handling, IsOp
  <2> QED
    BY <1>2, <2>1, <2>2, <2>3, <2>4, <2>5
<1>16. CASE ExecutionResult \/ CatchDeposit \/ CatchError \/ NextTx \/ Return
  <2>1. pc' \in {"return", "validate", "idle"}
    BY Zenon, <1>16 DEF ExecutionResult, CatchDeposit, FailedDeposit, Include, CatchError, NextTx, Return, Goto
  <2> QED
    BY <1>1, <2>1
<1> QED
  BY <1>4, <1>5, <1>6, <1>8, <1>10, <1>11, <1>12, <1>13, <1>14, <1>15, <1>16, Steps

-----------------------------------------------------------------------------
(* Where the money goes *)

(* A transaction that is accepted on a block pays its base fee. *)
LEMMA BaseFeeIsPaid ==
    ASSUME Types, Control, GasBounds, pc = "post", ~ Deposit, ~ env.cfg.disable_base_fee
    PROVE  block.basefee <= Price
<1>1. validate_env(T, env.cfg, block) = "none"
  BY DEF GasBounds, Control
<1>2. validate_type(T, env.cfg, block) = "none"
  BY <1>1 DEF validate_env, validate_tx_env
<1>3. T.type \in Legacy..Eip7702 /\ Numbers(T, block.basefee, Or(block.blob_price, 0))
  BY TxParts
<1>4. T.gas_price \in Nat /\ block.basefee \in Nat /\ T.priority \in Nat \cup {None} /\ MaxU128 \in Nat
      /\ block.basefee # None /\ None \notin Nat
  BY <1>3 DEF Numbers, None
<1> DEFINE tip == Or(T.priority, 0)
           cap == SatAdd(block.basefee, tip, MaxU128)
<1>5. tip \in Nat /\ cap \in Nat /\ (T.priority # None => tip = T.priority)
  BY <1>4 DEF Or, SatAdd
<1>6. Min({T.gas_price, cap}) = IF T.gas_price <= cap THEN T.gas_price ELSE cap
  BY <1>4, <1>5, MinOfTwo
<1>7. CASE T.type \in {Legacy, Eip2930}
  <2>1. Price = T.gas_price
    BY <1>7 DEF Price, effective_gas_price
  <2>2. validate_legacy_gas_price(T.gas_price, block.basefee) = "none"
    BY <1>2, <1>7 DEF validate_type, TransactionType, Legacy, Eip2930, Eip1559, Eip4844, Eip7702
  <2> QED
    BY <1>4, <2>1, <2>2 DEF validate_legacy_gas_price
<1>8. CASE T.type \notin {Legacy, Eip2930}
  <2>1. ~ (Min({T.gas_price, cap}) < block.basefee)
    <3>1. \E unchecked : validate_priority_fee_tx(T, block.basefee, unchecked) = "none"
      BY <1>2, <1>3, <1>8 DEF validate_type, TransactionType, Legacy, Eip2930, Eip1559, Eip4844, Eip7702
    <3> QED
      BY <1>4, <3>1 DEF validate_priority_fee_tx
  <2>2. T.type # DEPOSIT_TRANSACTION_TYPE
    BY <1>3 DEF Legacy, Eip7702, DEPOSIT_TRANSACTION_TYPE
  <2>3. Price = IF T.priority = None THEN T.gas_price ELSE Min({T.gas_price, cap})
    BY <1>5, <1>8, <2>2 DEF Price, effective_gas_price
  <2> HIDE DEF cap, tip
  <2> QED
    BY <1>4, <1>5, <1>6, <2>1, <2>3
<1> QED
  BY <1>7, <1>8

(* What is owed for the gas used and not paid out is what is burnt. *)
LEMMA FeesAddUp ==
    ASSUME SumsAddUp, Types, Control, Fees, GasBounds, CallerInv, StrictCfg, pc = "post"
    PROVE  LET g == settled(run.gas)
           IN  Owed(R!used(g)) - Rewards(g) = IF Deposit THEN - Minted ELSE Burnt(R!used(g))
<1> DEFINE g == settled(run.gas)
           used == R!used(g)
<1>1. ~ SystemCall /\ T.gas_limit \in Nat /\ Price \in Nat /\ Minted \in Nat /\ block.basefee \in Nat /\ MaxU128 \in Nat
  BY ZenonT(30), TxParts, EnvParts, WidthAssumption DEF Control, Types
<1>2. used \in Nat /\ used <= T.gas_limit
  BY <1>1, SettledIs
<1>3. CASE Deposit
  <2>1. Owed(used) = - Minted /\ Rewards(g) = 0
    BY <1>3 DEF Owed, Rewards
  <2> QED
    BY <1>1, <1>3, <2>1
<1>4. CASE ~ Deposit
  <2> DEFINE paid == used * Price
             low == block.basefee * used
             op == OpFees(used)
             blob == BlobFee
  <2>1. block.basefee <= Price
    BY <1>4, BaseFeeIsPaid DEF StrictCfg
  <2>2. T.gas_limit * Price <= MaxU128
    BY <1>1, <1>4 DEF CallerInv
  <2>3. /\ paid \in Nat /\ low \in Nat /\ low <= paid /\ Price * used = paid
        /\ (Price - block.basefee) * used = paid - low
    <3>1. used * block.basefee <= used * Price /\ used * block.basefee \in Nat /\ used * Price \in Nat
      BY <1>1, <1>2, <2>1, TimesKeepsOrder
    <3>2. (Price - block.basefee) * used = used * Price - used * block.basefee
          /\ block.basefee * used = used * block.basefee /\ Price * used = used * Price
      BY <1>1, <1>2
    <3> QED
      BY <3>1, <3>2
  <2>4. low <= MaxU128
    <3>1. Price * used <= Price * T.gas_limit /\ Price * T.gas_limit \in Nat
      BY <1>1, <1>2, TimesKeepsOrder
    <3>2. Price * T.gas_limit = T.gas_limit * Price
      BY <1>1
    <3> HIDE DEF paid, low
    <3> QED
      BY <1>1, <2>2, <2>3, <3>1, <3>2
  <2>5. SatMul(block.basefee, used, MaxU128) = low
    <3>1. SatMul(block.basefee, used, MaxU128) = IF low > MaxU128 THEN MaxU128 ELSE low
      <4> HIDE DEF used
      <4> QED
        BY ZenonT(30), <1>1, <1>2, SatMulValue
    <3>2. ~ (low > MaxU128)
      <4> HIDE DEF low
      <4> QED
        BY <1>1, <2>3, <2>4
    <3> QED
      BY <3>1, <3>2
  <2>6. Owed(used) = paid + blob + op
    BY <1>4 DEF Owed
  <2>7. blob \in Nat
    BY <1>1, BurntIs
  <2>8. op \in Nat /\ OperatorFee(used) \in Nat /\ (IsOp => l1_cost(Fetched, tx.envelope, env.op) \in Nat)
    BY <1>1, <1>2, <1>4, OpFeesAre DEF GasBounds
  <2>9. Burnt(used) = (IF IsOp \/ ~ Enabled(env.cfg.spec, "LONDON") THEN 0 ELSE Min({block.basefee, Price}) * used) + blob
    BY DEF Burnt, BlobFee
  <2>10. Min({block.basefee, Price}) = block.basefee
    BY <1>1, <2>1, MinOfTwo
  <2>11. Burnt(used) = (IF IsOp \/ ~ Enabled(env.cfg.spec, "LONDON") THEN 0 ELSE low) + blob
    BY <2>9, <2>10
  <2>12. Tip(g) = IF Enabled(env.cfg.spec, "LONDON") THEN paid - low ELSE paid
    <3>1. ~ (block.basefee > Price)
      BY <1>1, <2>1
    <3>2. Tip(g) = (IF ~ Enabled(env.cfg.spec, "LONDON") THEN Price ELSE Price - block.basefee) * used
      BY <3>1 DEF Tip
    <3> HIDE DEF paid, low
    <3> QED
      BY <2>3, <3>2
  <2>13. Rewards(g) = Tip(g) + (IF IsOp THEN VaultFees(g) ELSE 0)
    BY <1>4 DEF Rewards
  <2>14. VaultFees(g) = l1_cost(Fetched, tx.envelope, env.op) + low + OperatorFee(used)
    BY <2>5 DEF VaultFees
  <2>15. op = IF IsOp THEN l1_cost(Fetched, tx.envelope, env.op) + OperatorFee(used) ELSE 0
    BY DEF OpFees
  <2>16. IsOp => Enabled(env.cfg.spec, "LONDON")
    BY EnvParts DEF Types
  <2> HIDE DEF paid, low, op, blob, used
  <2>17. Owed(used) - Rewards(g) = Burnt(used)
    <3>1. CASE IsOp
      BY <2>3, <2>6, <2>7, <2>8, <2>11, <2>12, <2>13, <2>14, <2>15, <2>16, <3>1
    <3>2. CASE ~ IsOp
      BY <2>3, <2>6, <2>7, <2>11, <2>12, <2>13, <2>15, <3>2
    <3> QED
      BY <3>1, <3>2
  <2> QED
    BY <1>4, <2>17 DEF used
<1> QED
  BY <1>3, <1>4

(* What there is in the accounts, while a transaction is handled. *)
Money ==
    /\ StrictCfg => Balances(db) = db.supply /\ Balances(base) = base.supply
    /\ StrictCfg /\ pc \in {"execution", "post", "result"} => view.supply = base.supply
    /\ StrictCfg /\ pc \in {"execution", "post"} =>
          Balances(view) = base.supply - (IF SystemCall THEN 0 ELSE Owed(T.gas_limit))
    /\ StrictCfg /\ pc = "result" =>
          Balances(view) = base.supply
              + (IF SystemCall THEN 0 ELSE IF Deposit THEN Minted ELSE - Burnt(R!used(run.gas)))

(* The three kinds of steps that include a transaction leave a journal that adds up. *)
LEMMA MoneyIncluded ==
    ASSUME SumsAddUp, Types, Control, GasBounds, Money, ExecutionResult \/ CatchDeposit
    PROVE  Money'
<1>1. pc # "idle" /\ (pc = "result" => run.gas \in GasType)
  BY DEF ExecutionResult, CatchDeposit, Types
<1> DEFINE done(v, used) == v.supply + Minted - (IF SystemCall \/ Deposit THEN 0 ELSE Burnt(used))
<1>2. ASSUME NEW v \in State, NEW used, NEW error, used \in Nat \/ SystemCall \/ Deposit, Include(v, used, error),
             StrictCfg => Balances(v) = done(v, used)
      PROVE  Money'
  <2>1. view' \in State /\ base' = view' /\ view'.acc = v.acc /\ view'.supply = done(v, used)
        /\ pc' = "return" /\ env' = env /\ db' = db
    BY <1>1, <1>2, IncludeIs
  <2>2. Balances(view') = Balances(v)
    BY <1>2, <2>1, SumsOf
  <2>3. StrictCfg' <=> StrictCfg
    BY <2>1 DEF StrictCfg
  <2>4. Balances(base)' = Balances(v) /\ Balances(db)' = Balances(db)
    BY <2>1, <2>2 DEF Balances
  <2> QED
    BY <1>2, <2>1, <2>3, <2>4 DEF Money
<1>3. Minted \in Nat /\ base.supply \in Int /\ view.supply \in Int /\ view \in State /\ base \in State
      /\ (~ Deposit => Minted = 0) /\ (Deposit => ~ SystemCall)
  BY <1>1, TxParts DEF Types, State
<1>4. CASE ExecutionResult
  <2> DEFINE used == R!used(run.gas)
  <2>1. pc = "result" /\ Include(view, used, "none")
    BY <1>4 DEF ExecutionResult
  <2>2. used \in Nat \/ SystemCall
    BY <2>1 DEF GasBounds
  <2>3. used \in Nat => Burnt(used) \in Nat
    BY <2>1, BurntIs
  <2> HIDE DEF used
  <2>4. StrictCfg => Balances(view) = done(view, used)
    BY <1>3, <2>1, <2>2, <2>3 DEF Money, used
  <2> QED
    BY <1>2, <1>3, <2>1, <2>2, <2>4
<1>5. CASE CatchDeposit
  <2> DEFINE v == Credit(BumpNonce(base, Caller), Caller, Minted)
             used == IF Regolith \/ ~ tx.system THEN T.gas_limit ELSE 0
  <2>1. Deposit /\ Include(v, used, "FailedDeposit")
    BY <1>5 DEF CatchDeposit, FailedDeposit
  <2>2. v \in State /\ v.supply = base.supply /\ Balances(v) = Balances(base) + Minted
    BY <1>1, FailedDepositIs
  <2> HIDE DEF v, used
  <2>3. StrictCfg => Balances(v) = done(v, used)
    BY <1>3, <2>1, <2>2 DEF Money
  <2> QED
    BY <1>2, <2>1, <2>2, <2>3
<1> QED
  BY <1>4, <1>5

(* Every step keeps it. *)
LEMMA MoneyStep ==
    ASSUME SumsAddUp, ~ OpDbErrors, Handled, Clean', CallerInv, Money, [Next]_vars
    PROVE  Money'
<1> USE DEF Handled
<1>1. ASSUME env' = env, {db', base'} \subseteq {db, base}, pc' \in {"idle", "validate", "pre", "caught", "return"}
      PROVE  Money'
  <2>1. StrictCfg' <=> StrictCfg
    BY <1>1 DEF StrictCfg
  <2>2. StrictCfg => \A v \in {db', base'} : Balances(v) = v.supply
    BY <1>1 DEF Money
  <2>3. Balances(db)' = Balances(db') /\ Balances(base)' = Balances(base')
    BY DEF Balances
  <2> QED
    BY <1>1, <2>1, <2>2, <2>3 DEF Money
<1>2. ASSUME env' = env, block' = block, tx' = tx, call' = call, db' = db, base' = base
      PROVE  /\ T' = T /\ (StrictCfg' <=> StrictCfg) /\ (SystemCall' <=> SystemCall) /\ (Deposit' <=> Deposit)
             /\ Minted' = Minted /\ Owed(T.gas_limit)' = Owed(T.gas_limit)
             /\ (StrictCfg' => (Balances(db) = db.supply)' /\ (Balances(base) = base.supply)')
  <2>1. T' = T /\ (Deposit' <=> Deposit) /\ Minted' = Minted
    BY <1>2, SameTx
  <2>2. StrictCfg' <=> StrictCfg
    BY <1>2 DEF StrictCfg
  <2>3. Owed(T.gas_limit)' = Owed(T.gas_limit)
    BY <1>2, <2>1, SameFees DEF Owed, OpFees, OperatorFee
  <2>4. Balances(db)' = Balances(db) /\ Balances(base)' = Balances(base)
    BY <1>2 DEF Balances
  <2> QED
    BY <1>2, <2>1, <2>2, <2>3, <2>4 DEF SystemCall, Money
<1>3. pc \in {"idle", "return"} => view = base
  BY DEF Clean
<1>4. ASSUME NEW op, NEW t, NEW rest, Begins(op, t, rest) PROVE Money'
  <2>1. pc = "idle" /\ UNCHANGED <<env, db, view, base>> /\ (pc' = "validate" \/ (pc' = "execution" /\ SystemCall'))
    BY <1>4 DEF Begins, Begin, SystemCall, Idle
  <2>2. CASE pc' = "validate"
    BY <1>1, <2>1, <2>2
  <2>3. CASE pc' = "execution" /\ SystemCall'
    <3>1. view' = base' /\ base' = base /\ db' = db /\ (StrictCfg' <=> StrictCfg)
      BY <1>3, <2>1 DEF StrictCfg
    <3>2. Balances(db)' = Balances(db) /\ Balances(base)' = Balances(base) /\ Balances(view)' = Balances(base)
      BY <3>1 DEF Balances
    <3>3. base.supply \in Int
      BY DEF Types, State
    <3> QED
      BY <2>3, <3>1, <3>2, <3>3 DEF Money
  <2> QED
    BY <2>1, <2>2, <2>3
<1>5. CASE SetBlock \/ Finalize
  BY <1>1, <1>3, <1>5 DEF SetBlock, Finalize, Idle
<1>6. CASE Draft \/ UNCHANGED vars
  <2>1. UNCHANGED <<env, block, tx, call, db, base, view, run, pc>>
    BY ZenonT(30), <1>6 DEF Draft, vars
  <2>2. Balances(view)' = Balances(view) /\ R!used(run.gas)' = R!used(run.gas)
    BY <2>1 DEF Balances
  <2>3. Burnt(R!used(run.gas))' = Burnt(R!used(run.gas))
    BY ZenonT(30), <2>1, <2>2, SameTx, SameFees DEF Burnt
  <2> QED
    BY <1>2, <2>1, <2>2, <2>3 DEF Money
<1>7. CASE Validate \/ PreFails \/ ExecutionFails \/ PostFails \/ ExecutionResultFails
  <2>1. pc' \in {"pre", "caught"} /\ Handling
    BY <1>7 DEF Validate, PreFails, ExecutionFails, PostFails, ExecutionResultFails, DbFails, Fail, Goto
  <2> QED
    BY <1>1, <2>1 DEF Handling
<1>8. ASSUME pc = "pre", Handling, pc' = "execution",
             NEW balance \in Nat, view' = Deducted(balance),
             StrictCfg => balance = Balance(Caller) - Owed(T.gas_limit),
             Owed(T.gas_limit) \in Int
      PROVE  Money'
  <2>1. UNCHANGED <<env, block, tx, call, db, base>>
    BY <1>8 DEF Handling
  <2>2. view'.supply = view.supply /\ Balances(view') = Balances(view) + (balance - Balance(Caller))
    BY <1>8, DeductedIs
  <2>3. view = base
    BY <1>8 DEF Clean
  <2>4. Balance(Caller) \in Nat /\ base.supply \in Int /\ Balances(view) \in Int
    BY Zenon, <1>8, TxParts, StateParts, SumsOf DEF Types, Balance, State
  <2>5. ~ SystemCall
    BY ZenonT(30), <1>8 DEF Control
  <2> DEFINE owed == Owed(T.gas_limit)
  <2>6. owed' = owed
    BY <1>2, <2>1
  <2>7. StrictCfg => view'.supply = base.supply /\ Balances(view') = base.supply - owed
    <3>1. StrictCfg => Balances(view) = base.supply
      BY <2>3 DEF Money
    <3>2. owed \in Int
      BY <1>8
    <3>3. StrictCfg => balance = Balance(Caller) - owed
      BY <1>8
    <3> HIDE DEF owed
    <3> QED
      BY <1>8, <2>2, <2>3, <2>4, <3>1, <3>2, <3>3
  <2>8. Balances(view)' = Balances(view')
    BY DEF Balances
  <2> QED
    BY <1>2, <1>8, <2>1, <2>5, <2>6, <2>7, <2>8 DEF Money
<1>9. CASE DeductDeposit
  <2>1. pc = "pre" /\ Handling /\ pc' = "execution" /\ Deposit
    BY <1>9 DEF DeductDeposit, Goto
  <2>2. PICK balance \in Nat : /\ view' = Deducted(balance)
                               /\ ~ env.cfg.disable_balance_check => balance = Balance(Caller) + Minted
    BY <1>9, DepositDeducts
  <2>3. T.gas_limit \in Nat /\ Minted \in Nat /\ Balance(Caller) \in Nat
    BY <2>1, TxParts, StateParts DEF Balance, Types
  <2>4. Owed(T.gas_limit) = - Minted /\ Owed(T.gas_limit) \in Int
    BY <2>1, <2>3, OwedIs DEF Control
  <2>5. StrictCfg => balance = Balance(Caller) - Owed(T.gas_limit)
    BY <2>2, <2>3, <2>4 DEF StrictCfg
  <2> QED
    BY <1>8, <2>1, <2>2, <2>4, <2>5
<1>10. CASE Deduct
  <2>1. pc = "pre" /\ Handling
    BY <1>10 DEF Deduct
  <2>2. \/ pc' = "caught"
        \/ /\ pc' = "execution"
           /\ \E balance \in Nat :
                 view' = Deducted(balance) /\ (StrictCfg => balance = Balance(Caller) - Owed(T.gas_limit))
    BY <1>10, DeductCharges
  <2>3. Owed(T.gas_limit) \in Int
    <3>1. T.gas_limit \in Nat /\ ~ SystemCall
      BY Zenon, <2>1, TxParts DEF Control
    <3> QED
      BY <2>1, <3>1, OwedIs
  <2>4. CASE pc' = "caught"
    BY <1>1, <2>1, <2>4 DEF Handling
  <2> QED
    BY <1>8, <2>1, <2>2, <2>3, <2>4
<1>11. CASE Execution
  <2>1. pc = "execution" /\ Handling
    BY <1>11 DEF Execution
  <2>2. PICK r \in {"Stop", "Revert", "OutOfGas", "OutOfFunds", "FatalExternalError"},
             remaining \in 0..T.gas_limit, refunded \in Nat : Execute(r, remaining, refunded)
    BY <1>11, ExecutionRuns
  <2>3. view'.supply = view.supply /\ Balances(view') = Balances(view) /\ pc' = IF SystemCall THEN "result" ELSE "post"
    BY ZenonT(30), <2>1, <2>2, ExecuteIs
  <2>4. UNCHANGED <<env, block, tx, call, db, base>>
    BY <2>1 DEF Handling
  <2>5. Balances(view)' = Balances(view)
    BY <2>3 DEF Balances
  <2> DEFINE taken == IF SystemCall THEN 0 ELSE Owed(T.gas_limit)
  <2>6. StrictCfg => view.supply = base.supply /\ Balances(view) = base.supply - taken
    BY ZenonT(30), <2>1 DEF Money
  <2>7. /\ (StrictCfg' <=> StrictCfg) /\ (SystemCall' <=> SystemCall) /\ taken' = taken
        /\ (StrictCfg' => (Balances(db) = db.supply)' /\ (Balances(base) = base.supply)')
    BY <1>2, <2>4
  <2>8. StrictCfg' => view'.supply = base'.supply /\ Balances(view)' = base'.supply - taken'
    <3> HIDE DEF taken
    <3> QED
      BY <2>3, <2>4, <2>5, <2>6, <2>7
  <2>9. CASE SystemCall
    <3>1. pc' = "result" /\ taken' = 0 /\ base'.supply \in Int
      BY <2>3, <2>4, <2>7, <2>9 DEF Types, State
    <3>2. StrictCfg' => Balances(view)' = base'.supply + 0
      <4> HIDE DEF taken
      <4> QED
        BY <2>8, <3>1
    <3> QED
      BY <2>7, <2>8, <2>9, <3>1, <3>2 DEF Money
  <2>10. CASE ~ SystemCall
    <3>1. pc' = "post"
      BY <2>3, <2>10
    <3> QED
      BY <2>7, <2>8, <3>1 DEF Money
  <2> QED
    BY <2>9, <2>10
<1>12. CASE PostExecution
  <2> DEFINE g == settled(run.gas)
             used == R!used(g)
             taken == IF Deposit THEN Minted ELSE - Burnt(used)
  <2>1. Handling
    BY <1>12 DEF PostExecution
  <2>2. /\ run' = [run EXCEPT !.gas = g] /\ pc = "post" /\ pc' = "result" /\ view'.supply = view.supply
        /\ Balances(view') = Balances(view) + Back(g) + Rewards(g) /\ Back(g) \in Nat /\ Rewards(g) \in Nat
    BY <1>12, PostIs
  <2>3. UNCHANGED <<env, block, tx, call, db, base>> /\ ~ SystemCall
    BY <2>1, <2>2 DEF Handling, Control
  <2>4. T.gas_limit \in Nat /\ used \in Nat /\ base.supply \in Int /\ Minted \in Nat
    BY <2>2, TxParts, SettledIs DEF Types, State
  <2>5. Owed(T.gas_limit) \in Int /\ Owed(used) \in Int /\ Burnt(used) \in Nat
        /\ (Deposit => Owed(T.gas_limit) = - Minted /\ Owed(used) = - Minted)
    BY <2>2, <2>3, <2>4, OwedIs, BurntIs
  <2>6. StrictCfg => Back(g) = Owed(T.gas_limit) - Owed(used)
    <3>1. CASE Deposit
      <4>1. Back(g) = 0
        BY <2>2, <3>1, BackIs
      <4> QED
        BY <2>4, <2>5, <3>1, <4>1
    <3>2. CASE ~ Deposit
      <4>1. StrictCfg => T.gas_limit * Price <= MaxU128
        BY <2>2, <2>3, <3>2 DEF CallerInv
      <4> QED
        BY <2>2, <3>2, <4>1, BackIs
    <3> QED
      BY <3>1, <3>2
  <2>7. StrictCfg => Owed(used) - Rewards(g) = IF Deposit THEN - Minted ELSE Burnt(used)
    BY <2>2, FeesAddUp
  <2>8. StrictCfg => view.supply = base.supply /\ Balances(view) = base.supply - Owed(T.gas_limit)
    BY <2>2, <2>3 DEF Money
  <2>9. run'.gas = g
    BY <2>2 DEF Types
  <2>10. Burnt(R!used(run.gas))' = Burnt(used)
    <3>1. R!used(run.gas)' = used
      BY <2>9 DEF R!used, R!spent
    <3>2. T' = T /\ (IsOp' <=> IsOp) /\ Price' = Price
      BY <2>3, SameTx, SameFees
    <3> QED
      BY <2>3, <3>1, <3>2 DEF Burnt
  <2> HIDE DEF g, used
  <2>11. StrictCfg => Balances(view') = base.supply + taken
    BY <2>2, <2>4, <2>5, <2>6, <2>7, <2>8
  <2>12. Balances(view)' = Balances(view')
    BY DEF Balances
  <2> QED
    BY <1>2, <2>2, <2>3, <2>8, <2>10, <2>11, <2>12 DEF Money
<1>13. CASE ExecutionResult \/ CatchDeposit
  BY <1>13, MoneyIncluded
<1>14. CASE CatchError \/ NextTx
  <2>1. env' = env /\ db' = db /\ base' = base /\ pc' \in {"return", "validate"}
    BY <1>14 DEF CatchError, NextTx, Goto
  <2> QED
    BY <1>1, <2>1
<1>15. CASE Return
  <2>1. env' = env /\ pc' = "idle" /\ pc = "return" /\ (Settle(db) \/ Settle(view) \/ UNCHANGED <<db, view, base, warm>>)
    BY <1>15 DEF Return, Goto
  <2>2. {db', base'} \subseteq {db, base}
    BY <1>3, <2>1 DEF Settle
  <2> QED
    BY <1>1, <2>1, <2>2
<1> QED
  BY <1>4, <1>5, <1>6, <1>7, <1>9, <1>10, <1>11, <1>12, <1>13, <1>14, <1>15, Steps

(* What the last transaction left is what its caller paid for. *)
Paid ==
    pc = "return" /\ (Deposit \/ call.error = "none") /\ ~ SystemCall =>
        /\ call.error = "none" /\ last.before \in State /\ last.run.sent \in Nat
        /\ Exact /\ (Deposit \/ Caller \notin {block.beneficiary} \cup Vaults) =>
              last.before.acc[Caller].balance - last.after.acc[Caller].balance = last.run.sent + Owed(last.used)
        /\ Deposit => last.after.acc[Caller].nonce = last.before.acc[Caller].nonce + 1 \/ NonceKept
        /\ Deposit /\ ~ Regolith => last.used \in {0, T.gas_limit}

(* Every step keeps it. *)
LEMMA PaidStep ==
    ASSUME SumsAddUp, ~ OpDbErrors, Handled, CallerInv, Paid, [Next]_vars
    PROVE  Paid'
<1> USE DEF Handled
<1>1. ASSUME pc' # "return" PROVE Paid'
  BY <1>1 DEF Paid
<1>2. ASSUME UNCHANGED <<env, block, tx, call>>
      PROVE  /\ T' = T /\ Caller' = Caller /\ (Deposit' <=> Deposit) /\ (Regolith' <=> Regolith)
             /\ (Exact' <=> Exact) /\ (SystemCall' <=> SystemCall)
             /\ \A gas : last'.used = gas => Owed(last.used)' = Owed(gas)
  <2>1. T' = T /\ Caller' = Caller /\ (Deposit' <=> Deposit) /\ (Regolith' <=> Regolith) /\ (IsOp' <=> IsOp) /\ Minted' = Minted
    BY <1>2, SameTx
  <2>2. (Exact' <=> Exact) /\ (SystemCall' <=> SystemCall)
    BY <1>2, <2>1 DEF Exact, StrictCfg, SystemCall
  <2>3. Fetched' = Fetched /\ Price' = Price /\ BlobFee' = BlobFee
    BY <1>2, SameFees
  <2> QED
    BY <1>2, <2>1, <2>2, <2>3 DEF Owed, OpFees, OperatorFee
<1>3. ASSUME NEW op, NEW t, NEW rest, Begins(op, t, rest) PROVE Paid'
  BY <1>1, <1>3 DEF Begins, Begin
<1>4. CASE Draft \/ UNCHANGED vars
  <2>1. UNCHANGED <<env, block, tx, call, pc, last>>
    BY ZenonT(30), <1>4 DEF Draft, vars
  <2>2. Owed(last.used)' = Owed(last.used) /\ (NonceKept' <=> NonceKept)
    BY <1>2, <2>1 DEF NonceKept
  <2> QED
    BY Zenon, <1>2, <2>1, <2>2 DEF Paid
<1>5. CASE SetBlock \/ Finalize \/ Return \/ NextTx
  BY <1>1, <1>5 DEF SetBlock, Finalize, Idle, Return, NextTx, Goto
<1>6. CASE Validate \/ DeductDeposit \/ Deduct \/ PreFails \/ Execution \/ ExecutionFails
           \/ PostExecution \/ PostFails \/ ExecutionResultFails
  <2>1. pc' \in {"pre", "caught", "execution", "post", "result"}
    BY ZenonT(30), <1>6 DEF Validate, DeductDeposit, Deduct, PreFails, Execution, Execute, ExecutionFails, PostExecution, PostFails,
       ExecutionResultFails, Goto, Fail, DbFails
  <2> QED
    BY <1>1, <2>1
<1>7. CASE CatchError
  <2>1. /\ pc = "caught" /\ ~ (Deposit /\ run.error # "Database") /\ call' = [call EXCEPT !.error = run.error]
        /\ UNCHANGED <<env, tx>>
    BY <1>7 DEF CatchError
  <2>2. call'.error = run.error /\ run.error # "none" /\ (IsOp => run.error # "Database")
    BY <2>1 DEF Types, Control
  <2>3. ~ Deposit'
    BY <2>1, <2>2, SameTx DEF Deposit
  <2> QED
    BY <2>2, <2>3 DEF Paid
<1>8. CASE ExecutionResult \/ CatchDeposit
  <2>1. /\ base' \in State /\ view' = base' /\ last'.after = view' /\ pc' = "return"
        /\ UNCHANGED <<env, block, tx, db, call, run>> /\ call.error = "none" /\ pc \in {"result", "caught"}
        /\ NoncesUsed' \in {0, 1} /\ Caller \in Addresses
        /\ \A a \in Addresses : base'.acc[a].nonce = base.acc[a].nonce + (IF a = Caller THEN NoncesUsed' ELSE 0)
    BY <1>8, IncludedUses
  <2>2. last'.before = base /\ last'.run = run
    BY <1>8 DEF ExecutionResult, CatchDeposit, FailedDeposit, Include
  <2>3. base \in State /\ run.sent \in Nat
    BY DEF Types
  <2>4. SUFFICES ASSUME ~ SystemCall
        PROVE  /\ Exact /\ (Deposit \/ Caller \notin {block.beneficiary} \cup Vaults) =>
                     base.acc[Caller].balance - view'.acc[Caller].balance = run.sent + Owed(last'.used)
               /\ Deposit /\ ~ Regolith => last'.used \in {0, T.gas_limit}
    <3>1. Owed(last.used)' = Owed(last'.used)
      BY ZenonT(30), <1>2, <2>1
    <3>2. Deposit' /\ ~ SystemCall' => last'.after.acc[Caller].nonce = last'.before.acc[Caller].nonce + 1 \/ NonceKept'
      BY ZenonT(30), <2>1, <2>2 DEF NoncesUsed, SystemCall
    <3> QED
      BY ZenonT(30), <1>2, <2>1, <2>2, <2>3, <3>1, <3>2 DEF Paid
  <2>5. CASE ExecutionResult
    <3>1. pc = "result" /\ Include(view, R!used(run.gas), "none")
      BY <2>5 DEF ExecutionResult
    <3>2. last'.used = R!used(run.gas) /\ view'.acc = view.acc
      <4>1. R!used(run.gas) \in Nat
        BY <2>4, <3>1, TxParts DEF GasBounds
      <4>2. view \in State /\ pc # "idle" /\ Include(view, R!used(run.gas), "none")
        BY <3>1 DEF Types
      <4> QED
        BY <4>1, <4>2, IncludeIs
    <3> QED
      BY Zenon, <2>4, <3>1, <3>2 DEF CallerInv, GasBounds
  <2>6. CASE CatchDeposit
    <3> DEFINE v == Credit(BumpNonce(base, Caller), Caller, Minted)
               used == IF Regolith \/ ~ tx.system THEN T.gas_limit ELSE 0
    <3>1. pc = "caught" /\ Deposit /\ Include(v, used, "FailedDeposit")
      BY <2>6 DEF CatchDeposit, FailedDeposit
    <3>2. v \in State /\ v.acc[Caller].balance = base.acc[Caller].balance + Minted
      BY Zenon, <3>1, FailedDepositIs
    <3>3. last'.used = used /\ view'.acc = v.acc
      <4> HIDE DEF v, used
      <4>1. v \in State /\ Include(v, used, "FailedDeposit") /\ Deposit /\ pc # "idle"
        BY <3>1, <3>2
      <4> QED
        BY <4>1, IncludeIs
    <3>4. run.sent = 0 /\ Minted \in Nat /\ base.acc[Caller].balance \in Nat
      BY ZenonT(30), <3>1, TxParts, StateParts DEF CallerInv, Types
    <3>5. Owed(last'.used) = - Minted
      BY <3>1 DEF Owed
    <3>6. last'.used \in {0, T.gas_limit}
      BY <3>3
    <3> HIDE DEF v, used
    <3>7. view'.acc[Caller].balance = base.acc[Caller].balance + Minted
      BY ZenonT(30), <3>2, <3>3
    <3>8. base.acc[Caller].balance - view'.acc[Caller].balance = run.sent + Owed(last'.used)
      BY <3>4, <3>5, <3>7
    <3> QED
      BY ZenonT(30), <3>6, <3>8
  <2> QED
    BY <1>8, <2>5, <2>6
<1> QED
  BY <1>3, <1>4, <1>5, <1>6, <1>7, <1>8, Steps

(* The inductive invariant of the accounts. *)
Accounted == Handled /\ CallerInv /\ Money /\ Paid

=============================================================================
