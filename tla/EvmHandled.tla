----------------------------- MODULE EvmHandled -----------------------------
(***************************************************************************)
(* The inductive invariant of Evm, step by step, and with it that a        *)
(* transaction leaves all of its effects or none and that a step of the    *)
(* handler is one of the ledger or none.                                   *)
(***************************************************************************)
EXTENDS EvmSteps

(* The provers a leaf that names none is given to, in turn. *)
USE SMTT(20), ZenonT(20), Z3T(20)

-----------------------------------------------------------------------------
(* The journal, the fees and the gas *)

(* The journal is that of the last finished transaction except while one is handled. *)
LEMMA CleanStep ==
    ASSUME SumsAddUp, ~ OpDbErrors, Types, Control, Fees, GasBounds, Clean, [Next]_vars
    PROVE  Clean'
<1>1. ASSUME env' = env, tx' = tx PROVE (IsOp' <=> IsOp) /\ (Deposit' <=> Deposit)
  BY <1>1, SameTx
<1>2. ASSUME NEW op, NEW t, NEW rest, Begins(op, t, rest) PROVE Clean'
  <2>1. pc = "idle" /\ view' = view /\ base' = base /\ pc' \in {"validate", "execution"}
    BY <1>2 DEF Begins, Begin, Idle
  <2> QED
    BY <2>1 DEF Clean
<1>3. CASE SetBlock
  <2>1. view' = view /\ base' = base /\ pc' = "idle" /\ pc = "idle"
    BY <1>3 DEF SetBlock, Idle
  <2> QED
    BY <2>1 DEF Clean
<1>4. CASE Finalize
  <2>1. view' = base'
    BY <1>4 DEF Finalize
  <2> QED
    BY <2>1 DEF Clean
<1>5. CASE Validate \/ PreFails
  <2>1. view' = view /\ base' = base /\ pc \in {"validate", "pre"}
    BY <1>5 DEF Validate, PreFails, Handling
  <2> QED
    BY <2>1 DEF Clean
<1>6. CASE Deduct
  <2>1. pc = "pre" /\ Handling
    BY <1>6 DEF Deduct
  <2>2. (pc' = "caught" /\ view' = view) \/ pc' = "execution"
    BY <1>6, DeductCharges
  <2>3. ~ SystemCall' /\ base' = base /\ view = base
    BY <2>1 DEF Control, Handling, SystemCall, Clean
  <2> QED
    BY <2>2, <2>3 DEF Clean
<1>7. CASE DeductDeposit
  <2>1. pc = "pre" /\ Handling /\ pc' = "execution"
    BY <1>7 DEF DeductDeposit, Goto
  <2>2. ~ SystemCall'
    BY <2>1 DEF Control, Handling, SystemCall
  <2> QED
    BY <2>1, <2>2 DEF Clean
<1>8. CASE Execution \/ PostExecution
  <2>1. pc' \in {"post", "result"}
    BY <1>8 DEF Execution, Execute, PostExecution, Goto
  <2> QED
    BY <2>1 DEF Clean
<1>9. CASE ExecutionFails \/ PostFails
  <2>1. pc' = "caught" /\ ~ IsOp /\ Handling
    BY <1>9, SettersAssumption DEF ExecutionFails, PostFails, DbFails, Fail
  <2>2. ~ IsOp'
    BY <1>1, <2>1 DEF Handling
  <2> QED
    BY <2>1, <2>2 DEF Clean
<1>10. CASE ExecutionResultFails
  <2>1. pc = "result" /\ pc' = "caught" /\ Handling /\ (run.error # "none" \/ HaltedDeposit)
    BY <1>10 DEF ExecutionResultFails, Fail
  <2>2. ~ IsOp \/ Deposit
    BY <2>1 DEF Control, HaltedDeposit
  <2>3. ~ IsOp' \/ Deposit'
    BY <1>1, <2>1, <2>2 DEF Handling
  <2> QED
    BY <2>1, <2>3 DEF Clean
<1>11. CASE ExecutionResult \/ CatchDeposit
  <2>1. view' = base' /\ pc' = "return"
    BY <1>11 DEF ExecutionResult, CatchDeposit, FailedDeposit, Include, Goto
  <2> QED
    BY <2>1 DEF Clean
<1>12. CASE CatchError
  <2>1. pc = "caught" /\ ~ (Deposit /\ run.error # "Database") /\ view' = Discarded /\ pc' = "return" /\ base' = base
    BY <1>12 DEF CatchError, Goto
  <2>2. IsOp => ~ Deposit
    BY <2>1 DEF Control
  <2>3. view' = base
    BY <2>1, <2>2 DEF Clean, Discarded
  <2> QED
    BY <2>1, <2>3 DEF Clean
<1>13. CASE NextTx
  <2>1. pc = "return" /\ pc' = "validate" /\ view' = view /\ base' = base
    BY <1>13 DEF NextTx, Goto
  <2> QED
    BY <2>1 DEF Clean
<1>14. CASE Return
  <2>1. pc = "return" /\ pc' = "idle" /\ (view' = base' \/ (view' = view /\ base' = base))
    BY <1>14 DEF Return, Goto, Settle
  <2> QED
    BY <2>1 DEF Clean
<1>15. CASE Draft \/ UNCHANGED vars
  <2>1. view' = view /\ base' = base /\ pc' = pc /\ env' = env /\ tx' = tx /\ (SystemCall' <=> SystemCall)
    BY <1>15 DEF vars, Draft, SystemCall
  <2> QED
    BY <1>1, <2>1 DEF Clean
<1> QED
  BY <1>2, <1>3, <1>4, <1>5, <1>6, <1>7, <1>8, <1>9, <1>10, <1>11, <1>12, <1>13, <1>14, <1>15, Steps

(* The gas of a transaction stays within its limit. *)
LEMMA GasBoundsStep ==
    ASSUME SumsAddUp, ~ OpDbErrors, Types, Control, Fees, GasBounds, [Next]_vars
    PROVE  GasBounds'
<1>1. ASSUME env' = env, tx' = tx
      PROVE  T' = T /\ (IsOp' <=> IsOp) /\ (Deposit' <=> Deposit) /\ (Regolith' <=> Regolith)
  BY <1>1, SameTx
<1>2. ASSUME pc' \in {"idle", "validate", "caught", "return"} PROVE GasBounds'
  BY <1>2 DEF GasBounds
<1>3. ASSUME NEW op, NEW t, NEW rest, Begins(op, t, rest) PROVE GasBounds'
  <2>1. pc' = "validate" \/ (pc' = "execution" /\ SystemCall')
    BY <1>3 DEF Begins, Begin, SystemCall
  <2> QED
    BY <2>1 DEF GasBounds
<1>4. CASE SetBlock
  BY <1>2, <1>4 DEF SetBlock, Idle
<1>5. CASE Finalize
  BY <1>2, <1>5 DEF Finalize, Idle
<1>6. ASSUME env' = env, tx' = tx, block' = block, call' = call, run' = run, pc' = pc PROVE GasBounds'
  BY <1>1, <1>6 DEF GasBounds, SystemCall
<1>7. CASE Draft
  BY <1>6, <1>7 DEF Draft
<1>8. CASE UNCHANGED vars
  BY <1>6, <1>8 DEF vars
<1>9. CASE Validate
  <2>1. pc = "validate" /\ Handling
        /\ LET invalid == IF IsOp THEN op_validate_env ELSE validate_env(T, env.cfg, block)
               short == validate_initial_tx_gas(T, env.cfg)
           IN  pc' = "caught" \/ (pc' = "pre" /\ invalid = "none" /\ short = "none")
    BY <1>9 DEF Validate, Fail, Goto
  <2>2. CASE pc' = "caught"
    BY <1>2, <2>2
  <2>3. CASE pc' = "pre" /\ validate_initial_tx_gas(T, env.cfg) = "none"
             /\ (IF IsOp THEN op_validate_env ELSE validate_env(T, env.cfg, block)) = "none"
    <3>1. ~ Deposit => validate_env(T, env.cfg, block) = "none" /\ (IsOp => tx.envelope # "none")
      BY <2>3 DEF op_validate_env
    <3>2. env' = env /\ tx' = tx /\ block' = block
      BY <2>1 DEF Handling
    <3> QED
      BY <1>1, <2>3, <3>1, <3>2 DEF GasBounds
  <2> QED
    BY <2>1, <2>2, <2>3
<1>10. ASSUME pc = "pre", Handling, pc' = "execution" PROVE GasBounds'
  <2>1. env' = env /\ tx' = tx /\ block' = block /\ ~ SystemCall
    BY <1>10 DEF Handling, Control
  <2> QED
    BY <1>1, <1>10, <2>1 DEF GasBounds
<1>11. CASE DeductDeposit
  BY <1>10, <1>11 DEF DeductDeposit, Goto
<1>12. CASE Deduct
  <2>1. pc = "pre" /\ Handling
    BY <1>12 DEF Deduct
  <2>2. pc' = "caught" \/ pc' = "execution"
    BY <1>12, DeductCharges
  <2> QED
    BY <1>2, <1>10, <2>1, <2>2
<1>13. CASE PreFails \/ ExecutionFails \/ PostFails \/ ExecutionResultFails
  BY <1>2, <1>13 DEF PreFails, ExecutionFails, PostFails, ExecutionResultFails, DbFails, Fail
<1>14. CASE Execution
  <2>1. pc = "execution" /\ Handling
    BY <1>14 DEF Execution
  <2>2. PICK r \in {"Stop", "Revert", "OutOfGas", "OutOfFunds", "FatalExternalError"},
             remaining \in 0..T.gas_limit, refunded \in Nat : Execute(r, remaining, refunded)
    BY <1>14, ExecutionRuns
  <2>3. /\ run'.gas.limit = T.gas_limit /\ run'.gas.remaining <= T.gas_limit
        /\ Deposit /\ ~ Regolith => run'.gas.refunded = 0 /\ run'.gas.remaining \in {0, T.gas_limit}
        /\ pc' = IF SystemCall THEN "result" ELSE "post"
    BY Zenon, <2>1, <2>2, ExecuteIs
  <2>4. env' = env /\ tx' = tx /\ block' = block /\ (SystemCall' <=> SystemCall)
    BY <2>1 DEF Handling, SystemCall
  <2> QED
    BY <1>1, <2>1, <2>3, <2>4 DEF GasBounds
<1>15. CASE PostExecution
  <2>1. Handling
    BY <1>15 DEF PostExecution
  <2>2. run' = [run EXCEPT !.gas = settled(run.gas)] /\ pc' = "result" /\ pc = "post"
    BY <1>15, PostIs
  <2>3. run'.gas = settled(run.gas)
    BY <2>2 DEF Types
  <2>4. run'.gas.limit = T.gas_limit /\ R!used(run'.gas) \in 0..T.gas_limit
        /\ (Deposit /\ ~ Regolith => R!used(run'.gas) \in {0, T.gas_limit})
    BY <2>2, <2>3, SettledIs
  <2>5. R!used(run.gas)' = R!used(run'.gas)
    BY DEF R!used, R!spent
  <2>6. env' = env /\ tx' = tx /\ block' = block
    BY <2>1 DEF Handling
  <2> QED
    BY <1>1, <2>2, <2>4, <2>5, <2>6 DEF GasBounds
<1>16. CASE ExecutionResult \/ CatchDeposit \/ CatchError \/ NextTx \/ Return
  <2>1. pc' \in {"return", "validate", "idle"}
    BY <1>16 DEF ExecutionResult, CatchDeposit, FailedDeposit, Include, CatchError, NextTx, Return, Goto
  <2> QED
    BY <1>2, <2>1
<1> QED
  BY <1>3, <1>4, <1>5, <1>7, <1>8, <1>9, <1>11, <1>12, <1>13, <1>14, <1>15, <1>16, Steps

(* What is owed depends on the transaction, the block and the network only. *)
LEMMA SameFees ==
    ASSUME env' = env, block' = block, tx' = tx
    PROVE  /\ Fetched' = Fetched /\ Price' = Price /\ BlobFee' = BlobFee
           /\ \A gas : OpFees(gas)' = OpFees(gas) /\ Owed(gas)' = Owed(gas) /\ Burnt(gas)' = Burnt(gas)
<1>1. T' = T /\ Minted' = Minted /\ (IsOp' <=> IsOp) /\ (Deposit' <=> Deposit)
  BY SameTx
<1>2. Fetched' = Fetched /\ Price' = Price /\ BlobFee' = BlobFee
  BY <1>1 DEF Fetched, Price, BlobFee
<1>3. \A gas : OpFees(gas)' = OpFees(gas) /\ Burnt(gas)' = Burnt(gas)
  BY <1>1, <1>2 DEF OpFees, OperatorFee, Burnt
<1>4. \A gas : Owed(gas)' = Owed(gas)
  BY <1>1, <1>2, <1>3 DEF Owed
<1> QED
  BY <1>2, <1>3, <1>4

(* The transaction that pays, and those after it in the call, have the attributes of the block. *)
Paying ==
    pc # "idle" /\ ~ SystemCall /\ IsOp =>
        /\ ~ is_deposit(tx) => db.attrs.block = block.number
        /\ \A i \in DOMAIN call.rest : ~ is_deposit(call.rest[i]) => db.attrs.block = block.number

(* The info kept by the handler is of this block or of one before. *)
Kept ==
    /\ l1.l2_block = None \/ l1.l2_block <= block.number
    /\ l1.l2_block # None /\ OpEnabled(env.op, "ISTHMUS") =>
          l1.operator_fee_scalar \in Nat /\ l1.operator_fee_constant \in Nat
    /\ l1.l2_block = block.number => clear_tx_l1_cost(l1) = Fetched

(* The cost it remembers is of this transaction. *)
Cost ==
    /\ ~ IsOp \/ pc \notin {"execution", "post", "result", "caught"} => l1.tx_l1_cost = None
    /\ pc \in {"execution", "post"} /\ ~ SystemCall /\ IsOp /\ ~ Deposit =>
          /\ l1.l2_block = block.number
          /\ l1.tx_l1_cost \in {None, l1_cost(Fetched, tx.envelope, env.op)}

(* The invariant of the fees is that of the value sent, of the gas kept and of its cost. *)
LEMMA FeesParts == Fees <=> Paying /\ Kept /\ Cost
BY DEF Fees, Paying, Kept, Cost

(* The first of these is kept. *)
LEMMA SentStep ==
    ASSUME ~ OpDbErrors, Types, Control, Fees, [Next]_vars
    PROVE  Paying'
<1>1. CASE pc' = "idle"
  BY <1>1 DEF Paying
<1>2. ASSUME pc # "idle", env' = env, block' = block, db' = db, tx' = tx, call'.op = call.op, call'.rest = call.rest
      PROVE  Paying'
  <2>1. (SystemCall' <=> SystemCall) /\ (IsOp' <=> IsOp)
    BY <1>2 DEF SystemCall, IsOp
  <2> QED
    BY <1>2, <2>1, FeesParts DEF Paying
<1>3. ASSUME NEW op, NEW t, NEW rest, Begins(op, t, rest) PROVE Paying'
  <2>1. tx' = t /\ call'.op = op /\ call'.rest = rest /\ UNCHANGED <<env, block, db>>
    BY <1>3 DEF Begins, Begin
  <2>2. op \notin System => Sendable(t) /\ \A i \in DOMAIN rest : Sendable(rest[i])
    BY <1>3 DEF Begins
  <2>3. (SystemCall' <=> op \in System) /\ (IsOp' <=> IsOp)
    BY <2>1 DEF SystemCall, IsOp
  <2> QED
    BY <2>1, <2>2, <2>3 DEF Paying, Sendable
<1>4. CASE SetBlock \/ Finalize
  BY <1>1, <1>4 DEF SetBlock, Finalize, Idle
<1>5. CASE Draft \/ UNCHANGED vars
  <2>1. UNCHANGED <<env, block, db, tx, call, pc>>
    BY <1>5 DEF Draft, vars
  <2> QED
    BY <1>1, <1>2, <2>1
<1>6. CASE Handling /\ pc # "idle"
  BY <1>2, <1>6 DEF Handling
<1>7. CASE \E v, used, error : Include(v, used, error) /\ pc # "idle"
  BY <1>2, <1>7 DEF Include
<1>8. CASE CatchError
  <2>1. call' = [call EXCEPT !.error = run.error] /\ pc = "caught" /\ UNCHANGED <<env, block, tx, db>>
    BY <1>8 DEF CatchError
  <2>2. call'.op = call.op /\ call'.rest = call.rest
    BY <2>1 DEF Types
  <2> QED
    BY <1>2, <2>1, <2>2
<1>9. CASE NextTx
  <2>1. /\ call.rest # <<>> /\ tx' = Head(call.rest) /\ pc = "return"
        /\ call' = [call EXCEPT !.rest = Tail(@), !.done = @ + NoncesUsed]
        /\ UNCHANGED <<env, block, db>>
    BY <1>9 DEF NextTx
  <2>2. call.rest \in Seq(TxType)
    BY DEF Types
  <2>3. 1 \in DOMAIN call.rest /\ tx' = call.rest[1]
    BY <2>1, <2>2
  <2>4. call'.op = call.op /\ call'.rest = Tail(call.rest)
    BY <2>1 DEF Types
  <2>5. \A i \in DOMAIN call'.rest : i + 1 \in DOMAIN call.rest /\ call'.rest[i] = call.rest[i + 1]
    BY <2>1, <2>2, <2>4
  <2>6. (SystemCall' <=> SystemCall) /\ (IsOp' <=> IsOp)
    BY <2>1, <2>4 DEF SystemCall, IsOp
  <2> QED
    BY <2>1, <2>3, <2>5, <2>6, FeesParts DEF Paying
<1>10. CASE Return
  BY <1>1, <1>10 DEF Return, Goto
<1>11. CASE Validate \/ DeductDeposit \/ Deduct \/ PreFails \/ Execution \/ ExecutionFails
            \/ PostExecution \/ PostFails \/ ExecutionResultFails
  <2>1. Handling /\ pc # "idle"
    BY <1>11 DEF Validate, DeductDeposit, Deduct, PreFails, Execution, ExecutionFails, PostExecution, PostFails,
       ExecutionResultFails
  <2> QED
    BY <1>6, <2>1
<1>12. CASE ExecutionResult \/ CatchDeposit
  BY <1>7, <1>12 DEF ExecutionResult, CatchDeposit, FailedDeposit
<1> QED
  BY <1>3, <1>4, <1>5, <1>8, <1>9, <1>10, <1>11, <1>12, Steps

(* The second is kept. *)
LEMMA KeptStep ==
    ASSUME SumsAddUp, ~ OpDbErrors, Types, Control, Fees, GasBounds, [Next]_vars
    PROVE  Kept'
<1>1. ASSUME env' = env, block' = block, l1'.l2_block = l1.l2_block, clear_tx_l1_cost(l1') = clear_tx_l1_cost(l1),
             l1'.operator_fee_scalar = l1.operator_fee_scalar, l1'.operator_fee_constant = l1.operator_fee_constant
      PROVE  Kept'
  <2>1. Fetched' = Fetched
    BY <1>1 DEF Fetched
  <2> QED
    BY <1>1, <2>1, FeesParts DEF Kept
<1>2. ASSUME env' = env, block' = block, l1' = l1 PROVE Kept'
  BY <1>1, <1>2
<1>3. l1 \in L1Info /\ block.number \in Nat
  BY EnvParts DEF Types
<1>4. ASSUME NEW op, NEW t, NEW rest, Begins(op, t, rest) PROVE Kept'
  BY <1>2, <1>4 DEF Begins, Begin
<1>5. CASE SetBlock
  <2>1. env' = env /\ l1' = l1 /\ block' = [block EXCEPT !.number = @ + 1]
    BY <1>5 DEF SetBlock
  <2>2. block'.number = block.number + 1
    BY <2>1 DEF Types, BlockType
  <2>3. l1.l2_block = None \/ l1.l2_block \in Nat
    BY <1>3 DEF L1Info, Option
  <2>4. None \notin Nat
    BY DEF None
  <2>5. l1.l2_block # block'.number /\ (l1.l2_block = None \/ l1.l2_block <= block'.number)
    BY <1>3, <2>2, <2>3, <2>4, FeesParts DEF Kept
  <2> QED
    BY <2>1, <2>5, FeesParts DEF Kept
<1>6. CASE Finalize \/ Draft \/ NextTx \/ Return \/ UNCHANGED vars
  BY <1>2, <1>6 DEF Finalize, Draft, NextTx, Return, vars
<1>7. CASE Validate \/ DeductDeposit \/ PreFails \/ Execution \/ ExecutionFails \/ PostFails \/ ExecutionResultFails
  <2>1. Handling /\ l1' = l1
    BY <1>7 DEF Validate, DeductDeposit, PreFails, Execution, ExecutionFails, PostFails, ExecutionResultFails
  <2> QED
    BY <1>2, <2>1 DEF Handling
<1>8. CASE Deduct
  <2>1. env' = env /\ block' = block
    BY <1>8 DEF Deduct, Handling
  <2>2. CASE ~ IsOp
    BY <1>2, <1>8, <2>1, <2>2, DeductCharges
  <2>3. CASE IsOp
    <3>1. l1' \in L1Info /\ l1'.l2_block = block.number /\ clear_tx_l1_cost(l1') = Fetched
      BY <1>8, <2>3, DeductCharges
    <3>2. l1'.operator_fee_scalar = Fetched.operator_fee_scalar /\ l1'.operator_fee_constant = Fetched.operator_fee_constant
      BY <3>1, L1Forgets
    <3>3. Fetched' = Fetched
      BY <2>1 DEF Fetched
    <3>4. l1'.l2_block <= block'.number
      BY <1>3, <2>1, <3>1
    <3>5. OpEnabled(env.op, "ISTHMUS") => Fetched.operator_fee_scalar \in Nat /\ Fetched.operator_fee_constant \in Nat
      BY FetchedIs
    <3> QED
      BY <2>1, <3>1, <3>2, <3>3, <3>4, <3>5 DEF Kept
  <2> QED
    BY <2>2, <2>3
<1>9. CASE PostExecution
  <2>1. Handling
    BY <1>9 DEF PostExecution
  <2> QED
    BY <1>1, <1>9, <2>1, PostIs DEF Handling
<1>10. CASE ExecutionResult \/ CatchDeposit \/ CatchError
  <2>1. env' = env /\ block' = block /\ l1' = (IF IsOp THEN clear_tx_l1_cost(l1) ELSE l1)
    BY <1>10 DEF ExecutionResult, CatchDeposit, FailedDeposit, CatchError, Include
  <2>2. clear_tx_l1_cost(l1') = clear_tx_l1_cost(l1) /\ l1'.l2_block = l1.l2_block
        /\ l1'.operator_fee_scalar = l1.operator_fee_scalar /\ l1'.operator_fee_constant = l1.operator_fee_constant
    BY <1>3, <2>1, L1Forgets
  <2> QED
    BY <1>1, <2>1, <2>2
<1> QED
  BY <1>4, <1>5, <1>6, <1>7, <1>8, <1>9, <1>10, Steps

(* The third is kept. *)
LEMMA CostStep ==
    ASSUME SumsAddUp, ~ OpDbErrors, Types, Control, Fees, GasBounds, [Next]_vars
    PROVE  Cost'
<1>1. l1 \in L1Info
  BY DEF Types
<1>2. ASSUME pc' \in {"idle", "validate", "pre", "return"}, l1'.tx_l1_cost = None PROVE Cost'
  BY <1>2 DEF Cost
<1>3. ASSUME pc' \in {"result", "caught"}, env' = env, l1' = l1 \/ IsOp PROVE Cost'
  <2>1. IsOp' <=> IsOp
    BY <1>3 DEF IsOp
  <2> QED
    BY <1>3, <2>1, FeesParts DEF Cost
<1>4. ~ IsOp \/ pc \in {"idle", "validate", "pre", "return"} => l1.tx_l1_cost = None
  BY FeesParts DEF Cost, Types
<1>5. ASSUME NEW op, NEW t, NEW rest, Begins(op, t, rest) PROVE Cost'
  <2>1. pc = "idle" /\ l1' = l1 /\ (pc' = "validate" \/ (pc' = "execution" /\ SystemCall'))
    BY <1>5 DEF Begins, Begin, Idle, SystemCall
  <2> QED
    BY <1>4, <2>1 DEF Cost
<1>6. CASE SetBlock \/ Finalize \/ NextTx \/ Return
  <2>1. pc \in {"idle", "return"} /\ pc' \in {"idle", "validate"} /\ l1' = l1
    BY <1>6 DEF SetBlock, Finalize, NextTx, Return, Goto, Idle
  <2> QED
    BY <1>2, <1>4, <2>1
<1>7. CASE Draft \/ UNCHANGED vars
  <2>1. UNCHANGED <<env, block, tx, l1, pc, call>>
    BY <1>7 DEF Draft, vars
  <2>2. Fetched' = Fetched /\ (SystemCall' <=> SystemCall) /\ (IsOp' <=> IsOp) /\ (Deposit' <=> Deposit)
    BY <2>1, SameTx, SameFees DEF SystemCall
  <2> QED
    BY <2>1, <2>2, FeesParts DEF Cost
<1>8. CASE Validate
  <2>1. pc = "validate" /\ l1' = l1 /\ pc' \in {"pre", "caught"} /\ env' = env
    BY <1>8 DEF Validate, Fail, Goto, Handling
  <2> QED
    BY <1>2, <1>3, <1>4, <2>1
<1>9. CASE DeductDeposit
  <2>1. Deposit /\ Handling /\ l1' = l1 /\ pc = "pre" /\ pc' = "execution"
    BY <1>9 DEF DeductDeposit, Goto
  <2>2. Deposit'
    BY <2>1, SameTx DEF Handling
  <2> QED
    BY <1>4, <2>1, <2>2 DEF Cost
<1>10. CASE Deduct
  <2>1. Handling /\ pc = "pre"
    BY <1>10 DEF Deduct
  <2>2. Fetched' = Fetched /\ (IsOp' <=> IsOp) /\ tx' = tx /\ env' = env /\ block' = block
    BY <2>1, SameTx, SameFees DEF Handling
  <2>3. pc' \in {"caught", "execution"} /\ (~ IsOp => l1' = l1)
        /\ (IsOp => l1'.l2_block = block.number /\ l1'.tx_l1_cost \in {None, l1_cost(Fetched, tx.envelope, env.op)})
    BY <1>10, DeductCharges
  <2> QED
    BY <1>4, <2>1, <2>2, <2>3 DEF Cost
<1>11. CASE Execution
  <2>1. Handling /\ l1' = l1 /\ pc = "execution" /\ pc' \in {"post", "result"}
    BY ZenonT(30), <1>11 DEF Execution, Execute, Goto
  <2>2. Fetched' = Fetched /\ (IsOp' <=> IsOp) /\ (Deposit' <=> Deposit) /\ (SystemCall' <=> SystemCall)
        /\ tx' = tx /\ env' = env /\ block' = block
    BY <2>1, SameTx, SameFees DEF Handling, SystemCall
  <2> QED
    BY <2>1, <2>2, FeesParts DEF Cost
<1>12. CASE PreFails \/ ExecutionFails \/ PostExecution \/ PostFails \/ ExecutionResultFails
  <2>1. pc' \in {"result", "caught"} /\ Handling /\ (l1' = l1 \/ IsOp)
    BY <1>12 DEF PreFails, ExecutionFails, PostExecution, PostFails, ExecutionResultFails, DbFails, Fail, Goto
  <2> QED
    BY <1>3, <2>1 DEF Handling
<1>13. CASE ExecutionResult \/ CatchDeposit \/ CatchError
  <2>1. pc' = "return" /\ l1' = (IF IsOp THEN clear_tx_l1_cost(l1) ELSE l1)
    BY <1>13 DEF ExecutionResult, CatchDeposit, FailedDeposit, CatchError, Include, Goto
  <2>2. l1'.tx_l1_cost = None
    BY <1>1, <1>4, <2>1, L1Forgets
  <2> QED
    BY <1>2, <2>1, <2>2
<1> QED
  BY <1>5, <1>6, <1>7, <1>8, <1>9, <1>10, <1>11, <1>12, <1>13, Steps

(* So the fees of a transaction are those of the block it is in. *)
LEMMA FeesStep ==
    ASSUME SumsAddUp, ~ OpDbErrors, Types, Control, Fees, GasBounds, [Next]_vars
    PROVE  Fees'
<1>1. Paying' /\ Kept' /\ Cost' => Fees'
  BY DEF Fees, Paying, Kept, Cost
<1> QED
  BY <1>1, SentStep, KeptStep, CostStep

-----------------------------------------------------------------------------
(* The nonces *)

(* One nonce is used up, and what the transaction sends is there, as it is handled. *)
LEMMA NonceInvStep ==
    ASSUME SumsAddUp, ~ OpDbErrors, Types, Control, Fees, GasBounds, Clean, NonceInv, [Next]_vars
    PROVE  NonceInv'
<1>1. ASSUME pc' \in {"idle", "validate", "pre", "return"} PROVE NonceInv'
  BY <1>1 DEF NonceInv
<1>2. ASSUME pc' = "caught", ~ IsOp' \/ run'.result # "OutOfFunds" PROVE NonceInv'
  BY <1>2 DEF NonceInv, Deposit, IsOp
<1>3. ASSUME NEW op, NEW t, NEW rest, Begins(op, t, rest) PROVE NonceInv'
  <2>1. pc = "idle" /\ view' = view /\ base' = base /\ (pc' = "validate" \/ (pc' = "execution" /\ SystemCall'))
    BY <1>3 DEF Begins, Begin, Idle, SystemCall
  <2>2. CASE pc' = "execution" /\ SystemCall'
    <3>1. NonceStep' = 0
      BY <2>2 DEF NonceStep
    <3>2. view' = base' /\ base \in State
      BY <2>1 DEF Clean, Types
    <3>3. \A a \in Addresses : base.acc[a].nonce \in Nat
      BY <3>2, StateParts
    <3>4. \A a \in Addresses : view'.acc[a].nonce = base'.acc[a].nonce + 0
      BY <2>1, <3>2, <3>3
    <3> QED
      BY <2>2, <3>1, <3>4 DEF NonceInv
  <2> QED
    BY <1>1, <2>1, <2>2
<1>4. CASE SetBlock \/ Finalize
  BY <1>1, <1>4 DEF SetBlock, Finalize, Idle
<1>5. CASE Draft \/ UNCHANGED vars
  <2>1. UNCHANGED <<env, tx, view, base, pc, call, run>>
    BY <1>5 DEF Draft, vars
  <2>2. T' = T /\ Caller' = Caller /\ (Deposit' <=> Deposit) /\ (Regolith' <=> Regolith) /\ (SystemCall' <=> SystemCall)
    BY <2>1, SameTx DEF SystemCall
  <2>3. NonceStep' = NonceStep /\ Balance(Caller)' = Balance(Caller)
    BY <2>1, <2>2 DEF NonceStep, Balance
  <2> QED
    BY <2>1, <2>2, <2>3 DEF NonceInv
<1>6. ASSUME pc \in {"validate", "pre"}, pc' = "caught", run' = run \/ \E e : run' = [run EXCEPT !.error = e]
      PROVE  NonceInv'
  <2>1. run.result = "none"
    BY <1>6 DEF Control, NoRun
  <2>2. run'.result = "none"
    BY <1>6, <2>1, RunKeeps
  <2> QED
    BY <1>2, <1>6, <2>2
<1>7. CASE Validate \/ PreFails
  <2>1. pc \in {"validate", "pre"} /\ (pc' = "pre" \/ (pc' = "caught" /\ \E e : run' = [run EXCEPT !.error = e]))
    BY <1>7 DEF Validate, PreFails, DbFails, Fail, Goto
  <2> QED
    BY <1>1, <1>6, <2>1
<1>8. ASSUME pc = "pre", Handling, pc' = "execution",
             NEW balance \in Nat, view' = Deducted(balance), Deposit \/ T.value <= balance
      PROVE  NonceInv'
  <2>1. T' = T /\ Caller' = Caller /\ (Deposit' <=> Deposit) /\ ~ SystemCall' /\ base' = base
    BY <1>8, SameTx DEF Control, Handling, SystemCall
  <2>2. /\ view'.acc[Caller].balance = balance
        /\ \A a \in Addresses : view'.acc[a].nonce = view.acc[a].nonce + (IF a = Caller /\ T.kind = "call" THEN 1 ELSE 0)
    BY <1>8, DeductedIs
  <2>3. view = base
    BY <1>8 DEF Clean
  <2>4. NonceStep' = IF T.kind = "call" THEN 1 ELSE 0
    BY <1>8, <2>1 DEF NonceStep
  <2>5. \A a \in Addresses : view'.acc[a].nonce = base'.acc[a].nonce + (IF a = Caller' THEN NonceStep' ELSE 0)
    BY <2>1, <2>2, <2>3, <2>4
  <2>6. Balance(Caller)' = balance
    BY <2>1, <2>2 DEF Balance
  <2> QED
    BY <1>8, <2>1, <2>5, <2>6 DEF NonceInv
<1>9. CASE DeductDeposit
  <2>1. pc = "pre" /\ Handling /\ pc' = "execution" /\ Deposit
    BY <1>9 DEF DeductDeposit, Goto
  <2> QED
    BY <1>8, <1>9, <2>1, DepositDeducts
<1>10. CASE Deduct
  <2>1. pc = "pre" /\ Handling
    BY <1>10 DEF Deduct
  <2>2. \/ pc' = "caught" /\ \E e : run' = [run EXCEPT !.error = e]
        \/ pc' = "execution" /\ \E balance \in Nat : view' = Deducted(balance) /\ T.value <= balance
    BY <1>10, DeductCharges
  <2> QED
    BY <1>6, <1>8, <2>1, <2>2
<1>11. CASE Execution
  <2>1. pc = "execution" /\ Handling
    BY <1>11 DEF Execution
  <2>2. PICK r \in {"Stop", "Revert", "OutOfGas", "OutOfFunds", "FatalExternalError"},
             remaining \in 0..T.gas_limit, refunded \in Nat : Execute(r, remaining, refunded)
    BY <1>11, ExecutionRuns
  <2>3. /\ \A a \in Addresses :
              view'.acc[a].nonce = view.acc[a].nonce + (IF a = Caller /\ T.kind = "create" /\ r # "OutOfFunds" THEN 1 ELSE 0)
        /\ run'.result = r /\ (r = "OutOfFunds" <=> T.value > Balance(Caller))
        /\ pc' = IF SystemCall THEN "result" ELSE "post"
    BY Zenon, <2>1, <2>2, ExecuteIs
  <2>4. T' = T /\ Caller' = Caller /\ (Deposit' <=> Deposit) /\ (SystemCall' <=> SystemCall) /\ base' = base
    BY <2>1, SameTx DEF Handling, SystemCall
  <2>5. T.kind \in {"call", "create"} /\ (SystemCall => T.kind = "call")
    <3>1. tx \in TxType /\ env \in Envs
      BY DEF Types, Drafted
    <3>2. SystemCall => tx = SystemTx
      BY <2>1 DEF Control
    <3>3. T.kind = tx.base.kind
      BY <3>1, TxIsTyped
    <3>4. SystemCall => tx.base.kind = "call"
      BY <3>1, <3>2, SystemTxIs
    <3> QED
      BY ZenonT(30), <2>1, <3>3, <3>4, TxParts
  <2>6. NonceStep' = NonceStep + (IF T.kind = "create" /\ r # "OutOfFunds" THEN 1 ELSE 0) /\ NonceStep \in Nat
    BY <2>1, <2>3, <2>4, <2>5 DEF NonceStep
  <2>7. \A a \in Addresses : base.acc[a].nonce \in Nat
    BY StateParts DEF Types
  <2>8. \A a \in Addresses : view.acc[a].nonce = base.acc[a].nonce + (IF a = Caller THEN NonceStep ELSE 0)
    BY <2>1 DEF NonceInv
  <2>9. \A a \in Addresses : view'.acc[a].nonce = base'.acc[a].nonce + (IF a = Caller' THEN NonceStep' ELSE 0)
    BY <2>3, <2>4, <2>6, <2>7, <2>8
  <2>10. ~ SystemCall /\ ~ Deposit => r # "OutOfFunds"
    <3>1. T.value \in Nat /\ Balance(Caller) \in Nat
      BY <2>1, TxParts, StateParts DEF Balance, Types
    <3> QED
      BY <2>1, <2>3, <3>1 DEF NonceInv
  <2> QED
    BY ZenonT(30), <2>3, <2>4, <2>9, <2>10 DEF NonceInv
<1>12. CASE PostExecution
  <2>1. Handling
    BY <1>12 DEF PostExecution
  <2>2. run' = [run EXCEPT !.gas = settled(run.gas)] /\ pc = "post" /\ pc' = "result"
        /\ \A a \in Addresses : view'.acc[a].nonce = view.acc[a].nonce
    BY <1>12, PostIs
  <2>3. run'.result = run.result
    BY <2>2 DEF Types
  <2>4. T' = T /\ Caller' = Caller /\ (Deposit' <=> Deposit) /\ (SystemCall' <=> SystemCall) /\ base' = base
    BY <2>1, SameTx DEF Handling, SystemCall
  <2>5. NonceStep' = NonceStep
    BY <2>2, <2>3, <2>4 DEF NonceStep
  <2>6. \A a \in Addresses : view'.acc[a].nonce = base'.acc[a].nonce + (IF a = Caller' THEN NonceStep' ELSE 0)
    BY <2>2, <2>4, <2>5 DEF NonceInv
  <2> QED
    BY <2>2, <2>3, <2>4, <2>6 DEF NonceInv
<1>13. CASE ExecutionFails \/ PostFails
  <2>1. pc' = "caught" /\ ~ IsOp /\ env' = env
    BY <1>13, SettersAssumption DEF ExecutionFails, PostFails, DbFails, Fail, Handling
  <2> QED
    BY <1>2, <2>1 DEF IsOp
<1>14. CASE ExecutionResultFails
  <2>1. pc = "result" /\ pc' = "caught" /\ Handling /\ (run.error # "none" \/ HaltedDeposit)
    BY <1>14 DEF ExecutionResultFails, Fail
  <2>2. ~ IsOp \/ HaltedDeposit
    BY <2>1 DEF Control
  <2>3. ~ Deposit \/ Regolith
    BY <2>2 DEF HaltedDeposit, Deposit, IsOp
  <2>4. ~ Deposit' \/ Regolith'
    BY <2>1, <2>3, SameTx DEF Handling
  <2> QED
    BY <2>1, <2>4 DEF NonceInv
<1>15. CASE ExecutionResult \/ CatchDeposit \/ CatchError \/ NextTx \/ Return
  <2>1. pc' \in {"return", "validate", "idle"}
    BY <1>15 DEF ExecutionResult, CatchDeposit, FailedDeposit, Include, CatchError, NextTx, Return, Goto
  <2> QED
    BY <1>1, <2>1
<1> QED
  BY <1>3, <1>4, <1>5, <1>7, <1>9, <1>10, <1>11, <1>12, <1>13, <1>14, <1>15, Steps

(* The nonces of two states that differ in that of one account. *)
LEMMA OneNonce ==
    ASSUME SumsAddUp, NEW v \in State, NEW w \in State, NEW a \in Addresses, NEW d \in Int,
           \A b \in Addresses : w.acc[b].nonce = v.acc[b].nonce + (IF b = a THEN d ELSE 0)
    PROVE  Nonces(w) = Nonces(v) + d
<1> DEFINE m == [b \in Addresses |-> v.acc[b].nonce]
           n == [b \in Addresses |-> w.acc[b].nonce]
<1>1. m \in [Addresses -> Int] /\ n \in [Addresses -> Int]
  BY StateParts
<1>2. (\A b \in Addresses : b # a => n[b] = m[b]) /\ n[a] = m[a] + d
  <2>1. \A b \in Addresses : v.acc[b].nonce \in Nat
    BY StateParts
  <2> QED
    BY <2>1
<1>3. Nonces(w) = SumFunction(n) /\ Nonces(v) = SumFunction(m)
  BY DEF Nonces
<1> HIDE DEF m, n
<1>4. SumFunction(n) = SumFunction(m) + (n[a] - m[a])
  BY ZenonT(30), <1>1, <1>2 DEF SumsAddUp
<1> QED
  BY <1>1, <1>2, <1>3, <1>4

(* The sums over a state depend on its accounts only, and are numbers. *)
LEMMA SumsOf ==
    ASSUME SumsAddUp, NEW v \in State, NEW w, w.acc = v.acc
    PROVE  Nonces(w) = Nonces(v) /\ Balances(w) = Balances(v) /\ Nonces(v) \in Int /\ Balances(v) \in Int
<1> DEFINE m == [b \in Addresses |-> v.acc[b].nonce]
           f == [b \in Addresses |-> v.acc[b].balance]
<1>1. m \in [Addresses -> Int] /\ f \in [Addresses -> Int]
  BY StateParts
<1>2. Nonces(v) = SumFunction(m) /\ Balances(v) = SumFunction(f) /\ Nonces(w) = SumFunction(m) /\ Balances(w) = SumFunction(f)
  BY DEF Nonces, Balances
<1> HIDE DEF m, f
<1>3. SumFunction(m) \in Int /\ SumFunction(f) \in Int
  BY <1>1 DEF SumsAddUp
<1> QED
  BY <1>2, <1>3

(* What is remembered of the last transaction. *)
Remembered ==
    pc = "return" => last.after = view /\ (call.error # "none" => last.before = base)

(* A frame that has no funds for its value halts. *)
LEMMA OutOfFundsHalts == R!is_halt(R!success_or_halt("OutOfFunds"))
<1>1. R!success_or_halt("OutOfFunds") = R!Outcome("Halt", R!Reason("OutOfFunds"))
  BY DEF R!success_or_halt, R!return_ok
<1>2. \A c, r : R!Outcome(c, r).class = c
  BY DEF R!Outcome
<1> QED
  BY <1>1, <1>2 DEF R!is_halt

(* A transaction that is included uses up the nonces it is said to use, all of its caller. *)
LEMMA IncludedUses ==
    ASSUME SumsAddUp, ~ OpDbErrors, Types, Control, GasBounds, NonceInv, ExecutionResult \/ CatchDeposit
    PROVE  /\ base' \in State /\ view' = base' /\ last'.after = view' /\ pc' = "return"
           /\ UNCHANGED <<env, block, tx, db, call, run>> /\ call.error = "none" /\ pc \in {"result", "caught"}
           /\ NoncesUsed' \in {0, 1} /\ Caller \in Addresses
           /\ \A a \in Addresses : base'.acc[a].nonce = base.acc[a].nonce + (IF a = Caller THEN NoncesUsed' ELSE 0)
<1>1. pc \in {"result", "caught"}
  BY DEF ExecutionResult, CatchDeposit
<1>2. call.error = "none" /\ Caller \in Addresses
  BY <1>1, TxParts DEF Control
<1>3. NoncesUsed' \in {0, 1}
  BY DEF NoncesUsed
<1>4. ASSUME NEW v \in State, NEW used, NEW error, used \in Nat \/ SystemCall \/ Deposit, Include(v, used, error)
      PROVE  /\ base' \in State /\ view' = base' /\ last'.after = view' /\ pc' = "return"
             /\ UNCHANGED <<env, block, tx, db, call, run>>
             /\ base'.acc = v.acc /\ last'.run = run
  BY <1>1, <1>4, IncludeIs
<1>5. ASSUME UNCHANGED <<env, tx, call>>, last'.run = run
      PROVE  NoncesUsed' = IF SystemCall \/ (Deposit /\ ~ Regolith /\ T.kind = "create" /\ run.result = "OutOfFunds")
                           THEN 0 ELSE 1
  <2>1. T' = T /\ (Deposit' <=> Deposit) /\ (Regolith' <=> Regolith)
    BY <1>5, SameTx
  <2>2. NonceKept' <=> (Deposit /\ ~ Regolith /\ T.kind = "create" /\ run.result = "OutOfFunds")
    BY <1>5, <2>1 DEF NonceKept
  <2> QED
    BY <1>5, <2>2 DEF NoncesUsed, SystemCall
<1>6. CASE ExecutionResult
  <2>1. pc = "result" /\ ~ HaltedDeposit /\ Include(view, R!used(run.gas), "none")
    BY <1>6 DEF ExecutionResult
  <2>2. R!used(run.gas) \in Nat \/ SystemCall
    BY <2>1, TxParts DEF GasBounds
  <2>3. /\ base' \in State /\ view' = base' /\ last'.after = view' /\ pc' = "return"
        /\ UNCHANGED <<env, block, tx, db, call, run>>
        /\ base'.acc = view.acc /\ last'.run = run
    BY <1>4, <2>1, <2>2 DEF Types
  <2>4. NonceStep = NoncesUsed'
    <3>1. run.result = "OutOfFunds" /\ ~ SystemCall => Deposit /\ ~ Regolith
      BY <2>1, OutOfFundsHalts DEF NonceInv, HaltedDeposit
    <3> QED
      BY <1>5, <2>1, <2>3, <3>1 DEF NonceStep
  <2>5. \A a \in Addresses : view.acc[a].nonce = base.acc[a].nonce + (IF a = Caller THEN NonceStep ELSE 0)
    BY <2>1 DEF NonceInv
  <2> QED
    BY <1>1, <1>2, <1>3, <2>3, <2>4, <2>5
<1>7. CASE CatchDeposit
  <2> DEFINE v == Credit(BumpNonce(base, Caller), Caller, Minted)
  <2>1. pc = "caught" /\ Deposit /\ \E used, error : Include(v, used, error)
    BY <1>7 DEF CatchDeposit, FailedDeposit
  <2>2. v \in State /\ \A a \in Addresses : v.acc[a].nonce = base.acc[a].nonce + (IF a = Caller THEN 1 ELSE 0)
    BY <2>1, FailedDepositIs
  <2> HIDE DEF v
  <2>3. /\ base' \in State /\ view' = base' /\ last'.after = view' /\ pc' = "return"
        /\ UNCHANGED <<env, block, tx, db, call, run>>
        /\ base'.acc = v.acc /\ last'.run = run
    BY <1>4, <2>1, <2>2
  <2>4. NoncesUsed' = 1
    <3>1. ~ SystemCall
      BY <2>1, TxParts
    <3>2. ~ Regolith => run.result # "OutOfFunds"
      BY <2>1 DEF NonceInv
    <3> QED
      BY <1>5, <2>3, <3>1, <3>2
  <2> QED
    BY <1>1, <1>2, <1>3, <2>2, <2>3, <2>4
<1> QED
  BY <1>6, <1>7

(* What is remembered is kept. *)
LEMMA RememberedStep ==
    ASSUME SumsAddUp, ~ OpDbErrors, Types, Control, GasBounds, NonceInv, Remembered, [Next]_vars
    PROVE  Remembered'
<1>1. ASSUME pc' # "return" PROVE Remembered'
  BY <1>1 DEF Remembered
<1>2. ASSUME NEW op, NEW t, NEW rest, Begins(op, t, rest) PROVE Remembered'
  BY <1>1, <1>2 DEF Begins, Begin
<1>3. CASE SetBlock \/ Finalize \/ Validate \/ DeductDeposit \/ PreFails \/ Execution \/ ExecutionFails
           \/ PostExecution \/ PostFails \/ ExecutionResultFails \/ NextTx \/ Return
  BY ZenonT(30), <1>1, <1>3 DEF SetBlock, Finalize, Idle, Validate, DeductDeposit, PreFails, Execution, Execute,
     ExecutionFails, PostExecution, PostFails, ExecutionResultFails, NextTx, Return, Goto, Fail, DbFails
<1>4. CASE Deduct
  <2>1. pc' \in {"caught", "execution"}
    BY <1>4 DEF Deduct, Fail, Goto
  <2> QED
    BY <1>1, <2>1
<1>5. CASE Draft \/ UNCHANGED vars
  <2>1. UNCHANGED <<last, view, base, call, pc>>
    BY <1>5 DEF Draft, vars
  <2> QED
    BY <2>1 DEF Remembered
<1>6. CASE ExecutionResult \/ CatchDeposit
  BY <1>6, IncludedUses DEF Remembered
<1>7. CASE CatchError
  <2>1. /\ view' = Discarded /\ base' = base
        /\ last' = [tx |-> tx, before |-> base, after |-> Discarded, run |-> run, used |-> 0, error |-> run.error]
    BY <1>7 DEF CatchError
  <2>2. last'.after = view' /\ last'.before = base'
    BY <2>1
  <2> QED
    BY <2>2 DEF Remembered
<1> QED
  BY <1>2, <1>3, <1>4, <1>5, <1>6, <1>7, Steps

(* The nonces that a call has used are counted. *)
LEMMA CountedStep ==
    ASSUME SumsAddUp, ~ OpDbErrors, Types, Control, GasBounds, NonceInv, Counted, [Next]_vars
    PROVE  Counted'
<1>1. base \in State /\ Nonces(base) \in Int /\ call.done \in Nat
  BY SumsOf DEF Types
<1>2. ASSUME pc' = "idle" PROVE Counted'
  BY <1>2 DEF Counted
<1>3. ASSUME NEW op, NEW t, NEW rest, Begins(op, t, rest) PROVE Counted'
  <2>1. call' = [op |-> op, rest |-> rest, start |-> [db |-> db, base |-> base], done |-> 0, error |-> "none"]
        /\ pc' \in {"validate", "execution"} /\ base' = base /\ db' = db
    BY ZenonT(30), <1>3 DEF Begins, Begin
  <2>2. call'.start.base = base /\ call'.start.db = db /\ call'.done = 0
    BY <2>1
  <2>3. Nonces(base') = Nonces(call'.start.base) + call'.done
    BY <1>1, <2>1, <2>2
  <2> QED
    BY <1>1, <2>1, <2>2, <2>3 DEF Counted
<1>4. CASE SetBlock \/ Finalize \/ Return
  BY <1>2, <1>4 DEF SetBlock, Finalize, Return, Goto, Idle
<1>5. CASE Draft \/ UNCHANGED vars
  <2>1. UNCHANGED <<env, tx, last, base, db, call, pc>>
    BY <1>5 DEF Draft, vars
  <2>2. NoncesUsed' = NoncesUsed
    <3>1. T' = T /\ (Deposit' <=> Deposit) /\ (Regolith' <=> Regolith)
      BY <2>1, SameTx
    <3> QED
      BY <2>1, <3>1 DEF NoncesUsed, NonceKept
  <2> QED
    BY <2>1, <2>2 DEF Counted
<1>6. CASE Validate \/ DeductDeposit \/ Deduct \/ PreFails \/ Execution \/ ExecutionFails
           \/ PostExecution \/ PostFails \/ ExecutionResultFails
  <2>1. Handling /\ pc \notin {"idle", "return"}
    BY <1>6 DEF Validate, DeductDeposit, Deduct, PreFails, Execution, ExecutionFails, PostExecution, PostFails,
       ExecutionResultFails
  <2>2. pc' # "return"
    BY ZenonT(30), <1>6 DEF Validate, DeductDeposit, Deduct, PreFails, Execution, Execute, ExecutionFails, PostExecution, PostFails,
       ExecutionResultFails, Fail, DbFails, Goto
  <2> QED
    BY <2>1, <2>2 DEF Counted, Handling
<1>7. CASE ExecutionResult \/ CatchDeposit
  <2>1. /\ base' \in State /\ pc' = "return" /\ db' = db /\ call' = call /\ pc \in {"result", "caught"}
        /\ NoncesUsed' \in {0, 1} /\ Caller \in Addresses
        /\ \A a \in Addresses : base'.acc[a].nonce = base.acc[a].nonce + (IF a = Caller THEN NoncesUsed' ELSE 0)
    BY <1>7, IncludedUses
  <2> DEFINE d == NoncesUsed'
  <2>2. d \in Int
    BY <2>1
  <2> HIDE DEF d
  <2>3. \A a \in Addresses : base'.acc[a].nonce = base.acc[a].nonce + (IF a = Caller THEN d ELSE 0)
    BY <2>1 DEF d
  <2>4. Nonces(base') = Nonces(base) + d
    BY <1>1, <2>1, <2>2, <2>3, OneNonce
  <2>5. Nonces(base) = Nonces(call.start.base) + call.done /\ call.start.db = db
    BY <2>1 DEF Counted
  <2>6. Nonces(base)' = Nonces(base')
    BY DEF Nonces
  <2>7. Nonces(call.start.base)' = Nonces(call.start.base)
    BY <2>1
  <2>8. Nonces(base') = Nonces(call.start.base) + call.done + d
    BY <2>4, <2>5
  <2> QED
    BY <2>1, <2>5, <2>7, <2>8 DEF Counted, d
<1>8. CASE CatchError
  <2>1. call' = [call EXCEPT !.error = run.error] /\ pc = "caught" /\ pc' = "return" /\ db' = db /\ run.error # "none"
    BY <1>8 DEF CatchError, Goto, Control
  <2>2. call'.error # "none" /\ call'.start = call.start
    BY <2>1 DEF Types
  <2> QED
    BY <2>1, <2>2 DEF Counted
<1>9. CASE NextTx
  <2>1. /\ pc = "return" /\ call.error = "none" /\ pc' = "validate" /\ db' = db /\ base' = base
        /\ call' = [call EXCEPT !.rest = Tail(@), !.done = @ + NoncesUsed]
    BY <1>9 DEF NextTx, Goto
  <2>2. call'.start = call.start /\ call'.done = call.done + NoncesUsed
    BY <2>1 DEF Types
  <2>3. Nonces(base) = Nonces(call.start.base) + call.done + NoncesUsed /\ call.start.db = db
        /\ Nonces(call.start.base) \in Int
    BY <2>1 DEF Counted
  <2>4. Nonces(base) = Nonces(call.start.base) + (call.done + NoncesUsed)
    <3>1. Nonces(call.start.base) + (call.done + NoncesUsed) = Nonces(call.start.base) + call.done + NoncesUsed
      BY <1>1, <2>3 DEF NoncesUsed
    <3> QED
      BY <2>3, <3>1
  <2> QED
    BY <2>1, <2>2, <2>3, <2>4 DEF Counted
<1> QED
  BY <1>3, <1>4, <1>5, <1>6, <1>7, <1>8, <1>9, Steps

-----------------------------------------------------------------------------
(* The first theorems about the machine *)

(* The inductive invariant of the handler. *)
Handled == Types /\ Control /\ Fees /\ GasBounds /\ Clean /\ NonceInv /\ Counted /\ Remembered

(* It holds when the machine is built. *)
LEMMA HandledInit ==
    ASSUME SumsAddUp, Init
    PROVE  Handled
<1>1. env \in Envs /\ block = env.block /\ draft = NewOpBuilder /\ tx = NoTx /\ l1 = NewL1BlockInfo /\ warm = {}
      /\ pc = "idle" /\ call = NoCall /\ run = NoRun /\ calls = 0 /\ view = db /\ base = db
      /\ db = [acc |-> Genesis, attrs |-> Attributes[env.block.number],
               supply |-> SumFunction([a \in Addresses |-> Genesis[a].balance])]
  BY DEF Init
<1>2. Drafted
  <2>1. env \in EnvType
    BY <1>1, EnvsAssumption
  <2> QED
    BY ZenonT(30), <1>1, <2>1, BuildersStart DEF Drafted, EnvType
<1>3. NoTx = NewOpBuilder
  BY DEF NoTx, NewOpBuilder
<1>4. l1 \in L1Info /\ l1.l2_block = None /\ l1.tx_l1_cost = None
  <2> DEFINE none == None
             zero == 0
  <2>1. none \in Option /\ zero \in Nat
    BY DEF Option
  <2>2. NewL1BlockInfo = [l2_block |-> none, l1_base_fee |-> zero, l1_fee_overhead |-> none, l1_base_fee_scalar |-> zero,
            l1_blob_base_fee |-> none, l1_blob_base_fee_scalar |-> none, operator_fee_scalar |-> none,
            operator_fee_constant |-> none, da_footprint_gas_scalar |-> none,
            empty_ecotone_scalars |-> FALSE, tx_l1_cost |-> none]
    BY DEF NewL1BlockInfo
  <2> HIDE DEF none, zero
  <2>3. NewL1BlockInfo \in L1Info /\ NewL1BlockInfo.l2_block = none /\ NewL1BlockInfo.tx_l1_cost = none
    BY <2>1, <2>2 DEF L1Info
  <2> QED
    BY <1>1, <2>3 DEF none
<1>5. db \in State
  <2> DEFINE f == [a \in Addresses |-> Genesis[a].balance]
             supply == SumFunction(f)
             attrs == Attributes[env.block.number]
  <2>1. Genesis \in [Addresses -> Account]
    BY GenesisAssumption
  <2>2. f \in [Addresses -> Int]
    BY <2>1 DEF Account
  <2>3. supply \in Int
    <3> HIDE DEF f
    <3> QED
      BY <2>2 DEF SumsAddUp
  <2>4. attrs \in {Attributes[n] : n \in 1..LastBlock}
    BY <1>1, <1>2, EnvParts
  <2>5. db = [acc |-> Genesis, attrs |-> attrs, supply |-> supply]
    BY Zenon, <1>1
  <2> HIDE DEF supply, attrs
  <2> QED
    BY <2>1, <2>3, <2>4, <2>5 DEF State
<1>6. DOMAIN call = {"op", "rest", "start", "done", "error"} /\ call.rest = <<>> /\ call.done = 0
  BY Zenon, <1>1 DEF NoCall
<1>7. DOMAIN run = {"gas", "result", "sent", "error"} /\ run.gas \in GasType /\ run.sent \in Nat
  BY ZenonT(30), <1>1 DEF NoRun, GasType
<1>8. calls \in 0..env.calls /\ warm \subseteq Addresses /\ call.rest \in Seq(TxType) /\ call.done \in Nat
  <2>1. calls = 0 /\ warm = {}
    BY ZenonT(30), <1>1
  <2>2. env.calls \in Nat
    BY <1>2, EnvParts
  <2> QED
    BY <1>6, <2>1, <2>2
<1>9. Types
  BY ZenonT(30), <1>1, <1>2, <1>3, <1>4, <1>5, <1>6, <1>7, <1>8, BuildersStart DEF Types
<1>10. Control /\ GasBounds /\ Clean /\ NonceInv /\ Counted /\ Remembered
  BY Zenon, <1>1 DEF Control, GasBounds, Clean, NonceInv, Counted, Remembered
<1>11. Fees
  <2>1. block.number # None
    BY <1>2, EnvParts DEF None
  <2> QED
    BY Zenon, <1>1, <1>4, <2>1 DEF Fees
<1> QED
  BY <1>9, <1>10, <1>11 DEF Handled

(* And every step keeps it. *)
LEMMA HandledStep ==
    ASSUME SumsAddUp, ~ OpDbErrors, Handled, [Next]_vars
    PROVE  Handled'
<1>1. Types /\ Control /\ Fees /\ GasBounds /\ Clean /\ NonceInv /\ Counted /\ Remembered
  BY DEF Handled
<1>2. Types' /\ Control'
  BY <1>1, TypesStep, ControlStep
<1>3. Fees' /\ GasBounds'
  BY <1>1, FeesStep, GasBoundsStep
<1>4. Clean' /\ NonceInv'
  BY <1>1, CleanStep, NonceInvStep
<1>5. Counted' /\ Remembered'
  BY <1>1, CountedStep, RememberedStep
<1> QED
  BY <1>2, <1>3, <1>4, <1>5 DEF Handled

(* A call that is over has left all of its transactions, or nothing. *)
Over ==
    pc = "idle" /\ call # NoCall =>
        /\ call.error # "none" => db = call.start.db
        /\ call.error # "none" /\ call.op \in Many => view = db /\ base = db
        /\ call.error = "none" /\ call.op \in Commits =>
              view = db /\ Nonces(db) = Nonces(call.start.base) + call.done

(* That is kept, and with it what a failed transaction leaves. *)
LEMMA AllOrNothingStep ==
    ASSUME ~ OpDbErrors, Handled, Handled', AllOrNothing, [Next]_vars
    PROVE  AllOrNothing'
<1> USE DEF Handled
<1>1. pc' = "return" /\ call'.error # "none" => last'.after = last'.before /\ view' = base'
  BY DEF Clean, Remembered
<1> SUFFICES Over'
  BY <1>1 DEF AllOrNothing, Over
<1>2. ASSUME pc' # "idle" PROVE Over'
  BY <1>2 DEF Over
<1>3. ASSUME NEW op, NEW t, NEW rest, Begins(op, t, rest) PROVE Over'
  BY ZenonT(30), <1>2, <1>3 DEF Begins, Begin
<1>4. CASE SetBlock \/ Finalize
  <2>1. call' = NoCall
    BY <1>4 DEF SetBlock, Finalize
  <2> QED
    BY <2>1 DEF Over
<1>5. CASE Draft \/ UNCHANGED vars
  <2>1. UNCHANGED <<call, db, view, base, pc>>
    BY ZenonT(30), <1>5 DEF Draft, vars
  <2> QED
    BY <2>1 DEF AllOrNothing, Over
<1>6. CASE Validate \/ DeductDeposit \/ PreFails \/ Execution \/ ExecutionFails \/ PostExecution \/ PostFails
           \/ ExecutionResult \/ ExecutionResultFails \/ CatchDeposit \/ CatchError \/ NextTx
  BY ZenonT(30), <1>2, <1>6 DEF Validate, DeductDeposit, PreFails, Execution, Execute, ExecutionFails, PostExecution, PostFails,
     ExecutionResult, ExecutionResultFails, CatchDeposit, FailedDeposit, Include, CatchError, NextTx, Goto, Fail, DbFails
<1>7. CASE Deduct
  <2>1. pc' \in {"caught", "execution"}
    BY <1>7 DEF Deduct, Fail, Goto
  <2> QED
    BY <1>2, <2>1
<1>8. CASE Return
  <2>1. /\ pc = "return"
        /\ IF call.error # "none"
           THEN IF call.op \in Many \cup {"transact"} THEN Settle(db) ELSE UNCHANGED <<db, view, base, warm>>
           ELSE \/ call.op \in Commits /\ Settle(view)
                \/ call.op \in Drops /\ Settle(db)
                \/ call.op \in Keeps /\ UNCHANGED <<db, view, base, warm>>
        /\ call' = [call EXCEPT !.done = @ + (IF call.error = "none" THEN NoncesUsed ELSE 0)]
    BY <1>8 DEF Return
  <2>2. call'.error = call.error /\ call'.op = call.op /\ call'.start = call.start
        /\ call'.done = call.done + (IF call.error = "none" THEN NoncesUsed ELSE 0)
    BY <2>1 DEF Types
  <2>3. call.error # "none" => db' = db /\ (call.op \in Many => view' = db' /\ base' = db')
    BY <2>1 DEF Settle
  <2>4. call.start.db = db
    BY <2>1 DEF Counted
  <2>5. ASSUME call.error = "none", call.op \in Commits
        PROVE  view' = db' /\ Nonces(db') = Nonces(call'.start.base) + call'.done
    <3>1. call.op \notin Drops /\ call.op \notin Keeps
      BY <2>5 DEF Commits, Drops, Keeps
    <3>2. db' = view /\ view' = view
      BY <2>1, <2>5, <3>1 DEF Settle
    <3>3. view = base
      BY <2>1 DEF Clean
    <3>4. Nonces(base) = Nonces(call.start.base) + call.done + NoncesUsed /\ Nonces(call.start.base) \in Int
      BY <2>1, <2>5 DEF Counted
    <3>5. call.done \in Nat /\ NoncesUsed \in Nat
      BY DEF Types, NoncesUsed
    <3>6. Nonces(base) = Nonces(call.start.base) + (call.done + NoncesUsed)
      BY <3>4, <3>5
    <3> QED
      BY <2>2, <2>5, <3>2, <3>3, <3>6
  <2> QED
    BY <2>2, <2>3, <2>4, <2>5 DEF Over
<1> QED
  BY <1>3, <1>4, <1>5, <1>6, <1>7, <1>8, Steps

(* A step of the machine is a step of the ledger, or leaves it alone. *)
LEMMA LedgerStep ==
    ASSUME SumsAddUp, ~ OpDbErrors, Handled, [Next]_vars
    PROVE  [Ledger!Next]_(<<db.acc, base.acc>>)
<1> USE DEF Handled
<1>1. ASSUME UNCHANGED <<db, base>> PROVE UNCHANGED <<db.acc, base.acc>>
  BY <1>1
<1>2. ASSUME NEW op, NEW t, NEW rest, Begins(op, t, rest) PROVE UNCHANGED <<db, base>>
  BY Zenon, <1>2 DEF Begins, Begin
<1>3. CASE SetBlock \/ Draft \/ Validate \/ DeductDeposit \/ Deduct \/ PreFails \/ Execution \/ ExecutionFails
           \/ PostExecution \/ PostFails \/ ExecutionResultFails \/ CatchError \/ NextTx \/ UNCHANGED vars
  <2>1. UNCHANGED <<db, base>>
    BY ZenonT(30), <1>3 DEF SetBlock, Draft, Validate, DeductDeposit, Deduct, PreFails, Execution, ExecutionFails, PostExecution,
       PostFails, ExecutionResultFails, CatchError, NextTx, vars, Handling
  <2> QED
    BY <1>1, <2>1
<1>4. CASE Finalize
  <2>1. \E state \in {db, view} : db' = state /\ base' = state
    BY <1>4 DEF Finalize
  <2>2. view = base
    BY <1>4 DEF Finalize, Idle, Clean
  <2>3. (db' = db /\ base' = db) \/ (db' = base /\ base' = base)
    BY <2>1, <2>2
  <2> QED
    BY <2>3 DEF Ledger!Next, Ledger!Commit, Ledger!Drop
<1>5. CASE Return
  <2>1. view = base
    BY <1>5 DEF Return, Clean
  <2>2. (db' = db /\ base' = db) \/ (db' = view /\ base' = view) \/ UNCHANGED <<db, base>>
    BY <1>5 DEF Return, Settle
  <2> QED
    BY <1>1, <2>1, <2>2 DEF Ledger!Next, Ledger!Commit, Ledger!Drop
<1>6. CASE ExecutionResult \/ CatchDeposit
  <2>1. /\ base' \in State /\ db' = db /\ NoncesUsed' \in {0, 1} /\ Caller \in Addresses
        /\ \A a \in Addresses : base'.acc[a].nonce = base.acc[a].nonce + (IF a = Caller THEN NoncesUsed' ELSE 0)
    BY <1>6, IncludedUses
  <2>2. DOMAIN base.acc = Addresses /\ \A a \in Addresses : base'.acc[a].balance \in Nat
    <3>1. base \in State
      BY DEF Types
    <3> QED
      BY <2>1, <3>1, StateParts
  <2> DEFINE sender == IF NoncesUsed' = 1 THEN Caller ELSE "none"
  <2>3. \A a \in Addresses : (IF a = Caller THEN NoncesUsed' ELSE 0) = IF a = sender THEN 1 ELSE 0
    BY <2>1, GenesisAssumption
  <2>4. sender \in DOMAIN base.acc \cup {"none"}
    BY <2>1, <2>2
  <2> HIDE DEF sender
  <2>5. Ledger!Execute(sender)
    BY <2>1, <2>2, <2>3 DEF Ledger!Execute
  <2> QED
    BY <2>4, <2>5 DEF Ledger!Next
<1> QED
  BY <1>1, <1>2, <1>3, <1>4, <1>5, <1>6, Steps

=============================================================================
