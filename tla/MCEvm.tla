-------------------------------- MODULE MCEvm --------------------------------
(* The execution API on small chains: mainnet before London and at Prague, a      *)
(* simulating configuration, Optimism at five forks, and the builders.            *)
EXTENDS Evm, TLC

account(balance, nonce) == [balance |-> balance, nonce |-> nonce, code |-> "none"]
MCGenesis ==
    [a \in {"alice", "bob", "coinbase", "l1fee", "basefee", "operator", "system", "depositor",
            "l1block", "created"} |->
        CASE a = "alice" -> account(20000000, 0) [] a = "bob" -> account(300, 3)
          [] a = "created" -> account(0, 1) [] OTHER -> account(0, 0)]

attrs(n, base_fee, base_scalar, blob_scalar) ==
    [block |-> n, base_fee |-> base_fee, overhead |-> 7, scalar |-> base_scalar, blob_base_fee |-> 3,
     base_scalar |-> base_scalar, blob_scalar |-> blob_scalar, sequence |-> 5,
     op_scalar |-> 2 + n, op_constant |-> 9 + n, da_scalar |-> 3]
MCAttributes == <<attrs(1, 2, 11, 5), attrs(2, 3, 12, 4), attrs(3, 4, 0, 0)>>

MCEnvelopes ==
    "bytes" :> [zeros |-> 1, others |-> 0, flz |-> 2] @@ "long" :> [zeros |-> 40, others |-> 300, flz |-> 250]
    @@ "wide" :> [zeros |-> 90, others |-> 500, flz |-> 410]
    @@ "empty" :> [zeros |-> 0, others |-> 0, flz |-> 0] @@ "deposit" :> [zeros |-> 1, others |-> 9, flz |-> 11]

tx0 == [NoTx EXCEPT !.base = build(Set(NewBuilder, [caller |-> "alice", to |-> "bob", gas_limit |-> 30000,
                                                    gas_price |-> 7, value |-> 50])).tx]
with(t, fields) == [t EXCEPT !.base = build(Set(t.base, fields)).tx]
enveloped(t, e) == [t EXCEPT !.envelope = e]
creating == [kind |-> "create", gas_limit |-> 60000, value |-> 5]
blob == [type |-> Eip4844, priority |-> 2, blobs |-> <<TRUE>>, max_blob_fee |-> 4]
deposit(t, mint) == [t EXCEPT !.source_hash = 1, !.mint = mint, !.base.type = DEPOSIT_TRANSACTION_TYPE,
                              !.base.gas_price = 0]
attributes(system) ==
    [deposit(with(tx0, [caller |-> "depositor", to |-> "l1block", value |-> 0]), None) EXCEPT !.system = system]

block0 == [number |-> 1, basefee |-> 5, blob_price |-> 2, gas_limit |-> 100000, prevrandao |-> TRUE,
           beneficiary |-> "coinbase"]
none == [chain |-> "eth", op |-> 1, cfg |-> NewCfg(Fork("PRAGUE")), block |-> block0, txs |-> "none",
         ops |-> {}, drafts |-> FALSE, calls |-> 2]

next(t) == with(t, [nonce |-> 1])
ethTxs == {tx0, with(tx0, creating), with(tx0, blob), with(tx0, [type |-> Eip1559, priority |-> 1, nonce |-> 1]),
           with(tx0, [type |-> Eip2930, access |-> 1, others |-> 20]), with(tx0, [value |-> 20000000]),
           with(tx0, [caller |-> "bob", nonce |-> 3, others |-> 600]), with(tx0, [gas_price |-> 4])}
eth(spec) ==
    [none EXCEPT !.cfg = NewCfg(Fork(spec)), !.txs = "eth", !.ops = {"transact_commit"}]
mainnet ==
    [none EXCEPT !.txs = "few",
                 !.ops = {"transact_one", "transact", "transact_commit", "transact_many", "transact_many_finalize",
                          "transact_many_commit", "replay", "replay_commit", "system_call_one", "system_call",
                          "system_call_commit"}]
simulating ==
    [none EXCEPT !.cfg = [NewCfg(Fork("PRAGUE")) EXCEPT !.disable_balance_check = TRUE,
                             !.disable_nonce_check = TRUE, !.disable_base_fee = TRUE],
                 !.txs = "simulated", !.ops = {"transact_commit", "replay"}]

opTxs == {enveloped(tx0, "long"), enveloped(next(tx0), "wide"), tx0,
          enveloped(with(tx0, creating), "long"), attributes(FALSE), attributes(TRUE),
          deposit(tx0, 40), deposit(with(tx0, [caller |-> "bob", to |-> "alice", value |-> 900]), 100),
          deposit(with(tx0, [caller |-> "bob", kind |-> "create", value |-> 900, gas_limit |-> 60000]), None),
          deposit(with(tx0, [gas_limit |-> 20000]), 1)}
op(spec) ==
    [none EXCEPT !.chain = "op", !.op = OpFork(spec), !.txs = "op",
                 !.cfg = NewCfg(into_eth_spec(OpFork(spec))),
                 !.ops = {"transact_commit"}]
optimism == [op("ISTHMUS") EXCEPT !.ops = {"transact_one", "transact_many_commit", "system_call_one"}, !.txs = "opfew"]
blocks == [op("ECOTONE") EXCEPT !.txs = "l2", !.calls = 5]
drafting == [none EXCEPT !.drafts = TRUE, !.block.gas_limit = 2^24]

MCTxs == [eth |-> ethTxs, few |-> {tx0, with(tx0, creating), with(tx0, [gas_price |-> 4])},
          op |-> opTxs, l2 |-> {attributes(FALSE)} \cup {enveloped(with(tx0, [gas_limit |-> 21000, nonce |-> n]), "long") : n \in 0..1},
          opfew |-> {enveloped(tx0, "long"), enveloped(next(tx0), "wide"), deposit(tx0, 40)}, none |-> {},
          simulated |-> {with(tx0, [caller |-> "bob", to |-> "alice", value |-> 900])}]
MCBatches == [few |-> {<<tx0, next(tx0)>>, <<tx0, tx0>>, <<with(tx0, creating), next(tx0)>>},
              opfew |-> {<<enveloped(tx0, "long"), enveloped(next(tx0), "wide")>>,
                      <<deposit(tx0, 40), enveloped(tx0, "wide")>>},
              none |-> {}, simulated |-> {}, eth |-> {}, op |-> {}, l2 |-> {}]
MCEnvs == {mainnet, optimism, blocks, eth("PRAGUE"), eth("BERLIN"), simulating, op("BEDROCK"), op("ECOTONE"), op("ISTHMUS"), op("JOVIAN"), drafting}
OpEnv == {op("ECOTONE")}

MCSetters ==
    [type |-> {0, 1, 2, 3, 4, 126, 255}, kind |-> {"create"}, access |-> {1}, priority |-> {1, 9},
     blobs |-> {<<TRUE>>}, max_blob_fee |-> {1, 3}, auths |-> {1}, gas_price |-> {6, 100},
     source_hash |-> {1}, envelope |-> {"long"}]
==============================================================================
