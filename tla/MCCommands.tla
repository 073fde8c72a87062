----------------------------- MODULE MCCommands -----------------------------
(* Commands on small inputs: two threads, chunks that are not full, a         *)
(* transaction that cannot be executed, files that fail, panic and do not      *)
(* parse, and tables that end inside and at the end of a batch.               *)
EXTENDS Commands, TLC

tx(limit, used, is7702, valid) ==
    [gas_limit |-> limit, gas_used |-> used, eip7702 |-> is7702, valid |-> valid]
MCBlocks == {
    <<<<tx(3, 2, FALSE, TRUE), tx(5, 1, TRUE, TRUE)>>, <<>>, <<tx(4, 4, FALSE, TRUE)>>>>,
    <<<<tx(2, 2, FALSE, TRUE)>>, <<tx(2, 1, FALSE, TRUE), tx(9, 1, FALSE, TRUE), tx(1, 1, FALSE, TRUE)>>>>,
    <<<<tx(2, 2, TRUE, FALSE), tx(2, 2, FALSE, TRUE)>>, <<tx(1, 1, FALSE, FALSE)>>, <<tx(7, 3, FALSE, TRUE)>>>> }
MCJobs == [blocks : MCBlocks, batch : {1, 2}, order : {"None", "GasLimitAscending", "GasUsedDescending"},
           skip_7702 : BOOLEAN, scheduler : {"ConsumerProducer", "RoundRobin"}]

MCDatabase == [k \in {"a", "b", "c"} \X (0..2) |-> <<"value", k>>]
MCReads == {"a" :> {1, 2} @@ "b" :> {1}, "a" :> {} @@ "c" :> {2}, "b" :> {1, 2} @@ "c" :> {1, 2}}
MCFaults == {{}, {<<"b", 1>>}, {<<"c", 0>>}}

test == [constantinople |-> FALSE, tx_ok |-> TRUE, expect_exception |-> FALSE, fails |-> FALSE,
         output |-> "none", logs |-> TRUE, root |-> TRUE, panics |-> FALSE]
file(tests) == [skip |-> FALSE, parses |-> TRUE, tests |-> tests]
MCFiles == <<
    file(<<test, [test EXCEPT !.output = "same"]>>),
    file(<<test, [test EXCEPT !.root = FALSE], test>>),
    file(<<[test EXCEPT !.expect_exception = TRUE, !.fails = TRUE, !.root = FALSE]>>),
    file(<<[test EXCEPT !.fails = TRUE]>>),
    file(<<[test EXCEPT !.panics = TRUE]>>),
    file(<<[test EXCEPT !.tx_ok = FALSE, !.expect_exception = TRUE],
           [test EXCEPT !.constantinople = TRUE, !.logs = FALSE]>>),
    [file(<<>>) EXCEPT !.parses = FALSE],
    [file(<<>>) EXCEPT !.skip = TRUE, !.parses = FALSE] >>
path(files) == [exists |-> TRUE, files |-> [i \in DOMAIN files |-> MCFiles[files[i]]]]
MCPathLists == {
    <<path(<<1, 3, 6>>), path(<<8, 1>>)>>,
    <<path(<<2, 4, 1, 2>>), path(<<1>>)>>,
    <<path(<<1, 5, 2, 4>>)>>,
    <<path(<<7, 3, 1>>)>>,
    <<path(<<1>>), path(<<>>)>>,
    <<path(<<5, 5, 1>>)>>,
    <<[exists |-> FALSE, files |-> <<>>]>> }
MCFlags == {<<FALSE, FALSE, FALSE, FALSE>>, <<FALSE, FALSE, FALSE, TRUE>>,
            <<TRUE, FALSE, FALSE, TRUE>>, <<FALSE, TRUE, FALSE, FALSE>>}

MCSource == [accounts |-> <<"a1", "a2", "a3", "a4">>, codes |-> <<"c1", "c2", "c3">>,
             storage |-> <<<<1, 4>>, <<1, 5>>, <<1, 6>>, <<2, 4>>, <<3, 5>>, <<3, 7>>>>]

(* chains: valid blocks of several forks, blocks that are expected to be invalid   *)
(* and are or are not, blocks without a header, and post states met and missed      *)
account(balance, nonce, storage) == [balance |-> balance, nonce |-> nonce, code |-> "empty", storage |-> storage]
sent(who) == [sender |-> who, env_ok |-> TRUE, valid |-> TRUE]
header(i) == [number |-> i, hash |-> 10 + i, parent_hash |-> 9 + i, beacon |-> IF i = 2 THEN Nothing ELSE 20 + i,
              excess |-> IF i = 3 THEN Nothing ELSE i, coinbase |-> "miner"]
chainBlock(i, txs, withdrawals) ==
    [header |-> header(i), expect_exception |-> FALSE, txs |-> txs, withdrawals |-> withdrawals]
paid == <<[address |-> "staker", amount |-> 3], [address |-> "miner", amount |-> 1]>>
MCChain == <<
    chainBlock(1, <<sent("user"), sent("user")>>, paid), chainBlock(2, <<>>, <<>>),
    chainBlock(3, <<sent("user"), sent("miner")>>, paid) >>
chain(network, blocks, post) ==
    [network |-> network, hash |-> 10, excess |-> 0, blocks |-> blocks, post |-> post,
     genesis |-> [number |-> 0, coinbase |-> "miner", excess |-> 0],
     pre |-> "user" :> account(100, 1, 1 :> 7 @@ 2 :> 0)]
bad(i) == [MCChain[i] EXCEPT !.expect_exception = TRUE]
MCChainFiles == <<
    <<chain("Prague", MCChain, "staker" :> account(6, 0, <<>>) @@ "user" :> account(100, 4, 1 :> 7)),
      chain("Cancun", MCChain, "miner" :> account(2, 1, <<>>)),
      chain("Paris", MCChain, "miner" :> account(0, 1, <<>>))>>,
    <<chain("Frontier", MCChain, "miner" :> account(150, 1, <<>>)),
      chain("ParisToShanghaiAtTime15k", MCChain, "miner" :> account(1, 1, <<>>)),
      chain("Constantinople", MCChain, Nothing)>>,
    <<chain("Byzantium", MCChain, "miner" :> account(89, 1, <<>>)), chain("Osaka", MCChain, Nothing)>>,
    <<chain("Shanghai", MCChain, "user" :> account(100, 4, <<>>))>>,
    <<chain("Prague", <<MCChain[1], bad(2), bad(3), [bad(3) EXCEPT !.txs = <<[sent("user") EXCEPT !.valid = FALSE], sent("user")>>]>>,
            "user" :> account(100, 3, 1 :> 7))>>,
    <<chain("Shanghai", <<[MCChain[1] EXCEPT !.txs = <<sent("user"), [sent("user") EXCEPT !.env_ok = FALSE], sent("user")>>],
                          [MCChain[3] EXCEPT !.header = Nothing, !.txs = <<sent("user"), [sent("user") EXCEPT !.sender = Nothing], sent("user")>>]>>,
            "user" :> account(100, 3, 1 :> 7))>> >>
chainFile(i) == [skip |-> FALSE, decodes |-> TRUE, tests |-> MCChainFiles[i]]
Unreadable == [skip |-> FALSE, decodes |-> FALSE, tests |-> <<>>]
files(fs) == [exists |-> TRUE, files |-> fs]
MCChainPaths == {
    <<files(<<chainFile(1), chainFile(2), [Unreadable EXCEPT !.skip = TRUE]>>), files(<<chainFile(5), chainFile(6)>>)>>,
    <<files(<<chainFile(3), chainFile(1), chainFile(4)>>), files(<<chainFile(1)>>)>>,
    <<files(<<chainFile(2), Unreadable, chainFile(5)>>)>>,
    <<files(<<chainFile(6)>>), files(<<>>)>>,
    <<[exists |-> FALSE, files |-> <<>>]>> }

(* transactions an inspector watches: of two frames, and one after another *)
inspected(kind, gas) == [kind |-> kind, gas |-> gas]
MCSessions == {<<inspected("call", 3)>>, <<inspected("create", 3)>>, <<inspected("create", 1), inspected("call", 2)>>}

==============================================================================
