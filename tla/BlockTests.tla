----------------------------- MODULE BlockTests -----------------------------
(***************************************************************************)
(* `revme btest`: the files of each path in turn, the tests of a file in     *)
(* turn, and the blocks of a test on one State that starts from its pre.     *)
(*                                                                         *)
(* A file is [skip, decodes, tests]; a test [network, hash, excess, pre,     *)
(* blocks, post], where post is Nothing or a map of accounts; a block        *)
(* [header, expect_exception, txs, withdrawals], where header is Nothing or   *)
(* [number, hash, parent_hash, beacon, excess, coinbase]; a transaction       *)
(* [sender, env_ok, valid]: who sends it, whether to_tx_env builds it and      *)
(* whether the EVM accepts it.                                              *)
(***************************************************************************)
EXTENDS Naturals, Sequences, FiniteSets, Functions, SequencesExt

CONSTANTS Nothing,                      \* None
          History, Beacon               \* HISTORY_STORAGE_ADDRESS, BEACON_ROOTS_ADDRESS

VARIABLES btest,        \* where the command is, and what it has counted
          world,        \* the accounts of the State the test runs on
          ran           \* history: what the pre-block calls of each block were given

btvars == <<btest, world, ran>>

Unbegun == [pc |-> "off", paths |-> <<>>, keep_going |-> FALSE, path |-> 1, file |-> 1, test |-> 1,
            block |-> 1, tx |-> 1, passed |-> 0, failed |-> 0, parent_hash |-> Nothing, excess |-> 0,
            env |-> Nothing]
Closed == btest = Unbegun /\ world = <<>> /\ ran = <<>>

Path == btest.paths[btest.path]
TestFile == Path.files[btest.file]
Case == TestFile.tests[btest.test]
Block == Case.blocks[btest.block]
Tx == Block.txs[btest.tx]

SpecIds == <<"FRONTIER", "FRONTIER_THAWING", "HOMESTEAD", "DAO_FORK", "TANGERINE", "SPURIOUS_DRAGON",
             "BYZANTIUM", "CONSTANTINOPLE", "PETERSBURG", "ISTANBUL", "MUIR_GLACIER", "BERLIN", "LONDON",
             "ARROW_GLACIER", "GRAY_GLACIER", "MERGE", "SHANGHAI", "CANCUN", "PRAGUE", "OSAKA", "AMSTERDAM">>
is_enabled_in(spec, fork) ==
    LET rank(f) == SelectInSeq(SpecIds, LAMBDA x : x = f) IN rank(fork) <= rank(spec)
Transitions == {"ByzantiumToConstantinopleAt5", "ParisToShanghaiAtTime15k", "ShanghaiToCancunAtTime15k",
                "CancunToPragueAtTime15k", "PragueToOsakaAtTime15k", "BPO1ToBPO2AtTime15k"}
fork_to_spec_id(network) ==
    CASE network = "Frontier" -> "FRONTIER"
      [] network \in {"Homestead", "FrontierToHomesteadAt5"} -> "HOMESTEAD"
      [] network \in {"EIP150", "HomesteadToDaoAt5", "HomesteadToEIP150At5"} -> "TANGERINE"
      [] network = "EIP158" -> "SPURIOUS_DRAGON"
      [] network \in {"Byzantium", "EIP158ToByzantiumAt5", "ByzantiumToConstantinopleFixAt5"} -> "BYZANTIUM"
      [] network \in {"Constantinople", "ConstantinopleFix", "ByzantiumToConstantinopleAt5"} -> "PETERSBURG"
      [] network = "Istanbul" -> "ISTANBUL"
      [] network = "Berlin" -> "BERLIN"
      [] network \in {"London", "BerlinToLondonAt5"} -> "LONDON"
      [] network \in {"Paris", "ParisToShanghaiAtTime15k"} -> "MERGE"
      [] network = "Shanghai" -> "SHANGHAI"
      [] network \in {"Cancun", "ShanghaiToCancunAtTime15k"} -> "CANCUN"
      [] network \in {"Prague", "CancunToPragueAtTime15k"} -> "PRAGUE"
      [] network \in {"Osaka", "PragueToOsakaAtTime15k"} -> "OSAKA"
      [] OTHER -> "AMSTERDAM"
Spec_id == fork_to_spec_id(Case.network)

ONE_ETHER == 10         \* in units of a gwei, scaled down
block_reward(spec) ==
    CASE is_enabled_in(spec, "MERGE") -> 0
      [] ~is_enabled_in(spec, "MERGE") /\ is_enabled_in(spec, "CONSTANTINOPLE") -> ONE_ETHER * 2
      [] ~is_enabled_in(spec, "CONSTANTINOPLE") /\ is_enabled_in(spec, "BYZANTIUM") -> ONE_ETHER * 3
      [] OTHER -> ONE_ETHER * 5

NoAccount == [balance |-> 0, nonce |-> 0, code |-> "empty", storage |-> <<>>]
Get(w, a) == IF a \in DOMAIN w THEN w[a] ELSE NoAccount
Set(w, a, account) == [x \in DOMAIN w \cup {a} |-> IF x = a THEN account ELSE w[x]]
SlotOf(account, k) == IF k \in DOMAIN account.storage THEN account.storage[k] ELSE 0
balance_incr(w, a, amount) == Set(w, a, [Get(w, a) EXCEPT !.balance = @ + amount])
Stored(w, a, k, v) == Set(w, a, [Get(w, a) EXCEPT !.storage = Set(@, k, v)])

(* the storage of the genesis is inserted without its zeros *)
into_genesis_state(pre) ==
    [a \in DOMAIN pre |->
        [pre[a] EXCEPT !.storage = Restrict(@, {k \in DOMAIN @ : @[k] # 0})]]

(* the system contracts keep what they are called with: the parent's hash under *)
(* the number of the parent, the beacon root under the number of the block       *)
pre_block_transition(w, spec, number, parent_hash, beacon) ==
    LET hashed == IF number # 0 /\ parent_hash # Nothing /\ is_enabled_in(spec, "PRAGUE")
                  THEN Stored(w, History, number - 1, parent_hash) ELSE w
    IN  IF number # 0 /\ beacon # Nothing /\ is_enabled_in(spec, "CANCUN")
        THEN Stored(hashed, Beacon, number, beacon) ELSE hashed

(* the reward, and each withdrawal; the requests of Prague leave no trace here *)
post_block_transition_unforked(w, spec, coinbase, withdrawals) ==
    FoldLeft(LAMBDA s, wd : balance_incr(s, wd.address, wd.amount),
             balance_incr(w, coinbase, block_reward(spec)), withdrawals)
post_block_transition(w, spec, coinbase, withdrawals) ==
    LET rewarded == IF block_reward(spec) # 0 THEN balance_incr(w, coinbase, block_reward(spec)) ELSE w
    IN  IF is_enabled_in(spec, "SHANGHAI")
        THEN FoldLeft(LAMBDA s, wd : balance_incr(s, wd.address, wd.amount), rewarded, withdrawals)
        ELSE rewarded

(* Only the accounts that are expected are looked at, code only when some is    *)
(* expected, and a slot that is not expected has to be zero.                    *)
validate_post_state(w, post) ==
    \A a \in DOMAIN post :
        LET actual == Get(w, a)
            wanted == post[a]
        IN  /\ actual.balance = wanted.balance /\ actual.nonce = wanted.nonce
            /\ wanted.code # "empty" => actual.code = wanted.code
            /\ \A k \in DOMAIN actual.storage : k \in DOMAIN wanted.storage \/ actual.storage[k] = 0
            /\ \A k \in DOMAIN wanted.storage : SlotOf(actual, k) = wanted.storage[k]

-----------------------------------------------------------------------------
Btest(ps, keep_going) ==
    /\ btest.pc = "off"
    /\ btest' = [btest EXCEPT !.pc = "path", !.paths = ps, !.keep_going = keep_going]
    /\ UNCHANGED <<world, ran>>

(* Cmd::run: the next path, with counters of its own *)
NextPath ==
    /\ btest.pc = "path"
    /\ btest' = IF btest.path > Len(btest.paths) THEN [btest EXCEPT !.pc = "Ok"]
                ELSE IF ~Path.exists \/ Path.files = <<>> THEN [btest EXCEPT !.pc = "Err"]
                ELSE [btest EXCEPT !.pc = "files", !.file = 1, !.passed = 0, !.failed = 0]
    /\ UNCHANGED <<world, ran>>

(* files known to be problematic *)
skip_test(file) == file.skip

(* run_tests: known problems are passed over *)
NextFile ==
    /\ btest.pc = "files" /\ btest.file <= Len(Path.files) /\ UNCHANGED <<world, ran>>
    /\ btest' = IF skip_test(TestFile) THEN [btest EXCEPT !.file = @ + 1]
                ELSE IF ~TestFile.decodes THEN [btest EXCEPT !.pc = "failed"]
                ELSE [btest EXCEPT !.pc = "tests", !.test = 1]

(* the summary ends the path *)
Summary ==
    /\ btest.pc = "files" /\ btest.file > Len(Path.files) /\ UNCHANGED <<world, ran>>
    /\ btest' = IF btest.failed > 0 THEN [btest EXCEPT !.pc = "Err"]
                ELSE [btest EXCEPT !.pc = "path", !.path = @ + 1]

(* run_test_file returned an error: the other tests of the file are not run *)
FileFailed_uncounted ==
    /\ btest.pc = "failed" /\ UNCHANGED <<world, ran>>
    /\ btest' = IF btest.keep_going THEN [btest EXCEPT !.pc = "files", !.file = @ + 1]
                ELSE [btest EXCEPT !.failed = @ + 1, !.pc = "Err"]
FileFailed ==
    /\ btest.pc = "failed" /\ UNCHANGED <<world, ran>>
    /\ btest' = IF btest.keep_going THEN [btest EXCEPT !.failed = @ + 1, !.pc = "files", !.file = @ + 1]
                ELSE [btest EXCEPT !.failed = @ + 1, !.pc = "Err"]

(* run_test_file: passed takes the tests of a file only when all of them passed *)
NextTest ==
    /\ btest.pc = "tests" /\ btest.test > Len(TestFile.tests)
    /\ btest' = [btest EXCEPT !.pc = "files", !.file = @ + 1, !.passed = @ + Len(TestFile.tests)]
    /\ UNCHANGED <<world, ran>>

(* execute_blockchain_test: a transition fork is a success without a run *)
SkipFork ==
    /\ btest.pc = "tests" /\ btest.test <= Len(TestFile.tests) /\ Case.network \in Transitions
    /\ btest' = [btest EXCEPT !.test = @ + 1]
    /\ UNCHANGED <<world, ran>>

Genesis ==
    /\ btest.pc = "tests" /\ btest.test <= Len(TestFile.tests) /\ Case.network \notin Transitions
    /\ world' = into_genesis_state(Case.pre) /\ ran' = <<>>
    /\ btest' = [btest EXCEPT !.pc = "blocks", !.block = 1, !.parent_hash = Case.hash,
                              !.excess = Case.excess, !.env = Case.genesis]

(* a block's blobs are priced by the excess of its parent *)
to_block_env(h, parent_excess) == [number |-> h.number, coinbase |-> h.coinbase, excess |-> parent_excess]

(* the block's environment, which stays that of the block before when there is   *)
(* no header, and the calls before its transactions                             *)
BeginBlock ==
    /\ btest.pc = "blocks" /\ btest.block <= Len(Case.blocks)
    /\ LET h == Block.header
           env == IF h = Nothing THEN btest.env ELSE to_block_env(h, btest.excess)
           beacon == IF h = Nothing THEN Nothing ELSE h.beacon
       IN  /\ btest' = [btest EXCEPT !.pc = "txs", !.tx = 1, !.env = env]
           /\ world' = pre_block_transition(world, Spec_id, env.number, btest.parent_hash, beacon)
           /\ ran' = Append(ran, [env |-> env, parent_hash |-> btest.parent_hash, txs |-> <<>>])

Unsent == Tx.sender = Nothing
Rejected == ~Unsent /\ (~Tx.env_ok \/ ~Tx.valid)

(* to_tx_env or the EVM refuses the transaction, as the test says: go on *)
ExpectedFailure ==
    /\ btest.pc = "txs" /\ btest.tx <= Len(Block.txs) /\ Rejected /\ Block.expect_exception
    /\ btest' = [btest EXCEPT !.tx = @ + 1]
    /\ UNCHANGED <<world, ran>>

(* no sender, an unexpected failure or an unexpected success: the rest of the  *)
(* transactions is left, and nothing of this one is committed                  *)
LeaveBlock_committed ==
    /\ btest.pc = "txs" /\ btest.tx <= Len(Block.txs)
    /\ Unsent \/ Rejected # Block.expect_exception
    /\ btest' = [btest EXCEPT !.tx = Len(Block.txs) + 1]
    /\ world' = IF Unsent \/ Rejected THEN world
                ELSE Set(world, Tx.sender, [Get(world, Tx.sender) EXCEPT !.nonce = @ + 1])
    /\ UNCHANGED ran
LeaveBlock ==
    /\ btest.pc = "txs" /\ btest.tx <= Len(Block.txs)
    /\ Unsent \/ Rejected # Block.expect_exception
    /\ btest' = [btest EXCEPT !.tx = Len(Block.txs) + 1]
    /\ UNCHANGED <<world, ran>>

CommitTx ==
    /\ btest.pc = "txs" /\ btest.tx <= Len(Block.txs)
    /\ ~Unsent /\ ~Rejected /\ ~Block.expect_exception
    /\ world' = Set(world, Tx.sender, [Get(world, Tx.sender) EXCEPT !.nonce = @ + 1])
    /\ ran' = [ran EXCEPT ![Len(ran)].txs = Append(@, btest.tx)]
    /\ btest' = [btest EXCEPT !.tx = @ + 1]

(* however the transactions ended, the block is finished with its reward and    *)
(* withdrawals, and is the parent of the next                                  *)
EndBlock ==
    /\ btest.pc = "txs" /\ btest.tx > Len(Block.txs)
    /\ world' = post_block_transition(world, Spec_id, btest.env.coinbase, Block.withdrawals)
    /\ LET h == Block.header
       IN  btest' = [btest EXCEPT !.pc = "blocks", !.block = @ + 1,
                        !.parent_hash = IF h = Nothing THEN Nothing ELSE h.hash,
                        !.excess = IF h = Nothing \/ h.excess = Nothing THEN @ ELSE h.excess]
    /\ UNCHANGED ran

EndTest ==
    /\ btest.pc = "blocks" /\ btest.block > Len(Case.blocks)
    /\ btest' = IF Case.post = Nothing \/ validate_post_state(world, Case.post)
                THEN [btest EXCEPT !.pc = "tests", !.test = @ + 1]
                ELSE [btest EXCEPT !.pc = "failed"]
    /\ UNCHANGED <<world, ran>>

BtestStep ==
    \/ NextPath \/ NextFile \/ Summary \/ FileFailed \/ NextTest \/ SkipFork \/ Genesis
    \/ BeginBlock \/ ExpectedFailure \/ LeaveBlock \/ CommitTx \/ EndBlock \/ EndTest
BtestFairness == WF_btvars(BtestStep)

-----------------------------------------------------------------------------
(* a test whose blocks follow one another and are all valid *)
WellFormed(t) ==
    /\ t.network \notin Transitions /\ t.genesis.number = 0
    /\ \A i \in DOMAIN t.blocks :
          LET b == t.blocks[i] IN
          /\ b.header # Nothing /\ b.header.number = i /\ ~b.expect_exception
          /\ b.header.parent_hash = IF i = 1 THEN t.hash ELSE t.blocks[i - 1].header.hash
          /\ \A j \in DOMAIN b.txs : b.txs[j].sender # Nothing /\ b.txs[j].env_ok /\ b.txs[j].valid

Credits(t, n, a) ==
    LET spec == fork_to_spec_id(t.network)
        amounts(b) == FoldLeft(LAMBDA sum, wd : IF wd.address = a THEN sum + wd.amount ELSE sum, 0, b.withdrawals)
    IN  FoldLeft(LAMBDA sum, b :
                    sum + (IF b.header.coinbase = a THEN block_reward(spec) ELSE 0)
                        + (IF is_enabled_in(spec, "SHANGHAI") THEN amounts(b) ELSE 0),
                 0, SubSeq(t.blocks, 1, n))

Kept(t, n, a) ==
    LET spec == fork_to_spec_id(t.network)
    IN  CASE a = History /\ is_enabled_in(spec, "PRAGUE") ->
                [k \in 0..(n - 1) |-> t.blocks[k + 1].header.parent_hash]
          [] a = Beacon /\ is_enabled_in(spec, "CANCUN") ->
                [k \in {i \in 1..n : t.blocks[i].header.beacon # Nothing} |-> t.blocks[k].header.beacon]
          [] OTHER -> <<>>

(* what a well-formed test makes of an account in its first n blocks *)
After(t, n, a) ==
    LET before == Get(into_genesis_state(t.pre), a)
        kept == Kept(t, n, a)
        sent == UNION {{<<i, j>> : j \in {k \in DOMAIN t.blocks[i].txs : t.blocks[i].txs[k].sender = a}} :
                          i \in 1..n}
    IN  [before EXCEPT !.balance = @ + Credits(t, n, a), !.nonce = @ + Cardinality(sent),
                       !.storage = [k \in DOMAIN @ \cup DOMAIN kept |->
                                       IF k \in DOMAIN kept THEN kept[k] ELSE @[k]]]

(* After every block of a well-formed test the accounts are the genesis with      *)
(* every transaction once, the rewards and the withdrawals of the fork, and the    *)
(* system contracts hold the parent hashes and beacon roots of the headers.  In    *)
(* any test, the transactions kept are a prefix of their block, all of them        *)
(* counted once in a nonce and none of a block that is expected to be invalid;      *)
(* and each block is priced by the excess blob gas of its parent.                  *)
StateOfBlocks ==
    btest.pc = "blocks" =>
        LET n == btest.block - 1
            kept(a) == UNION {{<<i, j>> : j \in {k \in Range(ran[i].txs) : Case.blocks[i].txs[k].sender = a}} :
                                 i \in 1..n}
        IN  /\ WellFormed(Case) => \A a \in DOMAIN world : world[a] = After(Case, n, a)
            /\ \A a \in DOMAIN world :
                  world[a].nonce = Get(Case.pre, a).nonce + Cardinality(kept(a))
            /\ \A i \in 1..n :
                  /\ ran[i].txs = [j \in 1..Len(ran[i].txs) |-> j]
                  /\ Case.blocks[i].expect_exception => ran[i].txs = <<>>
                  /\ WellFormed(Case) /\ (i > 1 => Case.blocks[i - 1].header.excess # Nothing) =>
                        ran[i].env.excess = IF i = 1 THEN Case.excess ELSE Case.blocks[i - 1].header.excess

Meets(t) ==
    t.network \in Transitions \/ t.post = Nothing
    \/ validate_post_state([a \in DOMAIN t.post |-> After(t, Len(t.blocks), a)], t.post)

(* btest succeeds only when every file decodes and every well-formed test meets    *)
(* its post state, and fails only for a file that has a fault; with keep_going      *)
(* every file of the path was run first, without it none after the first failure.   *)
BtestOutcome ==
    LET sound(t) == t.network \in Transitions \/ WellFormed(t)
        good(f) == f.skip \/ (f.decodes /\ \A i \in DOMAIN f.tests : sound(f.tests[i]) => Meets(f.tests[i]))
        suspect(f) == ~f.skip /\ (~f.decodes \/ \E i \in DOMAIN f.tests : ~sound(f.tests[i]) \/ ~Meets(f.tests[i]))
    IN  /\ btest.pc = "Ok" => \A p \in DOMAIN btest.paths :
                                 /\ btest.paths[p].exists /\ btest.paths[p].files # <<>>
                                 /\ \A f \in DOMAIN btest.paths[p].files : good(btest.paths[p].files[f])
        /\ btest.pc = "Err" /\ Path.exists /\ Path.files # <<>> =>
              /\ \E f \in DOMAIN Path.files : suspect(Path.files[f])
              /\ IF btest.keep_going THEN btest.file > Len(Path.files)
                 ELSE btest.failed = 1 /\ suspect(TestFile)

(* btest has ended. *)
BtestEnded == btest.pc \in {"Ok", "Err"}

==============================================================================
