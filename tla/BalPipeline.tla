----------------------------- MODULE BalPipeline ------------------------------
(***************************************************************************)
(* Blocks executed with block access lists (revme's baltest over flatdb,   *)
(* librocksdb).  First the blocks are executed in order and every block's  *)
(* BalDatabase builds its list; that gives the lists, the locations read   *)
(* and the pre-block states the command starts from.  Then chunks of       *)
(* blocks are executed in parallel: a transaction reads the state before   *)
(* its chunk through the merged list of the chunk, at its own index.  The  *)
(* list is then written to the database, which RocksDB does in four        *)
(* batches; a crash between them leaves some of them, and the rewind to    *)
(* the first block writes the pre-block states back.                       *)
(***************************************************************************)
EXTENDS BalOps, SequencesExt

CONSTANTS
    Addrs, Slots,
    MaxValue,        \* bound: balances, codes, slot values
    Genesis,         \* the databases to start from
    Shapes,          \* bound: for every block, its number of transactions
    Batches,         \* blocks of a chunk (batch_blocks)
    Backends,        \* "mdbx", "rocksdb"
    MaxCommits,      \* bound: commits at one index
    MaxCrashes       \* bound

VARIABLES
    run,      \* the shape of the blocks; once they are built, the chunk size and the backend
    phase,    \* "build", then "execute", "commit" or "rewind"
    plan,     \* what a commit or a rewind writes
    todo,     \* the batches of it not yet written
    world,    \* the state, as blocks executed in order leave it
    past,     \* the state before every index, blocks after one another
    block, index, commits,  \* where the sequential execution is
    builder,  \* the list of the current block
    outputs,  \* the list merged from those of its transactions, as execute_blocks does
    bals,     \* the lists of the finished blocks, and those merged from outputs
    pre,      \* PreBlockState of every block: what it accessed, as it was before it
    db,       \* accounts, codes and storage
    chunk,    \* the first block of the chunk in execution
    crashes

vars == <<run, phase, plan, todo, world, past, block, index, commits, builder, outputs, bals, pre, db,
          chunk, crashes>>

Values == 0..MaxValue
Infos == [Fields -> Values]
Blocks == Len(run.shape)

(* the global index of a block's index 0, as batch_merged_bal counts: every  *)
(* block has an index before and one after its transactions                  *)
OffsetFrom(first, b) == FoldLeft(LAMBDA n, t : n + t + 2, 0, SubSeq(run.shape, first, b - 1))

(* the state before index i of block b *)
Before(b, i) == past[OffsetFrom(1, b) + i + 1]
-------------------------------------------------------------------------------
(* Building: the blocks are executed in order. *)

Output(destroyed, a, info, storage) ==
    [selfdestructed |-> destroyed, original |-> world[a].info, info |-> info,
     storage |-> [k \in DOMAIN storage |-> <<world[a].storage[k], storage[k]>>]]

(* what may be done to an account at an index: system calls before the       *)
(* transactions write storage, withdrawals after them change balances; a     *)
(* contract is created where there is no code, and destroyed only in the     *)
(* transaction that created it                                               *)
Outputs(a) ==
    LET w == world[a]
        reads == {EmptyMap} \cup {[k \in {s} |-> v] : s \in Slots, v \in Values}
        unchanged == {Output(FALSE, a, w.info, EmptyMap)}
        stores == {Output(FALSE, a, w.info, f) : f \in reads}
        pays == {Output(FALSE, a, [w.info EXCEPT !.balance = v], EmptyMap) : v \in Values}
        codes == IF w.info.code = 0 THEN Values ELSE {w.info.code}
        fresh == w.info.code = 0 /\ \A k \in Slots : w.storage[k] = 0
    IN IF index = 0 THEN IF w.info.code = 0 THEN unchanged ELSE stores
       ELSE IF index = run.shape[block] + 1 THEN pays
       ELSE {Output(FALSE, a, i, f) : i \in {i \in Infos : i.code \in codes},
                                      f \in IF w.info.code = 0 /\ ~ fresh THEN {EmptyMap} ELSE reads}
            \cup IF fresh THEN {Output(TRUE, a, w.info, f) : f \in reads} ELSE {}

Outcome(a, out) ==
    IF out.selfdestructed THEN [info |-> EmptyInfo, storage |-> [k \in Slots |-> 0]]
    ELSE [info |-> out.info,
          storage |-> [k \in Slots |-> IF k \in DOMAIN out.storage THEN out.storage[k][2]
                                       ELSE world[a].storage[k]]]

(* the account and the slots are added to the pre-block state as they were   *)
(* before the block                                                          *)
Accessed(p, a, keys) ==
    LET start == Before(block, 0)[a]
        known == At(p, a, [info |-> start.info, storage |-> EmptyMap])
    IN Over([x \in {a} |-> [known EXCEPT !.storage =
                 Over(@, [k \in keys |-> start.storage[k]])]], p)

Change(a, out) ==
    LET changes == [x \in {a} |-> out]
        ofTx == CommitToBuilder(EmptyMap, index, changes)
    IN /\ phase = "build" /\ commits < MaxCommits
       /\ out.info.code # 0 \/ \A k \in DOMAIN out.storage : out.storage[k][2] = out.storage[k][1]
       /\ builder' = CommitToBuilder(builder, index, changes)
       /\ outputs' = IF index \in 1..run.shape[block] THEN MergeBal(outputs, ofTx, index)
                     ELSE outputs
       /\ world' = [world EXCEPT ![a] = Outcome(a, out)]
       /\ pre' = [pre EXCEPT ![block] = Accessed(@, a, DOMAIN out.storage)]
       /\ commits' = commits + 1
       /\ UNCHANGED <<run, phase, plan, todo, past, block, index, bals, db, chunk, crashes>>

(* bump_bal_index *)
Bump ==
    /\ phase = "build" /\ index <= run.shape[block]
    /\ index' = index + 1 /\ commits' = 0 /\ past' = Append(past, world)
    /\ UNCHANGED <<run, phase, plan, todo, world, block, builder, outputs, bals, pre, db, chunk,
                   crashes>>

FinishBlock ==
    /\ phase = "build" /\ index = run.shape[block] + 1
    /\ bals' = Append(bals, [built |-> builder, merged |-> outputs])
    /\ builder' = EmptyMap /\ outputs' = EmptyMap /\ index' = 0 /\ commits' = 0
    /\ past' = Append(past, world)
    /\ \/ block < Blocks /\ block' = block + 1 /\ UNCHANGED <<run, phase>>
       \/ /\ block = Blocks /\ phase' = "execute" /\ UNCHANGED block
          /\ \E batch \in Batches, backend \in Backends :
                batch <= Blocks /\ run' = [run EXCEPT !.batch = batch, !.backend = backend]
    /\ UNCHANGED <<plan, todo, world, pre, db, chunk, crashes>>
-------------------------------------------------------------------------------
(* Executing a chunk. *)

ChunkEnd == IF chunk + run.batch - 1 < Blocks THEN chunk + run.batch - 1 ELSE Blocks

(* batch_merged_bal *)
ChunkBal ==
    FoldLeft(LAMBDA bal, b : MergeBalWithOffset(bal, bals[b].built, OffsetFrom(chunk, b)),
             EmptyMap, [i \in 1..(ChunkEnd + 1 - chunk) |-> chunk + i - 1])

(* basic_ref of a provider; the code is read with the account *)
DbBasic(d, a) == IF a \in DOMAIN d.accounts THEN <<d.accounts[a]>> ELSE <<>>

(* storage_ref: PlainStorageState may hold several entries of a slot, of     *)
(* which the smallest is found                                               *)
DbStorage(d, a, k) ==
    IF d.storage[a][k] = {} THEN 0 ELSE CHOOSE v \in d.storage[a][k] : \A x \in d.storage[a][k] : v <= x

(* the index handle_tx reads at *)
TxIndex(b, t) == t + OffsetFrom(chunk, b)

ReadInfo(bal, b, t, a) == BalBasic(bal, TxIndex(b, t), a, DbBasic(db, a))

ReadStorage(bal, b, t, a, k) == BalStorage(bal, TxIndex(b, t), a, k, DbStorage(db, a, k))

(* batch_merged_bal_read, batch_preblock_state: what the blocks of the chunk *)
(* read is fetched before any of them executes                               *)
ChunkReads ==
    FoldLeft(LAMBDA reads, p : Over([a \in DOMAIN p |-> At(reads, a, {}) \cup DOMAIN p[a].storage], reads),
             EmptyMap, SubSeq(pre, chunk, ChunkEnd))

Prefetched ==
    [a \in DOMAIN ChunkReads |->
        [info |-> DbBasic(db, a), storage |-> [k \in ChunkReads[a] |-> DbStorage(db, a, k)]]]

(* basic_ref and storage_ref of PreBlockStateCache *)
CachedBasic(cache, a) == IF a \in DOMAIN cache THEN cache[a].info ELSE <<>>

CachedStorage(cache, a, k) ==
    IF a \in DOMAIN cache THEN At(cache[a].storage, k, 0) ELSE 0

(* prestate_to_cachedb, derive_pre_tx_states: the list written into the      *)
(* pre-block state, one transaction after the other                          *)
PopulateState(state, bal, i) ==
    [a \in DOMAIN state |->
        IF a \notin DOMAIN bal THEN state[a]
        ELSE [info |-> PopulateInfo(bal[a].info, i, state[a].info),
              storage |-> [k \in DOMAIN state[a].storage |->
                  PopulateSlot(bal[a].storage, i, k, state[a].storage[k])]]]

PreTxState(b, t) ==
    FoldLeft(LAMBDA state, i : PopulateState(state, bals[b].built, i), pre[b], [i \in 1..t |-> i])
-------------------------------------------------------------------------------
(* Writing. *)

Newest(writes) == IF writes = <<>> THEN 0 ELSE Last(writes)[1] + 1

SetMax(S) == CHOOSE x \in S : \A y \in S : y <= x

\* Mutant of LatestInfo: the write of the highest index is not seen.
LatestInfoExclusive(accountBal, info) ==
    LET newest == SetMax({Newest(accountBal.info[f]) : f \in Fields})
    IN IF newest = 0 THEN info ELSE PopulateInfo(accountBal.info, newest - 1, info)

(* the info commit_bal_changes computes *)
LatestInfo(accountBal, info) ==
    LET newest == SetMax({Newest(accountBal.info[f]) : f \in Fields})
    IN IF newest = 0 THEN info ELSE PopulateInfo(accountBal.info, newest, info)

(* what commit_bal_changes writes and deletes *)
Commit(bal) ==
    LET info(a) == LatestInfo(bal[a], IF a \in DOMAIN db.accounts THEN db.accounts[a] ELSE EmptyInfo)
        written(a) == {k \in DOMAIN bal[a].storage : bal[a].storage[k] # <<>>}
    IN [deleted |-> {a \in DOMAIN bal : info(a) = EmptyInfo},
        accounts |-> [a \in {a \in DOMAIN bal : info(a) # EmptyInfo} |-> info(a)],
        codes |-> {Last(bal[a].info["code"])[2] : a \in {a \in DOMAIN bal : bal[a].info["code"] # <<>>}},
        storage |-> [a \in DOMAIN bal |-> [k \in written(a) |-> Last(bal[a].storage[k])[2]]]]

(* derive_pre_all_execution_state: the first state known of every account    *)
(* and slot                                                                  *)
InsertAccounts(state, p) ==
    Over([a \in DOMAIN state \cap DOMAIN p |->
             [state[a] EXCEPT !.storage = Over(@, p[a].storage)]], Over(state, p))

PreAllState == FoldLeft(InsertAccounts, EmptyMap, pre)

(* set_preblock_state: an account that did not exist becomes an empty one *)
Rewind ==
    [deleted |-> {},
     accounts |-> [a \in DOMAIN PreAllState |-> PreAllState[a].info],
     codes |-> {PreAllState[a].info.code : a \in DOMAIN PreAllState},
     storage |-> [a \in DOMAIN PreAllState |-> PreAllState[a].storage]]

\* Mutant of PutEntry: the entry there was is not deleted.
PutEntryBeside(entries, v) == entries \cup {v}

(* the entries of a slot are deleted before one is put; a put of RocksDB     *)
(* overwrites                                                                *)
PutEntry(entries, v) == {v}

DeleteAccounts(d, w) == [d EXCEPT !.accounts = Restrict(@, DOMAIN @ \ w.deleted)]
PutAccounts(d, w) == [d EXCEPT !.accounts = Over(w.accounts, @)]
PutCodes(d, w) == [d EXCEPT !.codes = @ \cup w.codes]
PutStorages(d, w) ==
    [d EXCEPT !.storage = [a \in Addrs |-> [k \in Slots |->
        IF a \in DOMAIN w.storage /\ k \in DOMAIN w.storage[a] THEN PutEntry(@[a][k], w.storage[a][k])
        ELSE @[a][k]]]]

Apply(d, w, batch) ==
    CASE batch = "delete" -> DeleteAccounts(d, w)
      [] batch = "accounts" -> PutAccounts(d, w)
      [] batch = "codes" -> PutCodes(d, w)
      [] batch = "storage" -> PutStorages(d, w)
      [] batch = "all" -> PutStorages(PutCodes(PutAccounts(DeleteAccounts(d, w), w), w), w)

(* an mdbx transaction is one batch *)
CommitBatches ==
    IF run.backend = "mdbx" THEN <<"all">> ELSE <<"delete", "accounts", "codes", "storage">>

RewindBatches == IF run.backend = "mdbx" THEN <<"all">> ELSE <<"accounts", "codes", "storage">>

building == <<run, world, past, block, index, commits, builder, outputs, bals, pre>>

BeginCommit ==
    /\ phase = "execute" /\ phase' = "commit"
    /\ plan' = Commit(ChunkBal) /\ todo' = CommitBatches
    /\ UNCHANGED <<building, db, chunk, crashes>>

WriteBatch ==
    /\ phase \in {"commit", "rewind"} /\ todo # <<>>
    /\ db' = Apply(db, plan, Head(todo)) /\ todo' = Tail(todo)
    /\ UNCHANGED <<building, phase, plan, chunk, crashes>>

(* the next chunk; after the last one the database is rewound *)
EndCommit ==
    /\ phase = "commit" /\ todo = <<>>
    /\ IF ChunkEnd < Blocks
       THEN phase' = "execute" /\ chunk' = ChunkEnd + 1 /\ UNCHANGED <<plan, todo>>
       ELSE phase' = "rewind" /\ plan' = Rewind /\ todo' = RewindBatches /\ UNCHANGED chunk
    /\ UNCHANGED <<building, db, crashes>>

EndRewind ==
    /\ phase = "rewind" /\ todo = <<>>
    /\ phase' = "execute" /\ chunk' = 1
    /\ UNCHANGED <<building, plan, todo, db, crashes>>

(* the process dies; recover_db, or the next run on a mock database, rewinds *)
(* to the first block                                                        *)
Crash ==
    /\ phase # "build" /\ crashes < MaxCrashes /\ crashes' = crashes + 1
    /\ phase' = "rewind" /\ plan' = Rewind /\ todo' = RewindBatches
    /\ UNCHANGED <<building, db, chunk>>

Init ==
    /\ run \in [shape : Shapes, batch : {0}, backend : {"none"}]
    /\ phase = "build" /\ world \in Genesis /\ past = <<world>>
    /\ block = 1 /\ index = 0 /\ commits = 0
    /\ builder = EmptyMap /\ outputs = EmptyMap /\ bals = <<>>
    /\ pre = [b \in 1..Len(run.shape) |-> EmptyMap]
    /\ db = [accounts |-> [a \in {a \in Addrs : world[a].info # EmptyInfo} |-> world[a].info],
             codes |-> {world[a].info.code : a \in Addrs},
             storage |-> [a \in Addrs |-> [k \in Slots |->
                 IF world[a].storage[k] = 0 THEN {} ELSE {world[a].storage[k]}]]]
    /\ chunk = 1 /\ crashes = 0 /\ plan = EmptyMap /\ todo = <<>>

Next ==
    \/ \E a \in Addrs : phase = "build" /\ \E out \in Outputs(a) : Change(a, out)
    \/ Bump
    \/ FinishBlock
    \/ BeginCommit
    \/ WriteBatch
    \/ EndCommit
    \/ EndRewind
    \/ Crash

Spec == Init /\ [][Next]_vars
-------------------------------------------------------------------------------
AllWrites(bal) ==
    {bal[a].info[f] : a \in DOMAIN bal, f \in Fields}
    \cup UNION {{bal[a].storage[k] : k \in DOMAIN bal[a].storage} : a \in DOMAIN bal}

(* The execution is at an index of a block there is, and the database holds  *)
(* at most one entry of a slot and no value out of the bounds.               *)
TypeOK ==
    /\ phase \in {"build", "execute", "commit", "rewind"}
    /\ block \in 1..Blocks /\ index \in 0..(run.shape[block] + 1) /\ chunk \in 1..Blocks
    /\ world \in [Addrs -> [info : Infos, storage : [Slots -> Values]]]
    /\ DOMAIN db.accounts \subseteq Addrs /\ \A a \in DOMAIN db.accounts : db.accounts[a] \in Infos
    /\ \A a \in Addrs, k \in Slots :
          db.storage[a][k] \subseteq Values /\ Cardinality(db.storage[a][k]) <= 1

(* A list records every change once: the indices of the writes of a location *)
(* strictly increase, also after the lists of a chunk were merged, and two   *)
(* writes after one another differ.  BalWrites::get searches by this order.  *)
WritesIncrease ==
    /\ \A writes \in AllWrites(builder) :
          /\ Increasing(writes)
          /\ \A i \in DOMAIN writes : i > 1 => writes[i][2] # writes[i - 1][2]
    /\ phase = "execute" => \A writes \in AllWrites(ChunkBal) : Increasing(writes)

(* A transaction executed in parallel reads what it read when the blocks     *)
(* were executed in order: through the merged list of its chunk over the     *)
(* database and over the prefetched state, and from the state derived for it *)
(* from the pre-block state.                                                 *)
ReadsAreSequential ==
    phase = "execute" =>
        LET bal == ChunkBal
            cache == Prefetched
        IN \A b \in chunk..ChunkEnd : \A t \in 1..run.shape[b] : \A a \in DOMAIN pre[b] :
            LET then == Before(b, t)[a]
                derived == PreTxState(b, t)[a]
                info == IF then.info = EmptyInfo THEN <<>> ELSE <<then.info>>
            IN /\ ReadInfo(bal, b, t, a) = info
               /\ BalBasic(bal, TxIndex(b, t), a, CachedBasic(cache, a)) = info
               /\ BalBasic(EmptyMap, t, a, <<derived.info>>) = info
               /\ \A k \in DOMAIN pre[b][a].storage :
                    /\ ReadStorage(bal, b, t, a, k) = then.storage[k]
                    /\ BalStorage(bal, TxIndex(b, t), a, k, CachedStorage(cache, a, k)) = then.storage[k]
                    /\ derived.storage[k] = then.storage[k]

(* The lists the transactions of a block return, merged in order, hold the   *)
(* writes of the block's list at the indices of the transactions, which      *)
(* execute_blocks compares in its debug mode.                                *)
OutputsMerge ==
    \A b \in DOMAIN bals :
        LET built == WithoutIds(bals[b].built, {0, run.shape[b] + 1})
        IN \A a \in DOMAIN built :
            LET merged == At(bals[b].merged, a, NewAccountBal)
            IN merged.info = built[a].info
               /\ \A k \in DOMAIN built[a].storage : At(merged.storage, k, <<>>) = built[a].storage[k]

(* When a chunk begins, the database holds the state its first block starts  *)
(* from: after the commits of the chunks before it, and after a rewind,      *)
(* wherever a crash or the end of the run left the database; a slot never     *)
(* has two entries.                                                          *)
DbIsCurrent ==
    /\ TypeOK
    /\ phase = "execute" =>
        LET now == Before(chunk, 0)
        IN \A a \in Addrs :
            /\ At(db.accounts, a, EmptyInfo) = now[a].info
            /\ now[a].info.code \in db.codes
            /\ \A k \in Slots : DbStorage(db, a, k) = now[a].storage[k]

(* A list converted to its wire form and back is the same list.              *)
AlloyRoundTrip ==
    \A b \in DOMAIN bals : \A a \in DOMAIN bals[b].built :
        FromAlloyAccount(IntoAlloyAccount(bals[b].built[a])) = bals[b].built[a]

(* A list says the same however it was made and sent: built while executing,  *)
(* merged from the transactions' own lists or from the blocks of a chunk, and  *)
(* converted to its wire form and back.                                        *)
ListsFaithful == WritesIncrease /\ OutputsMerge /\ AlloyRoundTrip

===============================================================================
