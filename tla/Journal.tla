------------------------------- MODULE Journal -------------------------------
(***************************************************************************)
(* Transactions executed against one journal.  The handler (crates/handler)*)
(* deducts the caller, warms the access list, applies authorizations and   *)
(* runs a stack of frames; every instruction that touches the state calls  *)
(* JournalInner, which is the record J of JournalOps.  A frame holds a     *)
(* checkpoint; a failing frame undoes the journal down to it.  An error of *)
(* the database or of the validation discards the transaction.             *)
(*                                                                         *)
(* checkpoint_revert and discard_tx are loops over the journal.  One turn  *)
(* of the loop is one step here (phases "undo" and "discard"), and nothing *)
(* else is enabled until the loop ends.                                    *)
(***************************************************************************)
EXTENDS JournalOps, FiniteSetsExt

CONSTANTS
    Callers,        \* accounts that sign transactions
    CallStackLimit, \* CALL_STACK_LIMIT
    MaxBatches,     \* bound: calls of finalize
    Genesis,        \* the databases to start from, by name
    Setups          \* the environments to check, with the bounds of each:
    \* cancun, precompiles; genesis, a database; coinbase, the beneficiary;
    \* authorities, who sign EIP-7702 authorizations; creatable, the addresses
    \* CREATE and CREATE2 can compute; listed, slots a transaction may list as
    \* accessed; kinds, fees and amounts of transactions; instructions, those
    \* contracts may execute; entries and logs, bounds of a transaction;
    \* first and last transaction_id, resident accounts, loaded before

VARIABLES
    env,    \* the member of Setups that is checked
    D,      \* the database: what accounts exist, their info and storage
    J,      \* JournalInner
    phase,  \* where Handler::run is
    frames, \* the frame stack, with the checkpoint of every frame
    tx,     \* the transaction: caller, kind, value, and the fee not yet paid out
    start,  \* the state when the transaction started
    batch   \* finalized batches

vars == <<env, D, J, phase, frames, tx, start, batch>>

NoTx == [caller |-> "none"]

Phases == {"idle", "deducted", "loaded", "run", "undo", "reimburse", "reward", "discard"}

Top == frames[Len(frames)]
------------------------------------------------------------------------------
(* What a transaction can observe of a journal.  An account an earlier      *)
(* transaction destroyed reads as empty: loading it clears it.              *)

Wiped(j, a) == a \in j.loaded /\ ~ MapWarm(j, a) /\ a \in j.destroyed_local

World(j, d) ==
    [bal |-> [a \in Addrs |-> IF Wiped(j, a) THEN 0 ELSE j.bal[a]],
     nonce |-> [a \in Addrs |-> IF Wiped(j, a) THEN 0 ELSE j.nonce[a]],
     code |-> [a \in Addrs |-> IF Wiped(j, a) THEN Empty ELSE j.code[a]],
     val |-> [k \in Keys |-> IF Wiped(j, k[1]) THEN 0 ELSE SlotValue(j, d, k)],
     touched |-> j.touched \ (j.precompiles \cap {Precompile3}),
     created |-> j.created, destroyed |-> j.destroyed,
     created_local |-> {a \in j.created_local : MapWarm(j, a)},
     destroyed_local |-> {a \in j.destroyed_local : MapWarm(j, a)},
     warm |-> {a \in Addrs : ~ IsCold(j, a)},
     swarm |-> {k \in Keys : ~ SlotIsCold(j, k)},
     transient |-> j.transient, logs |-> j.logs]

------------------------------------------------------------------------------
(* A new journal, or (env.first = 1) that left by a discarded transaction that *)
(* loaded env.resident.                                                      *)
Init ==
    /\ env \in Setups /\ D = Genesis[env.genesis]
    /\ J = [FreshJournal(D, env.cancun, env.precompiles) EXCEPT
                !.loaded = env.resident, !.cold = env.resident, !.txid = env.first,
                !.warm_addresses = IF env.first = 0 THEN {} ELSE env.precompiles]
    /\ phase = "idle" /\ frames = <<>> /\ tx = NoTx /\ batch = 0
    /\ start = World(J, D)

(* validate_env, validate_initial_tx_gas: an invalid transaction changes nothing *)
RejectEnv ==
    /\ phase = "idle" /\ J.txid <= env.last /\ batch < MaxBatches
    /\ phase' = "discard" /\ start' = World(J, D)
    /\ UNCHANGED <<env, D, J, frames, tx, batch>>

(* validate_against_state_and_deduct_caller *)
DeductCaller(c, kind, fee, value) ==
    LET caller == LoadAccount(J, D, c)
        charged == SetBalance(caller, c, caller.bal[c] - fee)
    IN /\ phase = "idle" /\ J.txid <= env.last /\ batch < MaxBatches
       /\ start' = World(J, D)
       /\ \/ /\ caller.code[c] # Legacy /\ fee + value <= caller.bal[c]
             /\ J' = IF kind = "call" THEN BumpNonce(charged, c) ELSE charged
             /\ tx' = [caller |-> c, kind |-> kind, value |-> value, fee |-> fee]
             /\ phase' = "deducted"
          \/ \* RejectCallerWithCode, NonceTooHigh, NonceTooLow, LackOfFundForMaxFee
             /\ J' = caller
             /\ phase' = "discard" /\ UNCHANGED tx
       /\ UNCHANGED <<env, D, frames, batch>>

(* load_accounts *)
LoadAccounts(list) ==
    /\ phase = "deducted"
    /\ J' = [J EXCEPT !.warm_addresses =
                          J.precompiles \cup {env.coinbase} \cup {k[1] : k \in list},
                      !.warm_slots = list]
    /\ phase' = "loaded"
    /\ UNCHANGED <<env, D, frames, tx, start, batch>>

(* apply_eip7702_auth_list, one authorization; its nonce may not match *)
Authorize(authority, c) ==
    LET L == LoadAccount(J, D, authority)
    IN /\ phase = "loaded" /\ tx.kind = "call" /\ Len(J.journal) < env.entries
       /\ \/ J' = L
          \/ L.code[authority] # Legacy /\ J' = Delegate(L, authority, c)
       /\ UNCHANGED <<env, D, phase, frames, tx, start, batch>>

------------------------------------------------------------------------------
(* Frames. *)

Frame(kind, a, caller, before) ==
    [kind |-> kind, address |-> a, caller |-> caller, halted |-> FALSE,
     journal_i |-> Len(before.journal), log_i |-> Len(before.logs),
     world |-> World(before, D)]

AfterFrame(stack) == IF stack = <<>> THEN "reimburse" ELSE "run"

(* the frame's result is returned without a frame *)
NoFrame(j) == J' = j /\ phase' = AfterFrame(frames) /\ UNCHANGED frames

\* Mutant of BeginRevert: the logs of the frame are kept.
BeginRevertKeepsLogs(j, stack) ==
    /\ J' = [j EXCEPT !.depth = @ - 1]
    /\ frames' = stack /\ phase' = "undo"

(* checkpoint_revert: the loop of the phase "undo" is about to start *)
BeginRevert(j, stack) ==
    /\ J' = [j EXCEPT !.logs = SubSeq(@, 1, stack[Len(stack)].log_i),
                      !.depth = @ - 1]
    /\ frames' = stack /\ phase' = "undo"

Checkpoint(j) == [j EXCEPT !.depth = @ + 1]

RunsCode(j, a) ==
    LET c == j.code[a]
    IN IF c.kind = "eip7702" THEN j.code[c.address] # Empty ELSE c # Empty

(* make_call_frame; DELEGATECALL transfers nothing *)
MakeCallFrame(before, caller, a, code, value, transfers) ==
    LET frame == Frame("call", a, caller, before)
        j == IF transfers THEN Transfer(Checkpoint(before), caller, a, value)
             ELSE Checkpoint(before)
        fails == transfers /\ TransferFails(before, caller, a, value)
    IN \/ /\ Len(frames) > CallStackLimit
          /\ NoFrame(before)
       \/ /\ Len(frames) <= CallStackLimit
          /\ \/ /\ fails \/ code \in J.precompiles
                /\ BeginRevert(j, Append(frames, frame))
             \/ /\ ~ fails /\ (code \in J.precompiles \/ ~ RunsCode(j, code))
                /\ NoFrame([j EXCEPT !.depth = @ - 1])
             \/ /\ ~ fails /\ code \notin J.precompiles /\ RunsCode(j, code)
                /\ J' = j /\ frames' = Append(frames, frame) /\ phase' = "run"

(* make_create_frame and create_account_checkpoint *)
MakeCreateFrame(caller, a, value) ==
    LET loaded == LoadAccount(J, D, caller)
        bumped == BumpNonce(loaded, caller)
        before == LoadAccount(bumped, D, a)
        frame == Frame("create", a, caller, before)
        j == CreateAccount(Checkpoint(before), caller, a, value)
    IN \/ /\ Len(frames) > CallStackLimit
          /\ NoFrame(J)
       \/ /\ Len(frames) <= CallStackLimit
          /\ \/ /\ loaded.bal[caller] < value
                /\ NoFrame(loaded)
             \/ /\ loaded.bal[caller] >= value /\ loaded.nonce[caller] = MaxNonce
                /\ NoFrame(bumped)
             \/ /\ loaded.bal[caller] >= value /\ loaded.nonce[caller] < MaxNonce
                /\ IF CreateCollision(before, a) \/ CreateOverflow(before, a, value)
                   THEN BeginRevert(j, Append(frames, frame))
                   ELSE J' = j /\ frames' = Append(frames, frame) /\ phase' = "run"

(* first_frame_input and the first frame_init of run_exec_loop *)
FirstFrame(a) ==
    /\ phase = "loaded"
    /\ \/ tx.kind = "call" /\ MakeCallFrame(LoadDelegated(J, D, a), tx.caller, a, a, tx.value, TRUE)
       \/ tx.kind = "create" /\ a \in env.creatable /\ MakeCreateFrame(tx.caller, a, tx.value)
    /\ UNCHANGED <<env, D, tx, start, batch>>

\* Mutant of ReturnOk: the checkpoint of a created contract is not committed.
ReturnOkOpenCheckpoint(c) ==
    LET rest == SubSeq(frames, 1, Len(frames) - 1)
    IN /\ phase = "run"
       /\ J' = IF Top.kind = "call" THEN [J EXCEPT !.depth = @ - 1]
               ELSE SetCode(J, Top.address, c)
       /\ (Top.kind = "call" \/ Top.halted) => c = Empty
       /\ frames' = rest /\ phase' = AfterFrame(rest)
       /\ UNCHANGED <<env, D, tx, start, batch>>

(* process_next_action of a frame that ends well; return_create deploys c *)
ReturnOk(c) ==
    LET committed == [J EXCEPT !.depth = @ - 1]
        rest == SubSeq(frames, 1, Len(frames) - 1)
    IN /\ phase = "run"
       /\ J' = IF Top.kind = "call" THEN committed ELSE SetCode(committed, Top.address, c)
       /\ (Top.kind = "call" \/ Top.halted) => c = Empty
       /\ frames' = rest /\ phase' = AfterFrame(rest)
       /\ UNCHANGED <<env, D, tx, start, batch>>

(* a frame that reverts or halts; return_create rejecting the code *)
ReturnFailure ==
    /\ phase = "run"
    /\ BeginRevert(J, frames)
    /\ UNCHANGED <<env, D, tx, start, batch>>

RevertEntry ==
    /\ phase = "undo" /\ Len(J.journal) > Top.journal_i
    /\ J' = UndoLast(J)
    /\ UNCHANGED <<env, D, phase, frames, tx, start, batch>>

RevertDone ==
    LET rest == SubSeq(frames, 1, Len(frames) - 1)
    IN /\ phase = "undo" /\ Len(J.journal) <= Top.journal_i
       /\ frames' = rest /\ phase' = AfterFrame(rest)
       /\ UNCHANGED <<env, D, J, tx, start, batch>>

------------------------------------------------------------------------------
(* The instructions of the running contract. *)

Executes(op) ==
    /\ phase = "run" /\ ~ Top.halted /\ op \in env.instructions
    /\ Len(J.journal) < env.entries

Self == Top.address

Instruction(op, j) ==
    /\ Executes(op)
    /\ J' = j
    /\ UNCHANGED <<env, D, phase, frames, tx, start, batch>>

Sload(s) == Instruction("sload", SLoad(J, D, <<Self, s>>))
Sstore(s, v) == Instruction("sstore", SStore(J, D, <<Self, s>>, v))
Tstore(s, v) == Instruction("tstore", TStore(J, <<Self, s>>, v))
LogOp(l) == Len(J.logs) < env.logs /\ Instruction("log", Log(J, l))

(* BALANCE, EXTCODESIZE, EXTCODECOPY, EXTCODEHASH *)
BalanceOp(a) == Instruction("balance", LoadAccount(J, D, a))

Selfdestruct(target) ==
    /\ Executes("selfdestruct")
    /\ J' = SelfDestruct(J, D, Self, target)
    /\ frames' = [frames EXCEPT ![Len(frames)].halted = TRUE]
    /\ UNCHANGED <<env, D, phase, tx, start, batch>>

(* CALL and STATICCALL, then CALLCODE, then DELEGATECALL: the account is *)
(* loaded in the calling frame                                           *)
CallOp(a, value) ==
    LET before == LoadDelegated(J, D, a)
    IN /\ \/ /\ Executes("call")
             /\ MakeCallFrame(before, Self, a, a, value, TRUE)
          \/ /\ Executes("callcode")
             /\ MakeCallFrame(before, Self, Self, a, value, TRUE)
          \/ /\ Executes("delegatecall") /\ value = 0
             /\ MakeCallFrame(before, Top.caller, Self, a, value, FALSE)
       /\ UNCHANGED <<env, D, tx, start, batch>>

CreateOp(a, value) ==
    /\ Executes("create")
    /\ MakeCreateFrame(Self, a, value)
    /\ UNCHANGED <<env, D, tx, start, batch>>

------------------------------------------------------------------------------
(* The end of a transaction. *)

(* reimburse_caller: the unused part of the fee *)
ReimburseCaller(unused) ==
    /\ phase = "reimburse" /\ unused <= tx.fee
    /\ J' = IncrBalance(LoadAccount(J, D, tx.caller), tx.caller, unused)
    /\ tx' = [tx EXCEPT !.fee = @ - unused]
    /\ phase' = "reward"
    /\ UNCHANGED <<env, D, frames, start, batch>>

(* reward_beneficiary, the base fee is burnt; then commit_tx *)
RewardBeneficiary(reward) ==
    /\ phase = "reward" /\ reward <= tx.fee
    /\ J' = ClearTx(IncrBalance(LoadAccount(J, D, env.coinbase), env.coinbase, reward))
    /\ phase' = "idle" /\ tx' = NoTx
    /\ UNCHANGED <<env, D, frames, start, batch>>

(* catch_error: the database failed; the frame stack is cleared *)
CatchError ==
    /\ phase \in {"deducted", "loaded", "run", "reimburse", "reward"}
    /\ phase' = "discard" /\ frames' = <<>>
    /\ UNCHANGED <<env, D, J, tx, start, batch>>

(* discard_tx: transient storage is not reverted, it is cleared at the end *)
DiscardEntry ==
    /\ phase = "discard" /\ J.journal # <<>>
    /\ J' = [UndoLast(J) EXCEPT !.transient = J.transient]
    /\ UNCHANGED <<env, D, phase, frames, tx, start, batch>>

DiscardDone ==
    /\ phase = "discard" /\ J.journal = <<>>
    /\ J' = ClearTx(J)
    /\ phase' = "idle" /\ tx' = NoTx
    /\ UNCHANGED <<env, D, frames, start, batch>>

(* CacheDB::commit: only touched accounts reach the database. *)
Live(j) == (j.loaded \cap j.touched) \ j.destroyed
Gone(j) == j.loaded \cap j.touched \cap j.destroyed

\* Mutant of CommitInfo: the code of an account is not replaced.
CommitInfoKeepsCode(d, j, a) ==
    IF a \in Gone(j) THEN DefaultInfo
    ELSE IF a \in Live(j) THEN Info(j.bal[a], j.nonce[a], d.code[a])
    ELSE Info(d.bal[a], d.nonce[a], d.code[a])

CommitInfo(d, j, a) ==
    IF a \in Gone(j) THEN DefaultInfo
    ELSE IF a \in Live(j) THEN InfoOf(j, a)
    ELSE Info(d.bal[a], d.nonce[a], d.code[a])

\* Mutant of CommitSlot: the storage of a created account is only cleared.
CommitSlotClearsCreated(d, j, k) ==
    IF k[1] \in Gone(j) \cup j.created THEN 0
    ELSE IF k[1] \in Live(j) THEN SlotValue(j, d, k) ELSE d.val[k]

(* A destroyed account (d.dead: NotExisting) reads as zeros; once it is      *)
(* Touched again, the slots the cache lacks are read from the ExtDB (d.ext). *)
CommitSlot(d, j, k) ==
    IF k[1] \in Gone(j) THEN 0
    ELSE IF k[1] \notin Live(j) THEN d.val[k]
    ELSE IF k[1] \in d.dead \ j.created /\ k \notin j.sloaded THEN d.ext[k]
    ELSE SlotValue(j, d, k)

CommitToDb(d, j) ==
    [exists |-> (d.exists \ Gone(j)) \cup Live(j),
     bal |-> [a \in Addrs |-> CommitInfo(d, j, a).balance],
     nonce |-> [a \in Addrs |-> CommitInfo(d, j, a).nonce],
     code |-> [a \in Addrs |-> CommitInfo(d, j, a).code],
     val |-> [k \in Keys |-> CommitSlot(d, j, k)],
     ext |-> d.ext, dead |-> (d.dead \ Live(j)) \cup Gone(j)]

(* finalize, and the caller commits the state it returns *)
Finalize ==
    /\ phase = "idle" /\ batch < MaxBatches /\ J.txid > env.first
    /\ D' = CommitToDb(D, J)
    /\ J' = [FreshJournal(D', J.cancun, J.precompiles) EXCEPT
                 !.warm_addresses = J.warm_addresses \cap J.precompiles]
    /\ start' = World(J', D') /\ batch' = batch + 1
    /\ UNCHANGED <<env, phase, frames, tx>>

Next ==
    \/ RejectEnv
    \/ \E c \in Callers, kind \in env.kinds, fee \in env.fees, value \in env.amounts :
           DeductCaller(c, kind, fee, value)
    \/ \E list \in SUBSET env.listed : LoadAccounts(list)
    \/ \E a \in env.authorities, c \in Codes \ {Legacy} : Authorize(a, c)
    \/ \E a \in Addrs : FirstFrame(a)
    \/ \E c \in {Empty, Legacy} : ReturnOk(c)
    \/ ReturnFailure \/ RevertEntry \/ RevertDone
    \/ \E s \in Slots : Sload(s)
    \/ \E s \in Slots, v \in Values : Sstore(s, v) \/ Tstore(s, v)
    \/ \E l \in Values : LogOp(l)
    \/ \E a \in Addrs : BalanceOp(a) \/ Selfdestruct(a)
    \/ \E a \in Addrs, v \in env.amounts : CallOp(a, v)
    \/ \E a \in env.creatable, v \in env.amounts : CreateOp(a, v)
    \/ \E v \in Balances : ReimburseCaller(v) \/ RewardBeneficiary(v)
    \/ phase = "idle" /\ UNCHANGED vars \* no transaction is waiting
    \/ CatchError \/ DiscardEntry \/ DiscardDone \/ Finalize

Spec == Init /\ [][Next]_vars

------------------------------------------------------------------------------
(* Properties. *)

Infos == [balance : Balances, nonce : Nonces, code : Codes]
Databases ==
    [exists : SUBSET Addrs, bal : [Addrs -> Balances], nonce : [Addrs -> Nonces],
     code : [Addrs -> Codes], val : [Keys -> Values],
     ext : [Keys -> Values], dead : SUBSET Addrs]

\* Balances, nonces and values stay in their ranges, flags are only set on
\* accounts and slots of the map, and the phases go with a frame stack.
TypeOK ==
    /\ D \in Databases /\ phase \in Phases /\ batch \in 0 .. MaxBatches
    /\ J.bal \in [Addrs -> Balances] /\ J.nonce \in [Addrs -> Nonces]
    /\ J.code \in [Addrs -> Codes] /\ J.orig \in [Addrs -> Infos]
    /\ J.val \in [Keys -> Values] /\ J.oval \in [Keys -> Values]
    /\ J.transient \in [Keys -> Values]
    /\ J.loaded \subseteq Addrs /\ J.sloaded \subseteq {k \in Keys : k[1] \in J.loaded}
    /\ J.touched \cup J.created \cup J.destroyed \cup J.cold \subseteq J.loaded
    /\ J.created_local \subseteq J.created /\ J.destroyed_local \subseteq J.destroyed
    /\ J.scold \subseteq Keys /\ J.txid \in 0 .. env.last + 1
    /\ phase \in {"run", "undo"} <=> frames # <<>>

\* When checkpoint_revert has undone the entries after a checkpoint, the world
\* is what it was when checkpoint() was called: balances, nonces, code, storage,
\* transient storage, logs, flags and what is warm.
RevertRestores ==
    phase = "undo" /\ Len(J.journal) <= Top.journal_i => World(J, D) = Top.world

Persistent == {"bal", "nonce", "code", "val", "touched", "created", "destroyed"}

\* When discard_tx has undone the journal of a transaction that failed, whatever
\* the handler did before the error, the state is that before the transaction.
DiscardRestores ==
    phase = "discard" /\ J.journal = <<>> =>
        \A f \in Persistent : World(J, D)[f] = start[f]

Supply(bal) == MapThenSumSet(LAMBDA a : bal[a], Addrs)

\* Transfers, creations, selfdestructs, reverts and fee payments together never
\* make more wei than there was when the transaction started.
NothingMinted ==
    phase # "discard" =>
        Supply(World(J, D).bal) + (IF tx = NoTx THEN 0 ELSE tx.fee) <= Supply(start.bal)

\* EIP-2929 and EIP-2930: a transaction pays the cold price for an account or a
\* slot at most once, unless the frame that paid it is reverted, and never for
\* what load_accounts listed as accessed, whatever was reverted before.
ColdOnce ==
    /\ \A i, j \in 1 .. Len(J.journal) :
           /\ J.journal[i] = J.journal[j]
           /\ J.journal[i].type \in {"AccountWarmed", "StorageWarmed"}
           => i = j
    /\ phase \in {"loaded", "run", "undo"} =>
           /\ J.warm_slots \subseteq World(J, D).swarm
           /\ J.warm_addresses \subseteq World(J, D).warm

\* A transaction sees nothing of the ones before but their state.  Between two of
\* them there is no entry, log, transient value, open checkpoint, warm account or
\* access list; and through every reload after a revert the original value SSTORE
\* refunds are computed from (EIP-2200) is that of the transaction's start, and
\* original_info the info the account had then.
TransactionsIsolated ==
    /\ phase = "idle" =>
           /\ J.journal = <<>> /\ J.logs = <<>> /\ J.depth = 0 /\ frames = <<>>
           /\ \A k \in Keys : J.transient[k] = 0 /\ ~ SlotMapWarm(J, k)
           /\ J.warm_slots = {} /\ \A a \in Addrs : ~ IsCold(J, a) => a \in J.precompiles
    /\ phase # "idle" =>
           /\ \A k \in Keys : SlotMapWarm(J, k) => J.oval[k] = start.val[k]
           /\ \A a \in Addrs : MapWarm(J, a) =>
                  J.orig[a] = Info(start.bal[a], start.nonce[a], start.code[a])

Saved == {"bal", "nonce", "code", "val"}

\* Only touched accounts reach the database: what finalize returns and commit
\* writes is all that the transactions changed.
CommitSavesWorld ==
    [][batch' # batch => \A f \in Saved : World(J', D')[f] = World(J, D)[f]]_vars

EntryAccounts(e) ==
    CASE e.type \in {"StorageWarmed", "StorageChanged", "TransientStorageChange"} -> {e.key[1]}
      [] e.type = "BalanceTransfer" -> {e.from, e.to}
      [] e.type = "AccountDestroyed" -> {e.address, e.target}
      [] OTHER -> {e.address}

\* The types hold, and so the unwraps and the drain never panic: a running frame's account
\* is in the map, warm and touched, its caller is in the map, and so is every
\* account and slot an entry would revert; the depth counts the open checkpoints,
\* and a revert never drains entries of an enclosing frame.
AccountsPresent ==
    /\ TypeOK
    /\ \A i \in 1 .. Len(frames) :
           i < Len(frames) \/ phase = "run" =>
               /\ MapWarm(J, frames[i].address) /\ frames[i].address \in J.touched
               /\ frames[i].caller \in J.loaded
    /\ \A i \in 1 .. Len(J.journal) :
           LET e == J.journal[i]
           IN /\ EntryAccounts(e) \subseteq J.loaded
              /\ e.type \in {"StorageWarmed", "StorageChanged"} => e.key \in J.sloaded
    /\ phase # "discard" => J.depth = Len(frames) - (IF phase = "undo" THEN 1 ELSE 0)
    /\ frames # <<>> => Top.journal_i <= Len(J.journal)
    /\ \A i \in 1 .. Len(frames) - 1 : frames[i].journal_i <= frames[i + 1].journal_i

=============================================================================
