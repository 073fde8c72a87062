-------------------------------- MODULE StateDB --------------------------------
(***************************************************************************)
(* State<DB> of crates/database: blocks are executed over a database.  The *)
(* cache answers reads and takes the output of every transaction; at the    *)
(* end of a block the transitions are merged into the bundle, with a revert *)
(* per block.  Bundles are taken, joined, unwound and written to the        *)
(* database, and a new State is started on a bundle.                        *)
(*                                                                          *)
(* The EVM, which reads the state and returns changed accounts, and the     *)
(* database are outside this code: Execute chooses what the EVM may return, *)
(* and WritePlainState does what a database does with a changeset.  world   *)
(* is the state of the chain those outputs define.                          *)
(***************************************************************************)
EXTENDS BundleOps

CONSTANTS
    Addrs, Slots,
    MaxBalance, MaxValue,   \* bounds: balances and storage values
    Genesis,        \* databases to start from
    Forks,          \* forks of the chain: "Frontier", "SpuriousDragon", "Cancun"
    Unwinding,      \* forks whose bundles are split, joined and unwound; for the
                    \* others one State executes blocks that are final
    MaxBlocks,      \* bound: blocks executed
    MaxTxs,         \* bound: transactions between two merges
    MaxStates       \* bound: States built

VARIABLES
    db,         \* the database: [info, storage] of every account, and codes
    cache,      \* CacheState::accounts
    trans,      \* TransitionState::transitions
    bundle,     \* State::bundle_state
    parent,     \* a bundle taken earlier, not yet in the database; or None
    preloaded,  \* use_preloaded_bundle
    fork,       \* the rules of the EVM
    world,      \* the accounts after the last transaction
    past,       \* the accounts at the end of every block the bundles hold
    txs,        \* transactions since the last merge
    blocks,     \* blocks executed
    states      \* States built

vars == <<db, cache, trans, bundle, parent, preloaded, fork, world, past, txs, blocks, states>>

Infos == [bal : 0..MaxBalance, code : {0, 1}]

(* has_state_clear: EIP-161 *)
HasStateClear == fork # "Frontier"

Absent == [info |-> None, storage |-> [k \in Slots |-> 0]]

--------------------------------------------------------------------------------
(* BundleState. *)

EmptyBundle ==
    [state |-> EmptyMap, reverts |-> <<>>, contracts |-> {}, ssize |-> 0, rsize |-> 0]

SumSizes(m) == FoldFunction(LAMBDA x, n : n + SizeHint(x), 0, m)

SumReverts(reverts) == FoldLeft(LAMBDA n, r : n + SumSizes(r), 0, reverts)

(* what a transition does to the bundle account, occupied or vacant *)
ApplyTransition(b, a, t) ==
    IF a \in DOMAIN b.state THEN UpdateAndCreateRevert(b.state[a], t)
    ELSE [acc |-> PresentBundleAccount(t),
          revert |-> UpdateAndCreateRevert(OriginalBundleAccount(t), t).revert]

\* Mutant of ApplyTransitions: the new sizes are not added.
ApplyTransitionsUncounted(b, ts) ==
    LET out == [a \in DOMAIN ts |-> ApplyTransition(b, a, ts[a])]
        stored == {a \in DOMAIN ts : a \in DOMAIN b.state \/ out[a].revert # None}
        reverts == [a \in {a \in DOMAIN ts : out[a].revert # None} |-> out[a].revert]
    IN [b EXCEPT !.state = Over([a \in stored |-> out[a].acc], @), !.reverts = Append(@, reverts),
                 !.contracts = @ \cup UNION {NewContracts(ts[a]) : a \in DOMAIN ts}]

(* apply_transitions_and_create_reverts, retaining reverts *)
ApplyTransitions(b, ts) ==
    LET out == [a \in DOMAIN ts |-> ApplyTransition(b, a, ts[a])]
        stored == {a \in DOMAIN ts : a \in DOMAIN b.state \/ out[a].revert # None}
        reverts == [a \in {a \in DOMAIN ts : out[a].revert # None} |-> out[a].revert]
        accounts == [a \in stored |-> out[a].acc]
    IN [state |-> Over(accounts, b.state),
        reverts |-> Append(b.reverts, reverts),
        contracts |-> b.contracts \cup UNION {NewContracts(ts[a]) : a \in DOMAIN ts},
        ssize |-> b.ssize - SumSizes(Restrict(b.state, stored \cap DOMAIN b.state))
                    + SumSizes(accounts),
        rsize |-> b.rsize + SumSizes(reverts)]

\* Mutant of RevertLatest: the account's size is subtracted and its new one is not added.
RevertLatestShrinks(b) ==
    LET reverts == b.reverts[Len(b.reverts)]
    IN [b EXCEPT !.reverts = Front(@), !.ssize = @ - 1 - SumSizes(Restrict(b.state, DOMAIN b.state \cap DOMAIN reverts))]

(* revert_latest *)
RevertLatest(b) ==
    LET reverts == b.reverts[Len(b.reverts)]
        before == [a \in DOMAIN reverts |->
                     IF a \in DOMAIN b.state THEN b.state[a]
                     ELSE [info |-> None, orig |-> None, storage |-> EmptyMap,
                           status |-> "LoadedNotExisting"]]
        out == [a \in DOMAIN reverts |-> RevertAccount(before[a], reverts[a])]
        kept == {a \in DOMAIN reverts : ~ out[a].remove}
        left == [a \in kept |-> out[a].acc]
        untouched == Restrict(b.state, DOMAIN b.state \ DOMAIN reverts)
    IN [b EXCEPT !.state = Over(left, untouched),
                 !.reverts = Front(@),
                 !.ssize = @ - SumSizes(Restrict(b.state, DOMAIN b.state \cap DOMAIN reverts))
                             + SumSizes(left),
                 !.rsize = @ - SumSizes(reverts)]

(* extend_state, one account *)
ExtendAccount(this, other) ==
    [this EXCEPT !.storage = IF WasDestroyed(other.status) THEN other.storage
                             ELSE ExtendStorage(@, other.storage),
                 !.info = other.info,
                 !.status = JoinStatus(@, other.status)]

ExtendState(b, others) ==
    LET joined == [a \in DOMAIN others |->
                     IF a \in DOMAIN b.state THEN ExtendAccount(b.state[a], others[a])
                     ELSE others[a]]
    IN [b EXCEPT !.state = Over(joined, @),
                 !.ssize = @ - SumSizes(Restrict(b.state, DOMAIN b.state \cap DOMAIN others))
                             + SumSizes(joined)]

(* extend, first loop: the first wiping revert of an account takes what this *)
(* bundle holds of its storage; b is the state the next revert meets         *)
MoveWiped(b, reverts) ==
    LET wiping == {a \in DOMAIN reverts : reverts[a].wipe /\ a \in DOMAIN b.state}
    IN [state |-> [a \in DOMAIN b.state |->
                     IF a \in wiping THEN [b.state[a] EXCEPT !.storage = EmptyMap]
                     ELSE b.state[a]],
        reverts |-> Append(b.reverts,
                     [a \in DOMAIN reverts |->
                        IF a \notin wiping THEN reverts[a]
                        ELSE [reverts[a] EXCEPT
                                !.storage = Over(@, PresentValues(b.state[a].storage)),
                                !.wipe = ~ WasDestroyed(b.state[a].status)]])]

Extend(b, other) ==
    LET start == [state |-> b.state, reverts |-> <<>>]
        moved == FoldLeft(MoveWiped, start, other.reverts)
    IN [ExtendState([b EXCEPT !.state = moved.state], other.state) EXCEPT
           !.contracts = @ \cup other.contracts,
           !.reverts = @ \o moved.reverts,
           !.rsize = @ + SumReverts(moved.reverts)]

--------------------------------------------------------------------------------
(* The state a bundle stands for, over database d. *)

ViewAccount(b, d, a) ==
    IF a \notin DOMAIN b.state THEN d.accounts[a]
    ELSE [info |-> b.state[a].info,
          storage |-> [k \in Slots |->
             LET v == BundleSlot(b.state[a], k) IN IF v = <<>> THEN d.accounts[a].storage[k] ELSE v[1]]]

View(b, d) == [a \in Addrs |-> ViewAccount(b, d, a)]

(* to_plain_state written to database d; known is OriginalValuesKnown::Yes *)
PlainAccount(b, d, a, known) ==
    LET account == b.state[a]
        wiped == WasDestroyed(account.status)
        written == {k \in DOMAIN account.storage :
                      ~ known \/ (IF wiped THEN account.storage[k].p # 0
                                  ELSE IsChanged(account.storage[k]))}
    IN [info |-> IF ~ known \/ account.info # account.orig THEN account.info
                 ELSE d.accounts[a].info,
        storage |-> [k \in Slots |-> IF k \in written THEN account.storage[k].p
                                     ELSE IF wiped THEN 0 ELSE d.accounts[a].storage[k]]]

WritePlainState(b, d, known) ==
    [accounts |-> [a \in Addrs |-> IF a \in DOMAIN b.state THEN PlainAccount(b, d, a, known)
                                   ELSE d.accounts[a]],
     codes |-> d.codes \cup (b.contracts \ {0})]

(* the bundles together, as the node that took the first one joins them *)
Whole == IF parent = None THEN bundle ELSE Extend(parent, bundle)

\* Mutant of Prepended: the parent is put over the bundle.
PrependedOver == ExtendState(bundle, parent.state)

(* prepend_state of the parent *)
Prepended == ExtendState(parent, bundle.state)

(* to_plain_state_reverts, applied to an account of a database whose state   *)
(* before the changes was old: a wiping revert also holds the storage the    *)
(* database moved into it                                                    *)
PlainRevert(account, old, r) ==
    [info |-> CASE r.account = DoNothing -> account.info
                [] r.account = DeleteIt -> None
                [] OTHER -> r.account[2],
     storage |-> [k \in Slots |->
        LET listed == k \in DOMAIN r.storage
        IN IF listed /\ r.storage[k] # Gone THEN r.storage[k][1]
           ELSE IF r.wipe THEN old.storage[k]
           ELSE IF listed THEN 0 ELSE account.storage[k]]]

PlainReverts(accounts, old, reverts) ==
    [a \in Addrs |-> IF a \in DOMAIN reverts THEN PlainRevert(accounts[a], old[a], reverts[a])
                     ELSE accounts[a]]

(* revert(n) *)
RevertBlocks(b, n) == FoldLeft(LAMBDA x, i : RevertLatest(x), b, [i \in 1..n |-> i])

(* the database that was written b, after undoing the last n blocks *)
DbRevertBlocks(b, n) ==
    FoldLeft(LAMBDA accounts, i :
                 PlainReverts(accounts, db.accounts, b.reverts[Len(b.reverts) + 1 - i]),
             WritePlainState(b, db, TRUE).accounts, [i \in 1..n |-> i])
--------------------------------------------------------------------------------
(* Reading. *)

(* what the database of State holds *)
Base == IF parent = None THEN db.accounts ELSE View(parent, db)

\* Mutant of LoadCacheAccount: the bundle the State was built with is not asked.
LoadFromDatabase(a) == LoadedAccount(Base[a].info)

(* load_cache_account *)
LoadCacheAccount(a) ==
    IF preloaded /\ a \in DOMAIN bundle.state THEN FromBundle(bundle.state[a])
    ELSE LoadedAccount(Base[a].info)

(* Database::storage of a cached account *)
ReadSlot(c, a, k) ==
    IF c.info = None THEN 0
    ELSE IF k \in DOMAIN c.storage THEN c.storage[k]
    ELSE IF IsStorageKnown(c.status) THEN 0 ELSE Base[a].storage[k]

Load(a) ==
    /\ a \notin DOMAIN cache
    /\ cache' = Over([x \in {a} |-> LoadCacheAccount(a)], cache)
    /\ UNCHANGED <<db, trans, bundle, parent, preloaded, fork, world, past, txs, blocks, states>>

LoadSlot(a, k) ==
    /\ a \in DOMAIN cache /\ cache[a].info # None /\ k \notin DOMAIN cache[a].storage
    /\ cache' = [cache EXCEPT ![a].storage =
                    Over([x \in {k} |-> ReadSlot(cache[a], a, k)], @)]
    /\ UNCHANGED <<db, trans, bundle, parent, preloaded, fork, world, past, txs, blocks, states>>

--------------------------------------------------------------------------------
(* Executing. *)

EvmAccount(selfdestructed, created, info, storage) ==
    [touched |-> TRUE, selfdestructed |-> selfdestructed, created |-> created,
     info |-> info, storage |-> storage]

(* what the EVM may do to an account: a contract can be created where there *)
(* is neither code nor nonce, and destroyed; since Cancun only in the        *)
(* transaction that created it; a write goes to a slot that was read before  *)
EvmOutputs(a) ==
    LET w == world[a]
        hasCode == w.info # None /\ w.info.code # 0
        read == DOMAIN cache[a].storage
        writes(slots) == UNION {[ks -> 0..MaxValue] : ks \in SUBSET slots}
        slotMap(o, f) == [k \in DOMAIN f |-> StorageSlot(o[k], f[k])]
    IN  (IF hasCode /\ fork = "Cancun" THEN {}
         ELSE {EvmAccount(TRUE, FALSE, EmptyInfo, EmptyMap)})
   \cup (IF hasCode THEN {}
         ELSE {EvmAccount(FALSE, TRUE, i, slotMap(Absent.storage, f)) :
                  i \in {i \in Infos : i.code # 0}, f \in writes(Slots)})
   \cup (IF w.info \in {None, EmptyInfo} THEN {EvmAccount(FALSE, FALSE, EmptyInfo, EmptyMap)} ELSE {})
   \cup {EvmAccount(FALSE, FALSE, i, slotMap(w.storage, f)) :
            i \in {i \in Infos \ {EmptyInfo} : i.code = InfoOrDefault(w.info).code},
            f \in IF hasCode THEN writes(read) ELSE {EmptyMap}}

(* the state of the chain after it *)
Outcome(w, out) ==
    IF out.selfdestructed THEN Absent
    ELSE IF out.created
    THEN [info |-> out.info, storage |-> Over(Present(out.storage), Absent.storage)]
    ELSE IF out.info = EmptyInfo
    THEN IF HasStateClear THEN Absent ELSE [w EXCEPT !.info = EmptyInfo]
    ELSE [info |-> out.info, storage |-> Over(Present(out.storage), w.storage)]

Loaded(a) == a \in DOMAIN cache /\ txs < MaxTxs

Cached(a, result, w) ==
    /\ cache' = [cache EXCEPT ![a] = result.acc]
    /\ trans' = AddTransition(trans, a, result.transition)
    /\ world' = [world EXCEPT ![a] = w]
    /\ txs' = txs + 1
    /\ UNCHANGED <<db, bundle, parent, preloaded, fork, past, blocks, states>>

(* DatabaseCommit::commit *)
Commit(a) ==
    /\ Loaded(a)
    /\ \E out \in EvmOutputs(a) :
          Cached(a, ApplyAccountState(cache[a], out, HasStateClear), Outcome(world[a], out))

(* increment_balances, as withdrawals and rewards do *)
Increment(a) ==
    LET info == InfoOrDefault(world[a].info)
    IN /\ Loaded(a) /\ info.bal < MaxBalance
       /\ Cached(a, IncrementBalance(cache[a], 1),
                 [world[a] EXCEPT !.info = [info EXCEPT !.bal = @ + 1]])

(* drain_balances, of accounts that exist *)
Drain(a) ==
    /\ Loaded(a) /\ world[a].info # None
    /\ Cached(a, DrainBalance(cache[a]), [world[a] EXCEPT !.info.bal = 0])

--------------------------------------------------------------------------------
(* Blocks and bundles. *)

(* merge_transitions *)
MergeTransitions ==
    /\ blocks < MaxBlocks /\ blocks' = blocks + 1
    /\ bundle' = ApplyTransitions(bundle, trans)
    /\ trans' = EmptyMap /\ txs' = 0
    /\ past' = Append(past, world)
    /\ UNCHANGED <<db, cache, parent, preloaded, fork, world, states>>

AtBlockEnd == trans = EmptyMap /\ txs = 0 /\ world = past[Len(past)]

(* take_n_reverts: the reverts of the first n blocks are stored elsewhere *)
TakeReverts(n) ==
    /\ AtBlockEnd /\ parent = None
    /\ bundle' = [bundle EXCEPT !.reverts = SubSeq(@, n + 1, Len(@)),
                                !.rsize = SumReverts(SubSeq(bundle.reverts, n + 1, Len(bundle.reverts)))]
    /\ past' = SubSeq(past, n + 1, Len(past))
    /\ UNCHANGED <<db, cache, trans, parent, preloaded, fork, world, txs, blocks, states>>

(* StateBuilder::build, with a bundle prestate or without *)
NewState(prestate) ==
    /\ states < MaxStates /\ states' = states + 1
    /\ cache' = EmptyMap /\ preloaded' = prestate

(* take_bundle; the node puts it over the database, where the next State    *)
(* reads from                                                               *)
TakeBundle ==
    /\ AtBlockEnd /\ parent = None /\ bundle # EmptyBundle /\ fork \in Unwinding
    /\ parent' = bundle /\ bundle' = EmptyBundle
    /\ NewState(FALSE)
    /\ UNCHANGED <<db, trans, fork, world, past, txs, blocks>>

(* extend; execution goes on over the joined bundle *)
Join ==
    /\ AtBlockEnd /\ parent # None
    /\ bundle' = Whole /\ parent' = None
    /\ NewState(TRUE)
    /\ UNCHANGED <<db, trans, fork, world, past, txs, blocks>>

(* the changes are written, and a new State is built on the database; the   *)
(* history before is given up                                               *)
Persist(known) ==
    /\ AtBlockEnd /\ parent = None /\ bundle # EmptyBundle
    /\ db' = WritePlainState(bundle, db, known)
    /\ bundle' = EmptyBundle /\ past' = <<world>>
    /\ NewState(FALSE)
    /\ UNCHANGED <<trans, parent, fork, world, txs, blocks>>

(* how many blocks can be unwound *)
Depth == IF fork \in Unwinding THEN Len(past) - 1 ELSE 0

(* a crash lost the cache and the transitions, or n blocks are unwound: the *)
(* next State starts on the bundle                                          *)
Reopen(n) ==
    /\ parent = None
    /\ bundle' = RevertBlocks(bundle, n) /\ NewState(TRUE)
    /\ trans' = EmptyMap /\ txs' = 0
    /\ past' = SubSeq(past, 1, Len(past) - n) /\ world' = past[Len(past) - n]
    /\ UNCHANGED <<db, parent, fork, blocks>>

Init ==
    /\ db \in Genesis /\ fork \in Forks
    /\ cache = EmptyMap /\ trans = EmptyMap /\ bundle = EmptyBundle
    /\ parent = None /\ preloaded = FALSE
    /\ world = db.accounts /\ past = <<world>> /\ txs = 0 /\ blocks = 0 /\ states = 1

Next ==
    \/ \E a \in Addrs : \/ Load(a) \/ Commit(a) \/ Increment(a) \/ Drain(a)
                        \/ \E k \in Slots : LoadSlot(a, k)
    \/ MergeTransitions \/ TakeBundle \/ Join
    \/ \E known \in BOOLEAN : Persist(known)
    \/ \E n \in 1..Len(bundle.reverts) : TakeReverts(n)
    \/ \E n \in 0..Depth : Reopen(n)

Spec == Init /\ [][Next]_vars
--------------------------------------------------------------------------------
TypeOK ==
    /\ world \in [Addrs -> [info : Infos \cup {None}, storage : [Slots -> 0..MaxValue]]]
    /\ \A a \in DOMAIN cache : cache[a].status \in Statuses
    /\ bundle.ssize \in Nat /\ bundle.rsize \in Nat

(* Database::basic and Database::storage answer with the state the          *)
(* transactions so far produced, whatever was loaded, cached, destroyed or  *)
(* created again.                                                           *)
CacheIsCurrent ==
    \A a \in DOMAIN cache :
        /\ cache[a].info = world[a].info
        /\ \A k \in Slots : ReadSlot(cache[a], a, k) = world[a].storage[k]

(* Reverting the last n blocks of the bundle, for any n, gives the state at *)
(* the end of the block before them.                                        *)
BundleRevertsRestore ==
    LET w == Whole
    IN \A n \in 0..Depth : View(RevertBlocks(w, n), db) = past[Len(past) - n]

(* Writing to_plain_state to the database gives the state at the end of the *)
(* last block, with and without OriginalValuesKnown, and every code of it.  *)
PlainStateIsCurrent ==
    \A known \in BOOLEAN :
        LET d == WritePlainState(Whole, db, known)
        IN /\ d.accounts = past[Len(past)]
           /\ \A a \in Addrs : d.accounts[a].info # None => d.accounts[a].info.code \in d.codes \cup {0}

(* The reverts stored with a changeset bring the database back to the end   *)
(* of any block they cover, selfdestructs included.                         *)
StoredRevertsRestore ==
    LET w == Whole
    IN \A n \in 0..(Len(past) - 1) : DbRevertBlocks(w, n) = past[Len(past) - n]

(* Prepending the parent to a bundle gives the state at the end of the last *)
(* block, whatever the two bundles destroyed.                               *)
PrependIsCurrent == parent # None => View(Prepended, db) = past[Len(past)]

(* update_and_create_revert never meets a pair of statuses it declares      *)
(* unreachable, nor touch_create_pre_eip161 one of its own.                 *)
TransitionsPossible ==
    /\ \A a \in DOMAIN cache : cache[a].status # "unreachable"
    /\ \A a \in DOMAIN trans :
          CanUpdate(IF a \in DOMAIN bundle.state THEN bundle.state[a].status ELSE trans[a].pstatus,
                    trans[a].status)

(* Every way to read the state gives the one the transactions produced: the *)
(* cache of State, the changeset written to the database, and a bundle      *)
(* prepended to another.                                                    *)
StateIsCurrent == CacheIsCurrent /\ PlainStateIsCurrent /\ PrependIsCurrent

(* Going back any number of blocks gives the state at the end of an earlier *)
(* one, from the reverts in the bundle and from those stored with it.       *)
RevertsRestore == BundleRevertsRestore /\ StoredRevertsRestore

(* what Database::basic and Database::storage answer for every account *)
Tip ==
    [a \in Addrs |->
        LET c == IF a \in DOMAIN cache THEN cache[a] ELSE LoadCacheAccount(a)
        IN [info |-> c.info, storage |-> [k \in Slots |-> ReadSlot(c, a, k)]]]

(* RevertsRestore says that past is what the reverts give *)
History == INSTANCE ChainHistory WITH tip <- Tip, chain <- past, pending <- txs

(* State with its bundles implements a chain of accounts one can go back    *)
(* on: what it reads is the tip; merging, splitting, joining and writing    *)
(* bundles never changes it; and after unwinding blocks it reads the end of *)
(* an earlier block.                                                        *)
ImplementsHistory == History!Spec

(* state_size and reverts_size cover the accounts and reverts held, so that *)
(* the subtractions of sizes on usize never wrap.                           *)
SizesSuffice == bundle.ssize >= SumSizes(bundle.state) /\ bundle.rsize = SumReverts(bundle.reverts)

(* Nothing in merging, reverting, splitting and joining bundles can panic   *)
(* or wrap, in any sequence of blocks, and the types hold.                  *)
NoPanic == TypeOK /\ TransitionsPossible /\ SizesSuffice

================================================================================
