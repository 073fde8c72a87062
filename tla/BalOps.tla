-------------------------------- MODULE BalOps --------------------------------
(***************************************************************************)
(* Block access lists, crates/state/src/bal*: for every account and slot   *)
(* the values written in a block, each with the block access index of the  *)
(* write (0 before the transactions, 1..n for them, n + 1 after them).     *)
(* A list of writes is a sequence of pairs <<index, value>>; nonce,        *)
(* balance and code are fields of an info, and code a value like another.  *)
(***************************************************************************)
EXTENDS Naturals, Sequences, Functions, FiniteSetsExt

CONSTANTS
    Fields,      \* of AccountInfo: nonce, balance, code
    LinearLimit  \* fewer writes are searched linearly (5 in BalWrites::get)

EmptyMap == [k \in {} |-> 0]

EmptyInfo == [f \in Fields |-> 0]

Over(over, m) ==
    [k \in DOMAIN over \cup DOMAIN m |-> IF k \in DOMAIN over THEN over[k] ELSE m[k]]

At(m, k, default) == IF k \in DOMAIN m THEN m[k] ELSE default

Increasing(writes) == \A i, j \in DOMAIN writes : i < j => writes[i][1] < writes[j][1]
-------------------------------------------------------------------------------
(* BalWrites *)

\* Mutant of Update: the first write is recorded whatever the original value.
UpdateForced(writes, index, original, value) ==
    IF writes # <<>> /\ writes[Len(writes)][2] = value THEN writes ELSE Append(writes, <<index, value>>)

\* Mutant of Update: a later index is recorded whatever the last value.
UpdateUnchanged(writes, index, original, value) ==
    IF writes = <<>> /\ original = value THEN writes ELSE Append(writes, <<index, value>>)

(* update_with_key *)
Update(writes, index, original, value) ==
    LET n == Len(writes)
        previous == IF n > 1 THEN writes[n - 1][2] ELSE original
    IN IF n = 0
       THEN IF original = value THEN writes ELSE <<<<index, value>>>>
       ELSE IF writes[n][1] # index
       THEN IF writes[n][2] = value THEN writes ELSE Append(writes, <<index, value>>)
       ELSE IF previous = value THEN SubSeq(writes, 1, Len(writes) - 1)
       ELSE [writes EXCEPT ![n] = <<index, value>>]

(* What a read before index sees: <<>> or the value.  The writes of an index *)
(* are not seen by the reads at it.                                          *)
GetLinearSearch(writes, index) ==
    LET from == {i \in DOMAIN writes : writes[i][1] >= index}
        last == IF from = {} THEN Len(writes) ELSE Min(from) - 1
    IN IF last = 0 THEN <<>> ELSE <<writes[last][2]>>

\* Mutant of Get: the write at the index itself is seen.
GetInclusive(writes, index) == GetLinearSearch(writes, index + 1)

(* the binary search of writes sorted by index *)
GetBinarySearch(writes, index) ==
    LET before == {i \in DOMAIN writes : writes[i][1] < index}
    IN IF before = {} THEN <<>> ELSE <<writes[Cardinality(before)][2]>>

Get(writes, index) ==
    IF Len(writes) < LinearLimit THEN GetLinearSearch(writes, index)
    ELSE GetBinarySearch(writes, index)

MergeWrites(writes, other, index) ==
    writes \o [i \in DOMAIN other |-> <<index, other[i][2]>>]

MergeWritesWithOffset(writes, other, offset) ==
    writes \o [i \in DOMAIN other |-> <<other[i][1] + offset, other[i][2]>>]

RemoveAtIds(writes, ids) == SelectSeq(writes, LAMBDA w : w[1] \notin ids)
-------------------------------------------------------------------------------
(* AccountBal: the writes of the fields, and of the slots read or written *)

NewAccountBal == [info |-> [f \in Fields |-> <<>>], storage |-> EmptyMap]

(* AccountInfoBal::update *)
UpdateInfo(infoBal, index, original, present) ==
    [f \in Fields |-> Update(infoBal[f], index, original[f], present[f])]

(* StorageBal::update; of a slot <<original value, present value>> *)
UpdateStorage(storage, index, slots) ==
    Over([k \in DOMAIN slots |-> Update(At(storage, k, <<>>), index, slots[k][1], slots[k][2])],
         storage)

(* StorageBal::update_reads *)
UpdateReads(storage, keys) == Over(storage, [k \in keys |-> <<>>])

(* AccountBal::update with what the EVM returned *)
UpdateAccount(bal, index, out) ==
    IF out.selfdestructed
    THEN [info |-> UpdateInfo(bal.info, index, out.original, EmptyInfo),
          storage |-> UpdateReads(bal.storage, DOMAIN out.storage)]
    ELSE [info |-> UpdateInfo(bal.info, index, out.original, out.info),
          storage |-> UpdateStorage(bal.storage, index, out.storage)]

(* merge_account_bal, merge_account_bal_with_offset *)
MergeAccount(bal, other, merge(_, _)) ==
    [info |-> [f \in Fields |-> merge(bal.info[f], other.info[f])],
     storage |-> Over([k \in DOMAIN other.storage |->
                          merge(At(bal.storage, k, <<>>), other.storage[k])], bal.storage)]

(* AccountInfoBal::populate_account_info *)
PopulateInfo(infoBal, index, info) ==
    [f \in Fields |-> LET w == Get(infoBal[f], index) IN IF w = <<>> THEN info[f] ELSE w[1]]

(* StorageBal::get *)
PopulateSlot(storage, index, k, value) ==
    LET w == Get(At(storage, k, <<>>), index) IN IF w = <<>> THEN value ELSE w[1]
-------------------------------------------------------------------------------
(* Bal: a function of accounts *)

(* DatabaseCommit::commit of BalDatabase: update_account for every account *)
CommitToBuilder(bal, index, changes) ==
    Over([a \in DOMAIN changes |->
             UpdateAccount(At(bal, a, NewAccountBal), index, changes[a])], bal)

MergeBal(bal, other, index) ==
    LET merge(w, v) == MergeWrites(w, v, index)
    IN Over([a \in DOMAIN other |-> MergeAccount(At(bal, a, NewAccountBal), other[a], merge)], bal)

MergeBalWithOffset(bal, other, offset) ==
    LET merge(w, v) == MergeWritesWithOffset(w, v, offset)
    IN Over([a \in DOMAIN other |-> MergeAccount(At(bal, a, NewAccountBal), other[a], merge)], bal)

WithoutIds(bal, ids) ==
    [a \in DOMAIN bal |->
        [info |-> [f \in Fields |-> RemoveAtIds(bal[a].info[f], ids)],
         storage |-> [k \in DOMAIN bal[a].storage |-> RemoveAtIds(bal[a].storage[k], ids)]]]

(* Database::basic of BalDatabase over the database's answer, <<>> or an     *)
(* info: an empty account does not exist                                     *)
BalBasic(bal, index, a, answer) ==
    LET read == IF answer = <<>> THEN EmptyInfo ELSE answer[1]
        info == IF a \in DOMAIN bal THEN PopulateInfo(bal[a].info, index, read) ELSE read
    IN IF info = EmptyInfo THEN <<>> ELSE <<info>>

(* Database::storage of BalDatabase *)
BalStorage(bal, index, a, k, value) ==
    IF a \in DOMAIN bal THEN PopulateSlot(bal[a].storage, index, k, value) ELSE value

\* Mutant of IntoAlloyAccount: slots that were only read are left out.
IntoAlloyWithoutReads(account) ==
    LET written == {k \in DOMAIN account.storage : account.storage[k] # <<>>}
    IN [changes |-> account.info, slots |-> Restrict(account.storage, written), reads |-> {}]

(* into_alloy_account and try_from_alloy: slots that were only read are a    *)
(* list of their own                                                         *)
IntoAlloyAccount(account) ==
    LET written == {k \in DOMAIN account.storage : account.storage[k] # <<>>}
    IN [changes |-> account.info, slots |-> Restrict(account.storage, written),
        reads |-> DOMAIN account.storage \ written]

FromAlloyAccount(alloy) ==
    [info |-> alloy.changes, storage |-> Over([k \in alloy.reads |-> <<>>], alloy.slots)]

===============================================================================
