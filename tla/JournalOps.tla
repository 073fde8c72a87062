----------------------------- MODULE JournalOps -----------------------------
(***************************************************************************)
(* The operations of JournalInner (crates/context/src/journal/inner.rs)    *)
(* and of the journal entries (context/interface/src/journaled_state).     *)
(*                                                                         *)
(* A journal is a record J.  The accounts and slots of the hash map are    *)
(* kept field by field: J.bal[a] is state[a].info.balance, a \in J.touched *)
(* is the Touched flag, J.val[k] the present value of the slot k = <<a,s>>.*)
(* J.loaded and J.sloaded are the keys present in the maps; the fields of  *)
(* an absent account hold what the database D knows of it, which is what   *)
(* the first load inserts.  An operation returns the journal after it.     *)
(***************************************************************************)
EXTENDS Naturals, Sequences, FiniteSets

CONSTANTS
    Addrs,       \* addresses
    Slots,       \* storage keys
    MaxValue,    \* storage values are 0 .. MaxValue
    MaxBalance,  \* U256::MAX
    MaxNonce,    \* u64::MAX
    Precompile3  \* address 0x..03, whose touch is never reverted

ASSUME JournalAssumption ==
    MaxBalance \in Nat /\ MaxNonce \in Nat \ {0} /\ MaxValue \in Nat

Keys == Addrs \X Slots
Values == 0 .. MaxValue
Balances == 0 .. MaxBalance
Nonces == 0 .. MaxNonce
\* Bytecode: none, a contract, or an EIP-7702 delegation to an address.
Empty == [kind |-> "empty"]
Legacy == [kind |-> "legacy"]
Delegation(a) == [kind |-> "eip7702", address |-> a]
Codes == {Empty, Legacy} \cup {Delegation(a) : a \in Addrs}

Info(b, n, c) == [balance |-> b, nonce |-> n, code |-> c]
DefaultInfo == Info(0, 0, Empty)
InfoOf(J, a) == Info(J.bal[a], J.nonce[a], J.code[a])

(* ruint's += and -= wrap around *)
WrapAdd(x, y) == IF x + y > MaxBalance THEN (x + y) - (MaxBalance + 1) ELSE x + y
WrapSub(x, y) == IF x < y THEN (x + (MaxBalance + 1)) - y ELSE x - y

------------------------------------------------------------------------------
(* The journal entries. *)

AccountWarmed(a) == [type |-> "AccountWarmed", address |-> a]
AccountDestroyed(a, t, st, b) ==
    [type |-> "AccountDestroyed", address |-> a, target |-> t,
     destroyed_status |-> st, had_balance |-> b]
AccountTouched(a) == [type |-> "AccountTouched", address |-> a]
BalanceChange(a, b) == [type |-> "BalanceChange", address |-> a, old_balance |-> b]
BalanceTransfer(f, t, b) ==
    [type |-> "BalanceTransfer", from |-> f, to |-> t, balance |-> b]
NonceChange(a) == [type |-> "NonceChange", address |-> a]
AccountCreated(a, g) ==
    [type |-> "AccountCreated", address |-> a, is_created_globally |-> g]
StorageChanged(k, v) == [type |-> "StorageChanged", key |-> k, had_value |-> v]
StorageWarmed(k) == [type |-> "StorageWarmed", key |-> k]
TransientStorageChange(k, v) ==
    [type |-> "TransientStorageChange", key |-> k, had_value |-> v]
CodeChange(a) == [type |-> "CodeChange", address |-> a]

Push(J, e) == [J EXCEPT !.journal = Append(@, e)]

------------------------------------------------------------------------------
(* Loading accounts and slots. *)

MapWarm(J, a) == a \in J.loaded /\ J.tid[a] = J.txid /\ a \notin J.cold
IsCold(J, a) == ~ MapWarm(J, a) /\ a \notin J.warm_addresses
SlotMapWarm(J, k) == k \in J.sloaded /\ J.stid[k] = J.txid /\ k \notin J.scold
SlotIsCold(J, k) ==
    IF k \in J.sloaded THEN ~ SlotMapWarm(J, k) ELSE k \notin J.warm_slots

\* Mutant of LoadVacant: the account is not inserted into the map.
LoadVacantNotInserted(J, D, a) ==
    [J EXCEPT !.tid[a] = IF a \in D.exists THEN 0 ELSE J.txid]

(* vac.insert(account.into()) or Account::new_not_existing *)
LoadVacant(J, D, a) ==
    [J EXCEPT !.loaded = @ \cup {a},
              !.bal[a] = D.bal[a], !.nonce[a] = D.nonce[a], !.code[a] = D.code[a],
              !.orig[a] = Info(D.bal[a], D.nonce[a], D.code[a]),
              !.tid[a] = IF a \in D.exists THEN 0 ELSE J.txid]

(* the account is in the map but cold: mark_warm_with_transaction_id; what *)
(* an earlier transaction destroyed is cleared                             *)
LoadOccupiedCold(J, a) ==
    LET wiped == a \in J.destroyed_local
        info == IF wiped THEN DefaultInfo ELSE InfoOf(J, a)
    IN [J EXCEPT !.cold = @ \ {a}, !.tid[a] = J.txid,
                 !.bal[a] = info.balance, !.nonce[a] = info.nonce,
                 !.code[a] = info.code, !.orig[a] = info,
                 !.sloaded = IF wiped THEN {k \in @ : k[1] # a} ELSE @,
                 !.destroyed_local = @ \ {a}, !.created_local = @ \ {a}]

\* Mutant of LoadAccount: every load is journaled as a cold one.
LoadAccountAlwaysWarms(J, D, a) ==
    Push(IF a \notin J.loaded THEN LoadVacant(J, D, a)
         ELSE IF MapWarm(J, a) THEN J ELSE LoadOccupiedCold(J, a), AccountWarmed(a))

(* load_account_mut_optional_code *)
LoadAccount(J, D, a) ==
    LET loaded == IF a \notin J.loaded THEN LoadVacant(J, D, a)
                  ELSE IF MapWarm(J, a) THEN J ELSE LoadOccupiedCold(J, a)
    IN IF IsCold(J, a) THEN Push(loaded, AccountWarmed(a)) ELSE loaded

(* load_account_delegated: the delegate of an EIP-7702 account too *)
LoadDelegated(J, D, a) ==
    LET first == LoadAccount(J, D, a)
    IN IF first.code[a].kind = "eip7702"
       THEN LoadAccount(first, D, first.code[a].address) ELSE first

SlotValue(J, D, k) ==
    IF k \in J.sloaded THEN J.val[k]
    ELSE IF k[1] \in J.created THEN 0 ELSE D.val[k]

\* Mutant of SLoad: a warm slot takes its present value as the original.
SLoadResetsOriginal(J, D, k) ==
    LET value == SlotValue(J, D, k)
        loaded == [J EXCEPT !.sloaded = @ \cup {k}, !.val[k] = value, !.oval[k] = value,
                            !.stid[k] = J.txid, !.scold = @ \ {k}]
    IN IF SlotIsCold(J, k) THEN Push(loaded, StorageWarmed(k)) ELSE loaded

\* Mutant of SLoad: a slot of an earlier transaction keeps its original value.
SLoadKeepsOriginal(J, D, k) ==
    LET value == SlotValue(J, D, k)
        loaded == [J EXCEPT !.sloaded = @ \cup {k}, !.val[k] = value,
                            !.oval[k] = IF k \in J.sloaded THEN @ ELSE value,
                            !.stid[k] = J.txid, !.scold = @ \ {k}]
    IN IF SlotIsCold(J, k) THEN Push(loaded, StorageWarmed(k)) ELSE loaded

\* Mutant of SLoad: a slot of the access list is journaled as a cold one.
SLoadAlwaysWarms(J, D, k) ==
    LET value == SlotValue(J, D, k)
        loaded == [J EXCEPT !.sloaded = @ \cup {k}, !.val[k] = value,
                            !.oval[k] = IF SlotMapWarm(J, k) THEN @ ELSE value,
                            !.stid[k] = J.txid, !.scold = @ \ {k}]
    IN IF SlotMapWarm(J, k) THEN loaded ELSE Push(loaded, StorageWarmed(k))

(* sload *)
SLoad(J, D, k) ==
    LET value == SlotValue(J, D, k)
        loaded == [J EXCEPT !.sloaded = @ \cup {k}, !.val[k] = value,
                            !.oval[k] = IF SlotMapWarm(J, k) THEN @ ELSE value,
                            !.stid[k] = J.txid, !.scold = @ \ {k}]
    IN IF SlotIsCold(J, k) THEN Push(loaded, StorageWarmed(k)) ELSE loaded

\* Mutant of SStore: the entry records the new value.
SStoreRecordsNew(J, D, k, new) ==
    LET present == SLoad(J, D, k)
    IN IF present.val[k] = new THEN present
       ELSE [Push(present, StorageChanged(k, new)) EXCEPT !.val[k] = new]

(* sstore *)
SStore(J, D, k, new) ==
    LET present == SLoad(J, D, k)
    IN IF present.val[k] = new THEN present
       ELSE [Push(present, StorageChanged(k, present.val[k])) EXCEPT !.val[k] = new]

(* tstore: the map holds no zeros *)
TStore(J, k, new) ==
    IF J.transient[k] = new THEN J
    ELSE [Push(J, TransientStorageChange(k, J.transient[k])) EXCEPT !.transient[k] = new]

(* log *)
Log(J, l) == [J EXCEPT !.logs = Append(@, l)]

------------------------------------------------------------------------------
(* Changing accounts. *)

(* touch_account *)
Touch(J, a) ==
    IF a \in J.touched THEN J
    ELSE [Push(J, AccountTouched(a)) EXCEPT !.touched = @ \cup {a}]

(* JournaledAccount::set_balance *)
SetBalance(J, a, b) ==
    LET t == Touch(J, a)
    IN IF t.bal[a] = b THEN t
       ELSE [Push(t, BalanceChange(a, t.bal[a])) EXCEPT !.bal[a] = b]

(* JournaledAccount::incr_balance *)
IncrBalance(J, a, b) ==
    IF J.bal[a] + b > MaxBalance THEN Touch(J, a) ELSE SetBalance(J, a, J.bal[a] + b)

\* Mutant of BumpNonce: the nonce is raised without an entry.
BumpNonceUnjournaled(J, a) ==
    LET t == Touch(J, a)
    IN IF t.nonce[a] = MaxNonce THEN t ELSE [t EXCEPT !.nonce[a] = @ + 1]

(* JournaledAccount::bump_nonce *)
BumpNonce(J, a) ==
    LET t == Touch(J, a)
    IN IF t.nonce[a] = MaxNonce THEN t
       ELSE [Push(t, NonceChange(a)) EXCEPT !.nonce[a] = @ + 1]

\* Mutant of SetCode: the code is replaced without an entry.
SetCodeUnjournaled(J, a, c) == [Touch(J, a) EXCEPT !.code[a] = c]

(* set_code_with_hash and JournaledAccount::set_code *)
SetCode(J, a, c) ==
    [Push(Touch(J, a), CodeChange(a)) EXCEPT !.code[a] = c]

(* JournaledAccount::delegate; the zero address clears the code *)
Delegate(J, a, c) == BumpNonce(SetCode(J, a, c), a)

TransferFails(J, from, to, b) ==
    \/ b > J.bal[from]
    \/ from # to /\ b # 0 /\ J.bal[to] + b > MaxBalance

\* Mutant of Transfer: a transfer of nothing does not touch the receiver.
TransferZeroUntouched(J, from, to, b) ==
    IF from = to \/ b = 0 THEN J
    ELSE IF b > J.bal[from] THEN Touch(J, from)
    ELSE [Push(Touch(Touch(J, from), to), BalanceTransfer(from, to, b)) EXCEPT
              !.bal = [@ EXCEPT ![from] = @ - b, ![to] = @ + b]]

(* transfer_loaded; the debit of an OverflowPayment has no journal entry *)
Transfer(J, from, to, b) ==
    LET paid == Touch(J, from)
        debited == [Touch(paid, to) EXCEPT !.bal[from] = @ - b]
    IN IF from = to THEN J
       ELSE IF b = 0 THEN Touch(J, to)
       ELSE IF b > J.bal[from] THEN paid
       ELSE IF TransferFails(J, from, to, b) THEN debited
       ELSE [Push(debited, BalanceTransfer(from, to, b)) EXCEPT !.bal[to] = @ + b]

CreateCollision(J, a) == J.code[a] # Empty \/ J.nonce[a] # 0
CreateOverflow(J, a, b) == J.bal[a] + b > MaxBalance

(* create_account_checkpoint; its checkpoint is the frame's, see Journal *)
CreateAccount(J, caller, a, b) ==
    LET created == [Push(J, AccountCreated(a, a \notin J.created)) EXCEPT
                        !.created = @ \cup {a}, !.created_local = @ \cup {a},
                        !.nonce[a] = 1]
        touched == Touch(created, a)
        credited == [touched EXCEPT !.bal[a] = @ + b]
    IN IF CreateCollision(J, a) THEN J
       ELSE IF CreateOverflow(J, a, b) THEN touched
       ELSE [Push(credited, BalanceTransfer(caller, a, b)) EXCEPT
                 !.bal[caller] = WrapSub(@, b)]

\* Mutant of DestroyedStatus: every selfdestruct counts as the first.
DestroyedStatusFirst(J, a) == "GloballySelfdestroyed"

(* selfdestruct *)
DestroyedStatus(J, a) ==
    IF a \notin J.destroyed THEN "GloballySelfdestroyed"
    ELSE IF a \notin J.destroyed_local THEN "LocallySelfdestroyed"
    ELSE "RepeatedSelfdestruction"

\* Mutant of SelfDestruct: an account of an earlier transaction keeps its balance.
SelfDestructKeepsBalance(J, D, a, target) ==
    LET L == LoadAccount(J, D, target)
        balance == L.bal[a]
        T == IF a = target THEN L
             ELSE [Touch(L, target) EXCEPT !.bal[target] = WrapAdd(@, balance)]
    IN IF a \in T.created_local \/ ~ J.cancun
       THEN [Push(T, AccountDestroyed(a, target, DestroyedStatus(T, a), balance))
                EXCEPT !.destroyed = @ \cup {a}, !.destroyed_local = @ \cup {a},
                       !.bal[a] = 0]
       ELSE Push(T, BalanceTransfer(a, target, balance))

SelfDestruct(J, D, a, target) ==
    LET L == LoadAccount(J, D, target)
        balance == L.bal[a]
        T == IF a = target THEN L
             ELSE [Touch(L, target) EXCEPT !.bal[target] = WrapAdd(@, balance)]
    IN IF a \in T.created_local \/ ~ J.cancun
       THEN [Push(T, AccountDestroyed(a, target, DestroyedStatus(T, a), balance))
                EXCEPT !.destroyed = @ \cup {a}, !.destroyed_local = @ \cup {a},
                       !.bal[a] = 0]
       ELSE IF a # target
       THEN [Push(T, BalanceTransfer(a, target, balance)) EXCEPT !.bal[a] = 0]
       ELSE T

------------------------------------------------------------------------------
(* JournalEntryTr::revert: the effect of one entry is undone. *)

\* Mutant of UndoDestroyed: the balance is returned and not taken back.
UndoDestroyedOneSided(J, e) ==
    [J EXCEPT !.bal[e.address] = WrapAdd(@, e.had_balance),
              !.destroyed = IF e.destroyed_status = "GloballySelfdestroyed"
                            THEN @ \ {e.address} ELSE @,
              !.destroyed_local = IF e.destroyed_status = "RepeatedSelfdestruction"
                                  THEN @ ELSE @ \ {e.address}]

UndoDestroyed(J, e) ==
    LET back == [J EXCEPT !.bal[e.address] = WrapAdd(@, e.had_balance),
                     !.destroyed = IF e.destroyed_status = "GloballySelfdestroyed"
                                   THEN @ \ {e.address} ELSE @,
                     !.destroyed_local = IF e.destroyed_status = "RepeatedSelfdestruction"
                                         THEN @ ELSE @ \ {e.address}]
    IN IF e.address = e.target THEN back
       ELSE [back EXCEPT !.bal[e.target] = WrapSub(@, e.had_balance)]

UndoTransfer(J, e) ==
    LET back == [J EXCEPT !.bal[e.from] = WrapAdd(@, e.balance)]
    IN [back EXCEPT !.bal[e.to] = WrapSub(@, e.balance)]

UndoEntry(J, e) ==
    CASE e.type = "AccountWarmed" -> [J EXCEPT !.cold = @ \cup {e.address}]
      [] e.type = "AccountTouched" ->
            IF e.address \in J.precompiles \cap {Precompile3} THEN J
            ELSE [J EXCEPT !.touched = @ \ {e.address}]
      [] e.type = "AccountDestroyed" -> UndoDestroyed(J, e)
      [] e.type = "BalanceChange" -> [J EXCEPT !.bal[e.address] = e.old_balance]
      [] e.type = "BalanceTransfer" -> UndoTransfer(J, e)
      [] e.type = "NonceChange" -> [J EXCEPT !.nonce[e.address] = @ - 1]
      [] e.type = "AccountCreated" ->
            [J EXCEPT !.created_local = @ \ {e.address},
                      !.created = IF e.is_created_globally THEN @ \ {e.address} ELSE @,
                      !.nonce[e.address] = 0]
      [] e.type = "StorageWarmed" -> [J EXCEPT !.scold = @ \cup {e.key}]
      [] e.type = "StorageChanged" -> [J EXCEPT !.val[e.key] = e.had_value]
      [] e.type = "TransientStorageChange" -> [J EXCEPT !.transient[e.key] = e.had_value]
      [] e.type = "CodeChange" -> [J EXCEPT !.code[e.address] = Empty]

(* one turn of the loop over journal.drain(..).rev() *)
UndoLast(J) ==
    LET n == Len(J.journal)
    IN [UndoEntry(J, J.journal[n]) EXCEPT !.journal = SubSeq(@, 1, n - 1)]

------------------------------------------------------------------------------
(* The ends of a transaction. *)

\* Mutant of ClearTx: transient storage is left to the next transaction.
ClearTxKeepsTransient(J) ==
    [J EXCEPT !.journal = <<>>, !.logs = <<>>, !.depth = 0, !.txid = @ + 1,
              !.warm_addresses = @ \cap J.precompiles, !.warm_slots = {}]

ClearTx(J) ==
    [J EXCEPT !.journal = <<>>, !.logs = <<>>, !.depth = 0, !.txid = @ + 1,
              !.transient = [k \in Keys |-> 0],
              !.warm_addresses = @ \cap J.precompiles, !.warm_slots = {}]

(* JournalInner::new; cancun is spec.is_enabled_in(CANCUN), SHANGHAI is always  *)
(* enabled, and precompiles the precompile_set of the warm addresses            *)
FreshJournal(D, cancun, precompiles) ==
    [cancun |-> cancun, precompiles |-> precompiles,
     loaded |-> {}, touched |-> {}, created |-> {}, created_local |-> {},
     destroyed |-> {}, destroyed_local |-> {}, cold |-> {},
     bal |-> D.bal, nonce |-> D.nonce, code |-> D.code,
     orig |-> [a \in Addrs |-> Info(D.bal[a], D.nonce[a], D.code[a])],
     tid |-> [a \in Addrs |-> 0],
     sloaded |-> {}, scold |-> {}, val |-> D.val, oval |-> D.val,
     stid |-> [k \in Keys |-> 0], transient |-> [k \in Keys |-> 0],
     logs |-> <<>>, depth |-> 0, journal |-> <<>>, txid |-> 0,
     warm_addresses |-> {}, warm_slots |-> {}]

==============================================================================
