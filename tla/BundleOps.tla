------------------------------- MODULE BundleOps -------------------------------
(***************************************************************************)
(* The values crates/database/src/states works on, and the functions on     *)
(* them: CacheAccount (what execution reads and writes), TransitionAccount  *)
(* (what one block did to an account), BundleAccount and AccountRevert (the *)
(* changes of several blocks and how to undo each block), BundleState.      *)
(*                                                                          *)
(* An AccountInfo is a balance and a code; a code other than 0 stands for a *)
(* nonce and a code hash.  A HashMap of storage is a function whose domain  *)
(* is the set of the slots it holds.                                        *)
(***************************************************************************)
EXTENDS Naturals, Sequences, FiniteSets, Functions, SequencesExt

(* Option::None where a record is expected *)
None == [none |-> TRUE]

(* RevertToSlot: Some(v), Destroyed *)
Value(v) == <<v>>

Gone == <<>>

EmptyInfo == [bal |-> 0, code |-> 0]

HasNoCodeAndNonce(info) == info # None /\ info.code = 0

EmptyMap == [k \in {} |-> 0]

StorageSlot(o, p) == [o |-> o, p |-> p]

IsChanged(slot) == slot.o # slot.p

Present(storage) == [k \in DOMAIN storage |-> storage[k].p]

(* the values of m, except where over has one *)
Over(over, m) ==
    [k \in DOMAIN over \cup DOMAIN m |-> IF k \in DOMAIN over THEN over[k] ELSE m[k]]

(* entry(k).or_insert(slot).present_value = slot.present_value *)
ExtendStorage(this, update) ==
    [k \in DOMAIN this \cup DOMAIN update |->
        IF k \notin DOMAIN this THEN update[k]
        ELSE IF k \in DOMAIN update THEN [this[k] EXCEPT !.p = update[k].p] ELSE this[k]]

--------------------------------------------------------------------------------
(* AccountStatus. *)

NotModified == {"LoadedNotExisting", "Loaded", "LoadedEmptyEIP161"}

Destroyeds == {"Destroyed", "DestroyedChanged", "DestroyedAgain"}

Statuses == NotModified \cup {"InMemoryChange", "Changed"} \cup Destroyeds

WasDestroyed(s) == s \in Destroyeds

IsStorageKnown(s) == s \in {"LoadedNotExisting", "InMemoryChange"} \cup Destroyeds

\* Mutant of OnCreated: a destroyed account is created as if it had never been.
OnCreatedForgetsDestroyed(s) == "InMemoryChange"

OnCreated(s) == IF s \in Destroyeds THEN "DestroyedChanged" ELSE "InMemoryChange"

OnTouchedEmptyPostEip161(s) ==
    CASE s = "LoadedNotExisting" -> s
      [] s \in {"InMemoryChange", "Destroyed", "LoadedEmptyEIP161"} -> "Destroyed"
      [] s \in {"DestroyedAgain", "DestroyedChanged"} -> "DestroyedAgain"
      [] s \in {"Loaded", "Changed"} -> "LoadedNotExisting"

(* "unchanged": the status does not change and there is no transition *)
OnTouchedCreatedPreEip161(s, hadNoInfo) ==
    CASE s = "LoadedEmptyEIP161" -> "unchanged"
      [] s = "DestroyedChanged" -> IF hadNoInfo THEN "unchanged" ELSE s
      [] s \in {"Destroyed", "DestroyedAgain"} -> "DestroyedChanged"
      [] s \in {"InMemoryChange", "LoadedNotExisting"} -> "InMemoryChange"
      [] s \in {"Loaded", "Changed"} -> "unreachable"

OnChanged(s, hadNoNonceAndCode) ==
    CASE s \in {"LoadedNotExisting", "LoadedEmptyEIP161"} -> "InMemoryChange"
      [] s = "Loaded" -> IF hadNoNonceAndCode THEN "InMemoryChange" ELSE "Changed"
      [] s \in {"Changed", "InMemoryChange", "DestroyedChanged"} -> s
      [] s \in {"Destroyed", "DestroyedAgain"} -> "DestroyedChanged"

OnSelfdestructed(s) ==
    CASE s = "LoadedNotExisting" -> s
      [] s \in Destroyeds -> "DestroyedAgain"
      [] OTHER -> "Destroyed"

(* AccountStatus::transition, when a later bundle is joined to an earlier one *)
JoinStatus(this, other) ==
    IF WasDestroyed(this) /\ ~ WasDestroyed(other) THEN "DestroyedChanged"
    ELSE IF ~ WasDestroyed(other) /\ this = "InMemoryChange" THEN this
    ELSE other

--------------------------------------------------------------------------------
(* CacheAccount: [info, storage, status], info = None when account is None. *)

NotExisting == [info |-> None, storage |-> EmptyMap, status |-> "LoadedNotExisting"]

LoadedAccount(info) ==
    IF info = None THEN NotExisting
    ELSE [info |-> info, storage |-> EmptyMap,
          status |-> IF info = EmptyInfo THEN "LoadedEmptyEIP161" ELSE "Loaded"]

FromBundle(b) ==
    [info |-> b.info, status |-> b.status,
     storage |-> IF b.info = None THEN EmptyMap ELSE Present(b.storage)]

(* the transition from cached account c to account c1 *)
Transition(c, c1, storage, wiped) ==
    [info |-> c1.info, status |-> c1.status, pinfo |-> c.info, pstatus |-> c.status,
     storage |-> storage, wiped |-> wiped]

NoTransition(c) == [acc |-> c, transition |-> None]

Changing(c, c1, storage, wiped) ==
    [acc |-> c1, transition |-> Transition(c, c1, storage, wiped)]

Erased(status) ==
    [info |-> None, storage |-> EmptyMap, status |-> status]

TouchCreatePreEip161(c, storage) ==
    LET status == OnTouchedCreatedPreEip161(c.status, c.info = EmptyInfo)
    IN IF status = "unchanged" THEN NoTransition(c)
       ELSE Changing(c, [info |-> EmptyInfo, storage |-> Present(storage), status |-> status],
                     storage, FALSE)

TouchEmptyEip161(c) ==
    LET erased == Erased(OnTouchedEmptyPostEip161(c.status))
    IN IF c.status \in {"LoadedNotExisting", "Destroyed", "DestroyedAgain"}
       THEN NoTransition(erased)
       ELSE Changing(c, erased, EmptyMap, TRUE)

Selfdestruct(c) ==
    LET erased == Erased(OnSelfdestructed(c.status))
    IN IF c.status = "LoadedNotExisting" THEN NoTransition(erased)
       ELSE Changing(c, erased, EmptyMap, TRUE)

NewlyCreated(c, info, storage) ==
    Changing(c, [info |-> info, storage |-> Present(storage), status |-> OnCreated(c.status)],
             storage, FALSE)

\* Mutant of Change: the storage of the account is replaced, not extended.
ChangeReplacesStorage(c, info, storage) ==
    Changing(c, [info |-> info, storage |-> Present(storage),
                 status |-> OnChanged(c.status, HasNoCodeAndNonce(c.info))], storage, FALSE)

Change(c, info, storage) ==
    Changing(c, [info |-> info, storage |-> Over(Present(storage), c.storage),
                 status |-> OnChanged(c.status, HasNoCodeAndNonce(c.info))], storage, FALSE)

(* account_info_change *)
InfoChange(c, info) == Change(c, info, EmptyMap)

InfoOrDefault(info) == IF info = None THEN EmptyInfo ELSE info

IncrementBalance(c, n) ==
    IF n = 0 THEN NoTransition(c)
    ELSE InfoChange(c, [InfoOrDefault(c.info) EXCEPT !.bal = @ + n])

DrainBalance(c) == InfoChange(c, [InfoOrDefault(c.info) EXCEPT !.bal = 0])

(* CacheState::apply_account_state of an account the EVM returns:           *)
(* [touched, selfdestructed, created, info, storage]                        *)
ApplyAccountState(c, out, stateClear) ==
    LET changed == Restrict(out.storage, {k \in DOMAIN out.storage : IsChanged(out.storage[k])})
    IN IF ~ out.touched THEN NoTransition(c)
       ELSE IF out.selfdestructed THEN Selfdestruct(c)
       ELSE IF out.created THEN NewlyCreated(c, out.info, changed)
       ELSE IF out.info # EmptyInfo THEN Change(c, out.info, changed)
       ELSE IF stateClear THEN TouchEmptyEip161(c)
       ELSE TouchCreatePreEip161(c, changed)

--------------------------------------------------------------------------------
(* TransitionState: several transactions of a block become one transition.  *)

\* Mutant of UpdateTransition: a selfdestruct does not drop the storage written before it.
UpdateTransitionForgetsWipe(t, other) ==
    [t EXCEPT !.info = other.info, !.status = other.status,
              !.storage = ExtendStorage(t.storage, other.storage)]

UpdateTransition(t, other) ==
    LET merged == ExtendStorage(t.storage, other.storage)
        back == {k \in DOMAIN t.storage \cap DOMAIN other.storage : ~ IsChanged(merged[k])}
        wiped == other.status \in {"Destroyed", "DestroyedAgain"}
    IN [t EXCEPT !.info = other.info, !.status = other.status,
                 !.storage = IF wiped THEN other.storage
                             ELSE Restrict(merged, DOMAIN merged \ back),
                 !.wiped = @ \/ wiped]

AddTransition(ts, a, t) ==
    IF t = None THEN ts
    ELSE IF a \in DOMAIN ts THEN [ts EXCEPT ![a] = UpdateTransition(@, t)]
    ELSE Over([x \in {a} |-> t], ts)

(* has_new_contract: the code to remember, if any *)
NewContracts(t) ==
    IF t.info # None /\ (t.pinfo = None \/ t.pinfo.code # t.info.code)
    THEN {t.info.code} ELSE {}

PresentBundleAccount(t) ==
    [info |-> t.info, orig |-> t.pinfo, storage |-> t.storage, status |-> t.status]

OriginalBundleAccount(t) ==
    [info |-> t.pinfo, orig |-> t.pinfo, storage |-> EmptyMap, status |-> t.pstatus]

--------------------------------------------------------------------------------
(* BundleAccount and AccountRevert.  A revert is [account, storage, pstatus, *)
(* wipe]; account is DoNothing, DeleteIt or RevertTo(info).                  *)

DoNothing == <<"DoNothing">>

DeleteIt == <<"DeleteIt">>

RevertTo(info) == <<"RevertTo", InfoOrDefault(info)>>

PresentValues(storage) == [k \in DOMAIN storage |-> Value(storage[k].p)]

SizeHint(x) == 1 + Cardinality(DOMAIN x.storage)

Revert(account, storage, pstatus, wipe) ==
    [account |-> account, storage |-> storage, pstatus |-> pstatus, wipe |-> wipe]

IsEmptyRevert(r) == r.account = DoNothing /\ r.storage = EmptyMap /\ ~ r.wipe

(* new_selfdestructed_again: what was there, and nothing for the new slots *)
SelfdestructedAgain(status, account, previous, updated) ==
    Revert(account, Over(PresentValues(previous), [k \in DOMAIN updated |-> Gone]), status, FALSE)

PreviousStorage(updated) ==
    [k \in {k \in DOMAIN updated : IsChanged(updated[k])} |-> Value(updated[k].o)]

(* the statuses update_and_create_revert accepts: the others are unreachable! *)
CanUpdate(from, to) ==
    CASE to = "Changed" -> from \in {"Changed", "Loaded", "LoadedEmptyEIP161"}
      [] to = "InMemoryChange" -> from \in NotModified \cup {"InMemoryChange"}
      [] to = "Destroyed" -> from \in NotModified \cup {"InMemoryChange", "Changed"}
      [] OTHER -> TRUE

InMemoryOrLoaded == {"InMemoryChange", "Changed", "LoadedEmptyEIP161", "Loaded"}

InfoRevert(b, t) == IF b.info = t.info THEN DoNothing ELSE RevertTo(b.info)

Updated(b, t, storage, revert) ==
    [acc |-> [b EXCEPT !.info = t.info, !.status = t.status, !.storage = storage],
     revert |-> IF revert # None /\ IsEmptyRevert(revert) THEN None ELSE revert]

UpdateToChanged(b, t) ==
    Updated(b, t,
            IF b.status = "LoadedEmptyEIP161" THEN b.storage ELSE ExtendStorage(b.storage, t.storage),
            Revert(InfoRevert(b, t), PreviousStorage(t.storage), b.status, FALSE))

UpdateToInMemoryChange(b, t) ==
    Updated(b, t,
            IF b.status \in {"Loaded", "InMemoryChange"} THEN ExtendStorage(b.storage, t.storage)
            ELSE t.storage,
            Revert(IF b.status = "LoadedNotExisting" THEN DeleteIt ELSE InfoRevert(b, t),
                   PreviousStorage(t.storage), b.status, FALSE))

UpdateToDestroyed(b, t) ==
    IF b.status = "LoadedNotExisting"
    THEN [acc |-> [b EXCEPT !.storage = EmptyMap], revert |-> None]
    ELSE Updated(b, [t EXCEPT !.info = None], EmptyMap,
                 Revert(InfoRevert(b, t), PresentValues(b.storage), b.status, TRUE))

\* Mutant of UpdateToDestroyedChanged: the flag storage_was_destroyed is not consulted.
UpdateToDestroyedChangedIgnoresWipe(b, t) ==
    Updated(b, t, ExtendStorage(b.storage, t.storage),
            Revert(IF b.status = "DestroyedChanged" THEN InfoRevert(b, t) ELSE DeleteIt,
                   PreviousStorage(t.storage), b.status, b.status \in InMemoryOrLoaded))

UpdateToDestroyedChanged(b, t) ==
    CASE b.status \in InMemoryOrLoaded ->
            Updated(b, t, t.storage,
                    [SelfdestructedAgain(b.status, InfoRevert(b, t), b.storage, t.storage)
                        EXCEPT !.wipe = TRUE])
      [] b.status \in {"Destroyed", "LoadedNotExisting"} ->
            Updated(b, t, ExtendStorage(b.storage, t.storage),
                    Revert(DeleteIt, PreviousStorage(t.storage), b.status, FALSE))
      [] b.status = "DestroyedChanged" /\ t.wiped ->
            Updated(b, t, t.storage,
                    SelfdestructedAgain(b.status, InfoRevert(b, t), b.storage, t.storage))
      [] b.status = "DestroyedChanged" /\ ~ t.wiped ->
            Updated(b, t, ExtendStorage(b.storage, t.storage),
                    Revert(InfoRevert(b, t), PreviousStorage(t.storage), b.status, FALSE))
      [] b.status = "DestroyedAgain" ->
            Updated(b, t, ExtendStorage(b.storage, t.storage),
                    SelfdestructedAgain(b.status, DeleteIt, EmptyMap, t.storage))

UpdateToDestroyedAgain(b, t) ==
    Updated(b, [t EXCEPT !.info = None], EmptyMap,
            CASE b.status \in InMemoryOrLoaded ->
                    [SelfdestructedAgain(b.status, InfoRevert(b, t), b.storage, EmptyMap)
                        EXCEPT !.wipe = TRUE]
              [] b.status = "DestroyedChanged" ->
                    SelfdestructedAgain(b.status, RevertTo(b.info), b.storage, EmptyMap)
              [] OTHER -> None)

(* update_and_create_revert *)
UpdateAndCreateRevert(b, t) ==
    CASE t.status = "Changed" -> UpdateToChanged(b, t)
      [] t.status = "InMemoryChange" -> UpdateToInMemoryChange(b, t)
      [] t.status \in NotModified -> [acc |-> b, revert |-> None]
      [] t.status = "Destroyed" -> UpdateToDestroyed(b, t)
      [] t.status = "DestroyedChanged" -> UpdateToDestroyedChanged(b, t)
      [] t.status = "DestroyedAgain" -> UpdateToDestroyedAgain(b, t)

\* Mutant of RevertAccount: a slot that did not exist before the block is set to zero.
RevertAccountZeroes(b, r) ==
    IF r.account = DeleteIt
    THEN [remove |-> b.orig = None,
          acc |-> [b EXCEPT !.info = None, !.status = r.pstatus]]
    ELSE [remove |-> FALSE,
          acc |-> [b EXCEPT !.info = IF r.account = DoNothing THEN @ ELSE r.account[2],
                            !.status = r.pstatus,
                            !.storage = ExtendStorage(@, [k \in DOMAIN r.storage |->
                                            IF r.storage[k] = Gone THEN StorageSlot(0, 0)
                                            ELSE StorageSlot(r.storage[k][1], r.storage[k][1])])]]

(* BundleAccount::revert; remove is its result *)
RevertAccount(b, r) ==
    LET kept == {k \in DOMAIN r.storage : r.storage[k] # Gone}
        slots == [k \in kept |-> StorageSlot(r.storage[k][1], r.storage[k][1])]
        left == Restrict(b.storage, DOMAIN b.storage \ (DOMAIN r.storage \ kept))
    IN IF r.account = DeleteIt
       THEN [remove |-> b.orig = None,
             acc |-> [b EXCEPT !.info = None, !.status = r.pstatus,
                               !.storage = [k \in DOMAIN @ |-> [@[k] EXCEPT !.p = 0]]]]
       ELSE [remove |-> FALSE,
             acc |-> [b EXCEPT !.info = IF r.account = DoNothing THEN @ ELSE r.account[2],
                               !.status = r.pstatus, !.storage = ExtendStorage(left, slots)]]

(* storage_slot: <<>> when the database has to be asked *)
BundleSlot(b, k) ==
    IF k \in DOMAIN b.storage THEN <<b.storage[k].p>>
    ELSE IF IsStorageKnown(b.status) THEN <<0>> ELSE <<>>

================================================================================
