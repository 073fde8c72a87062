------------------------------ MODULE MCJournal ------------------------------
(* Instances of Journal for TLC. *)
EXTENDS Journal

CONSTANTS eoa, contract, fresh, s1

\* A caller with funds, a contract with a slot in use, an address nobody used.
Database(code) ==
    [exists |-> {eoa, contract},
     bal |-> [a \in Addrs |-> IF a = eoa THEN 3 ELSE IF a = contract THEN 1 ELSE 0],
     nonce |-> [a \in Addrs |-> IF a \in {eoa, contract} THEN 1 ELSE 0],
     code |-> [a \in Addrs |-> IF a = contract THEN Legacy ELSE IF a = eoa THEN code ELSE Empty],
     val |-> [k \in Keys |-> IF k[1] = contract THEN 1 ELSE 0],
     ext |-> [k \in Keys |-> IF k[1] = contract THEN 1 ELSE 0], dead |-> {}]

MCGenesis == [plain |-> Database(Empty), delegated |-> Database(Delegation(contract))]

\* One transaction that reads and writes slots of its access list.
Storage ==
    [cancun |-> TRUE, precompiles |-> {}, genesis |-> "plain", coinbase |-> fresh,
     authorities |-> {}, creatable |-> {fresh}, listed |-> {<<contract, s1>>},
     kinds |-> {"call"}, fees |-> {0}, amounts |-> {0},
     instructions |-> {"sload", "sstore", "tstore", "log", "call"},
     entries |-> 11, logs |-> 1, first |-> 0, last |-> 0, resident |-> {}]

\* Value moves: fees, transfers, creations, selfdestructs.
Value ==
    [Storage EXCEPT !.listed = {}, !.kinds = {"call", "create"}, !.fees = {1}, !.amounts = {0, 1},
        !.instructions = {"call", "create", "selfdestruct", "sstore"}, !.logs = 0]

\* Before Cancun a selfdestruct destroys any account.
Shanghai ==
    [Storage EXCEPT !.cancun = FALSE, !.listed = {}, !.amounts = {0, 1},
        !.instructions = {"call", "create", "selfdestruct"}, !.logs = 0]

\* Two transactions of a journal that an earlier one has used.
Multi ==
    [Storage EXCEPT !.listed = {}, !.kinds = {"call", "create"}, !.amounts = {1},
        !.instructions = {"call", "create", "sstore", "tstore"}, !.entries = 7, !.logs = 0,
        !.first = 1, !.last = 2, !.resident = {eoa, contract}]

\* Delegations, and calls of a precompile and of code of other accounts.
Code ==
    [Storage EXCEPT !.precompiles = {fresh}, !.coinbase = contract, !.authorities = {eoa},
        !.creatable = {}, !.listed = {}, !.logs = 0,
        !.instructions = {"call", "callcode", "delegatecall", "balance", "sstore"}]

MCSetups == {Storage, Value, Shanghai, Multi, Code}

\* An account that is already delegated when it signs a new authorization.
Redelegation ==
    [Storage EXCEPT !.genesis = "delegated", !.authorities = {eoa}, !.listed = {},
        !.instructions = {}, !.entries = 9, !.logs = 0]
RedelegationSetups == {Redelegation}
==============================================================================
