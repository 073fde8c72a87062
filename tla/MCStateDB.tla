------------------------------- MODULE MCStateDB -------------------------------
EXTENDS StateDB

Account(info, v) == [info |-> info, storage |-> [k \in Slots |-> v]]

Database(account) == [accounts |-> [a \in Addrs |-> account], codes |-> {1}]

(* an absent, an empty and a funded account, and a contract with storage *)
AnyAccount ==
    {Database(Account(None, 0)), Database(Account(EmptyInfo, 0)),
     Database(Account([bal |-> 1, code |-> 0], 0)), Database(Account([bal |-> 0, code |-> 1], 1))}

================================================================================
