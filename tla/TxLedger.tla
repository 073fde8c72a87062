------------------------------ MODULE TxLedger ------------------------------
(***************************************************************************)
(* What an EVM promises the program that drives it: accounts that are durable, *)
(* and accounts with the transactions executed since added.  A transaction is   *)
(* there as a whole or not at all, and uses up one nonce of one account; what    *)
(* was executed becomes durable, or is dropped, all at once.                   *)
(***************************************************************************)
EXTENDS Naturals

VARIABLES durable, executed    \* functions from addresses to [balance, nonce]

Init == executed = durable

(* the account that sent the transaction has one nonce less left; a call made by *)
(* the system uses none                                                       *)
Execute(sender) ==
    /\ \A a \in DOMAIN executed :
          executed'[a].nonce = executed[a].nonce + (IF a = sender THEN 1 ELSE 0)
    /\ \A a \in DOMAIN executed : executed'[a].balance \in Nat
    /\ UNCHANGED durable

Commit == durable' = executed /\ UNCHANGED executed
Drop == executed' = durable /\ UNCHANGED durable

Next == (\E sender \in DOMAIN executed \cup {"none"} : Execute(sender)) \/ Commit \/ Drop

Spec == Init /\ [][Next]_<<durable, executed>>

==============================================================================
