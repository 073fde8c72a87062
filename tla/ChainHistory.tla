----------------------------- MODULE ChainHistory -----------------------------
(***************************************************************************)
(* What a state database promises the node that executes blocks on it: the *)
(* accounts as they are now (tip), and the accounts at the end of every     *)
(* block it can still go back to (chain).  Executing changes the tip, the   *)
(* end of a block adds it to the chain, and going back, after a crash or a  *)
(* reorganisation, makes an earlier element of the chain the tip.  pending  *)
(* counts the transactions executed since the last block ended.             *)
(***************************************************************************)
EXTENDS Naturals, Sequences

VARIABLES tip, chain, pending

Init == chain = <<tip>> /\ pending = 0

(* a transaction changes one account; nothing else changes the tip *)
Execute(a, account) ==
    /\ pending' = pending + 1
    /\ tip' = [tip EXCEPT ![a] = account]
    /\ UNCHANGED chain

Seal ==
    /\ chain' = Append(chain, tip) /\ pending' = 0
    /\ UNCHANGED tip

(* n blocks and what was not yet sealed are given up *)
Rewind(n) ==
    /\ chain' = SubSeq(chain, 1, Len(chain) - n)
    /\ tip' = chain[Len(chain) - n] /\ pending' = 0

(* the first n elements of the chain become final *)
Finalize(n) ==
    /\ pending = 0
    /\ chain' = SubSeq(chain, n + 1, Len(chain))
    /\ UNCHANGED <<tip, pending>>

Next ==
    \/ \E a \in DOMAIN tip : Execute(a, tip'[a])
    \/ Seal
    \/ \E n \in 0..(Len(chain) - 1) : Rewind(n) \/ Finalize(n)

Spec == Init /\ [][Next]_<<tip, chain, pending>>

===============================================================================
