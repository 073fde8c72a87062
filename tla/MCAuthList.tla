----------------------------- MODULE MCAuthList -----------------------------
(* Instances of AuthList for TLC. *)
EXTENDS AuthList

CONSTANTS a1, a2, empty, d1

Auth(ok, n, c, s) == [chain_ok |-> ok, nonce |-> n, code |-> c, signer |-> s]

\* Authorizations of two accounts for their nonces 0 and 1, one for another
\* chain, one with the largest nonce and one with a bad signature.
SomeAuthorizations ==
    {Auth(TRUE, n, c, s) : n \in {0, 1}, c \in {empty, d1}, s \in {a1, a2}}
        \cup {Auth(FALSE, 0, d1, a1), Auth(TRUE, MaxNonce, d1, a2), Auth(TRUE, 0, d1, NotRecovered)}

AllLists == UNION {[1 .. n -> SomeAuthorizations] : n \in 1 .. 3}

Acc(n, c, new) == [nonce |-> n, code |-> c, absent |-> new, touched |-> FALSE]

\* a1 does not exist or is delegated already; a2 has been used or is a contract.
SomeGenesis ==
    {[a \in Accounts |-> IF a = a1 THEN x ELSE y] :
        x \in {Acc(0, empty, TRUE), Acc(1, d1, FALSE)},
        y \in {Acc(1, empty, FALSE), Acc(1, Legacy, FALSE)}}
=============================================================================
