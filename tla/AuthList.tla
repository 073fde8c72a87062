------------------------------ MODULE AuthList ------------------------------
(***************************************************************************)
(* apply_eip7702_auth_list (crates/handler/src/pre_execution.rs).  With     *)
(* par_7702 rayon workers recover the authorities of the list and send each *)
(* result into a channel; the results are then applied in the order they    *)
(* were sent.  Without it the list is walked in order.  The journal entries *)
(* of an authorization are in Journal (Authorize).                          *)
(***************************************************************************)
EXTENDS Naturals, Sequences, FiniteSets

CONSTANTS
    Accounts,     \* addresses that can be authorities
    Targets,      \* the codes an authorization can set
    Legacy,       \* the code of a contract
    NotRecovered, \* None: no authority
    MaxNonce,     \* u64::MAX
    Lists,        \* the authorization lists of the transactions
    Genesis       \* the accounts before the transaction

Authorizations ==
    [chain_ok : BOOLEAN, nonce : 0 .. MaxNonce, code : Targets,
     signer : Accounts \cup {NotRecovered}]
AccountStates ==
    [nonce : 0 .. MaxNonce, code : Targets \cup {Legacy},
     absent : BOOLEAN, touched : BOOLEAN]

ASSUME AuthAssumption ==
    /\ MaxNonce \in Nat /\ Legacy \notin Targets /\ NotRecovered \notin Accounts
    /\ Lists \subseteq Seq(Authorizations)
    /\ Genesis \subseteq [Accounts -> AccountStates]

VARIABLES
    list,       \* tx.authorization_list()
    par,        \* par_7702
    genesis,    \* the accounts before
    accounts,   \* the accounts in the journal
    recovering, \* indices the workers have not finished
    channel,    \* indices in the order their results were sent
    applied,    \* how many results the loop has taken
    refunds     \* refunded_accounts

vars == <<list, par, genesis, accounts, recovering, channel, applied, refunds>>

(* steps 1 to 3: chain id, nonce limit, signature *)
Authority(auth) ==
    IF auth.chain_ok /\ auth.nonce # MaxNonce THEN auth.signer ELSE NotRecovered

(* steps 5 and 6 *)
Accepts(acc, auth) == acc.code # Legacy /\ auth.nonce = acc.nonce

(* step 7: the account existed, or an earlier step touched it *)
Refund(acc, auth) == IF Accepts(acc, auth) /\ ~ (acc.absent /\ ~ acc.touched) THEN 1 ELSE 0

(* steps 8 and 9: JournaledAccount::delegate *)
Delegated(acc, auth) ==
    IF Accepts(acc, auth)
    THEN [acc EXCEPT !.code = auth.code, !.nonce = @ + 1, !.touched = TRUE]
    ELSE acc

Init ==
    /\ list \in Lists /\ par \in BOOLEAN /\ genesis \in Genesis
    /\ accounts = genesis
    /\ recovering = IF par THEN DOMAIN list ELSE {}
    /\ channel = IF par THEN <<>> ELSE [i \in DOMAIN list |-> i]
    /\ applied = 0 /\ refunds = 0

\* Mutant of Recover: a worker sends nothing for an authorization that fails.
RecoverSendsValid(i) ==
    /\ i \in recovering
    /\ recovering' = recovering \ {i}
    /\ channel' = IF Authority(list[i]) = NotRecovered THEN channel ELSE Append(channel, i)
    /\ UNCHANGED <<list, par, genesis, accounts, applied, refunds>>

(* one worker of for_each; a failed check sends None *)
Recover(i) ==
    /\ i \in recovering
    /\ recovering' = recovering \ {i}
    /\ channel' = Append(channel, i)
    /\ UNCHANGED <<list, par, genesis, accounts, applied, refunds>>

\* Mutant of Apply: the loop ends at the first authorization without an authority.
ApplyBreaks ==
    LET auth == list[channel[applied + 1]]
        a == Authority(auth)
    IN /\ recovering = {} /\ applied < Len(channel)
       /\ IF a = NotRecovered
          THEN applied' = Len(list) /\ UNCHANGED <<accounts, refunds>>
          ELSE /\ applied' = applied + 1
               /\ accounts' = [accounts EXCEPT ![a] = Delegated(@, auth)]
               /\ refunds' = refunds + Refund(accounts[a], auth)
       /\ UNCHANGED <<list, par, genesis, recovering, channel>>

\* Mutant of Apply: a refund is counted for an authorization that is skipped.
ApplyRefundsSkipped ==
    LET auth == list[channel[applied + 1]]
        a == Authority(auth)
    IN /\ recovering = {} /\ applied < Len(channel)
       /\ applied' = applied + 1
       /\ IF a = NotRecovered THEN UNCHANGED <<accounts, refunds>>
          ELSE /\ accounts' = [accounts EXCEPT ![a] = Delegated(@, auth)]
               /\ refunds' = refunds + (IF accounts[a].absent THEN 0 ELSE 1)
       /\ UNCHANGED <<list, par, genesis, recovering, channel>>

\* Mutant of Apply: the loop waits for an authority.
ApplyAwaitsAuthority ==
    LET auth == list[channel[applied + 1]]
        a == Authority(auth)
    IN /\ recovering = {} /\ applied < Len(channel)
       /\ a # NotRecovered
       /\ applied' = applied + 1
       /\ accounts' = [accounts EXCEPT ![a] = Delegated(@, auth)]
       /\ refunds' = refunds + Refund(accounts[a], auth)
       /\ UNCHANGED <<list, par, genesis, recovering, channel>>

(* for_each returns when every worker is done; then one turn of the loop *)
Apply ==
    LET auth == list[channel[applied + 1]]
        a == Authority(auth)
    IN /\ recovering = {} /\ applied < Len(channel)
       /\ applied' = applied + 1
       /\ IF a = NotRecovered THEN UNCHANGED <<accounts, refunds>>
          ELSE /\ accounts' = [accounts EXCEPT ![a] = Delegated(@, auth)]
               /\ refunds' = refunds + Refund(accounts[a], auth)
       /\ UNCHANGED <<list, par, genesis, recovering, channel>>

Done == applied = Len(list)

Next == (\E i \in DOMAIN list : Recover(i)) \/ Apply

Spec == Init /\ [][Next]_vars

(* The workers run and the thread that called for_each resumes after them. *)
FairSpec == Spec /\ WF_vars(Next)

------------------------------------------------------------------------------
(* Properties. *)

\* Every index is recovered once, sent once and applied once.
TypeOK ==
    /\ list \in Lists /\ par \in BOOLEAN /\ genesis \in Genesis
    /\ accounts \in [Accounts -> AccountStates]
    /\ recovering \subseteq DOMAIN list
    /\ channel \in Seq(DOMAIN list)
    /\ applied \in 0 .. Len(channel) /\ refunds \in Nat
    /\ Len(channel) + Cardinality(recovering) = Len(list)

AppliedIndices == {channel[n] : n \in 1 .. applied}

\* No two authorizations of the list name the same authority.
DistinctAuthorities ==
    \A i, j \in DOMAIN list :
        Authority(list[i]) = Authority(list[j]) /\ Authority(list[i]) # NotRecovered => i = j

\* When the authorities are distinct the order in which the workers finish does
\* not matter: once the loop ends, each account is what its own authorization,
\* if there is one, makes of the account before the transaction.
OrderIrrelevant ==
    Done /\ DistinctAuthorities =>
        \A a \in Accounts :
            /\ \A i \in DOMAIN list : Authority(list[i]) = a =>
                   accounts[a] = Delegated(genesis[a], list[i])
            /\ (\A i \in DOMAIN list : Authority(list[i]) # a) => accounts[a] = genesis[a]

\* What walking the list in order leaves after n authorizations, and the refunds.
InOrder[n \in Nat] ==
    IF n = 0 THEN [accounts |-> genesis, refunds |-> 0]
    ELSE LET before == InOrder[n - 1]
             a == Authority(list[n])
         IN IF a = NotRecovered THEN before
            ELSE [accounts |-> [before.accounts EXCEPT ![a] = Delegated(@, list[n])],
                  refunds |-> before.refunds + Refund(before.accounts[a], list[n])]

\* The loop gives the accounts and the gas refund that applying the list in its
\* order gives: without par_7702 always, and with it, when the workers finish in
\* any order, for a list that names no authority twice.
MatchesListOrder ==
    Done /\ (par => DistinctAuthorities) =>
        /\ accounts = InOrder[Len(list)].accounts
        /\ refunds = InOrder[Len(list)].refunds

\* The loop, which takes as many results as the list is long, always ends.
Terminates == <>Done

=============================================================================
