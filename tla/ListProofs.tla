----------------------------- MODULE ListProofs -----------------------------
(***************************************************************************)
(* The two lists that come with transactions and blocks, at any length.    *)
(* An authorization list (AuthList): the loop applies every authorization  *)
(* exactly once and gives what the walk in order gives, in whatever order  *)
(* the workers finish when no authority comes twice.  A block access list  *)
(* (BalOps): BalWrites::get finds the last write before its index, by      *)
(* whichever of its searches, and update_with_key adds a value to the      *)
(* history a list stands for and changes nothing of what was before.       *)
(***************************************************************************)
EXTENDS AuthList, BalOps, FiniteSetTheorems, WellFoundedInduction, TLAPS

(* The provers a leaf that names none is given to, in turn. *)
USE SMTT(20), ZenonT(20), Z3T(20)

(* A set of numbers has a least element; this stands in for induction. *)
LEMMA LeastNumber ==
    ASSUME NEW T, T \subseteq Nat, T # {}
    PROVE  \E m \in T : \A k \in T : m <= k
<1>1. \E m \in T : \A k \in T : ~ (<<k, m>> \in OpToRel(<, Nat))
  BY Zenon, NatLessThanWellFounded, WFMin
<1>2. PICK m \in T : \A k \in T : ~ (<<k, m>> \in OpToRel(<, Nat))
  BY Zenon, <1>1
<1>3. OpToRel(<, Nat) = {ss \in Nat \X Nat : ss[1] < ss[2]}
  BY DEF OpToRel
<1>4. \A k \in T : k \in Nat /\ ~ (k < m)
  BY Zenon, <1>2, <1>3
<1>5. \A k \in T : m <= k
  BY <1>4
<1> QED
  BY <1>5

------------------------------------------------------------------------------
(* Authorization lists. *)

\* One turn of the walk in order, from what the turns before it left.
Walked(before, n) ==
    LET a == Authority(list[n])
    IN IF a = NotRecovered THEN before
       ELSE [accounts |-> [before.accounts EXCEPT ![a] = Delegated(@, list[n])],
             refunds |-> before.refunds + Refund(before.accounts[a], list[n])]

Unwalked == [accounts |-> genesis, refunds |-> 0]

\* The turns of the walk up to n, as a function.
IsWalk(h, n) == h = [i \in 0..n |-> IF i = 0 THEN Unwalked ELSE Walked(h[i - 1], i)]

\* A function that is a walk at each of its numbers is one.
LEMMA WalkTurns ==
    ASSUME NEW h, NEW n \in Nat, IsWalk(h, n)
    PROVE  /\ DOMAIN h = 0..n /\ h[0] = Unwalked
           /\ \A i \in 1..n : h[i] = Walked(h[i - 1], i)
    <1> DEFINE g == [i \in 0..n |-> IF i = 0 THEN Unwalked ELSE Walked(h[i - 1], i)]
    <1>1. h = g
        BY DEF IsWalk
    <1>2. DOMAIN g = 0..n
        OBVIOUS
    <1>3. g[0] = Unwalked
        OBVIOUS
    <1>4. ASSUME NEW i \in 1..n PROVE g[i] = Walked(h[i - 1], i)
        <2>1. i \in 0..n /\ i # 0
            OBVIOUS
        <2> QED
            BY <2>1
    <1> HIDE DEF g
    <1> QED
        BY <1>1, <1>2, <1>3, <1>4

\* The turns of two walks are the same as far as both go.
LEMMA WalksAgree ==
    ASSUME NEW g, NEW m \in Nat, IsWalk(g, m), NEW h, NEW n \in Nat, IsWalk(h, n), m <= n
    PROVE  \A i \in 0..m : g[i] = h[i]
    <1> DEFINE T == {i \in 0..m : g[i] # h[i]}
    <1>1. SUFFICES ASSUME T # {} PROVE FALSE
        OBVIOUS
    <1>2. PICK i \in T : \A k \in T : i <= k
        <2>1. T \subseteq Nat
            OBVIOUS
        <2> HIDE DEF T
        <2> QED
            BY Zenon, <1>1, <2>1, LeastNumber
    <1>3. i \in 0..m /\ g[i] # h[i]
        OBVIOUS
    <1>4. g[0] = h[0]
        BY WalkTurns
    <1>5. i \in 1..m /\ i - 1 \in 0..m /\ ~ (i <= i - 1) /\ i \in 1..n
        BY <1>3, <1>4
    <1>6. i - 1 \notin T
        BY <1>2, <1>5
    <1>7. g[i - 1] = h[i - 1]
        BY <1>5, <1>6
    <1>8. g[i] = Walked(g[i - 1], i) /\ h[i] = Walked(h[i - 1], i)
        BY <1>5, WalkTurns
    <1> QED
        BY <1>3, <1>7, <1>8

\* There is a walk of every length.
LEMMA WalksExist == \A n \in Nat : \E h : IsWalk(h, n)
    <1> DEFINE T == {n \in Nat : ~ \E h : IsWalk(h, n)}
    <1>1. SUFFICES ASSUME T # {} PROVE FALSE
        OBVIOUS
    <1>2. PICK n \in T : \A k \in T : n <= k
        <2>1. T \subseteq Nat
            OBVIOUS
        <2> HIDE DEF T
        <2> QED
            BY Zenon, <1>1, <2>1, LeastNumber
    <1>3. n \in Nat /\ ~ \E h : IsWalk(h, n)
        OBVIOUS
    <1>4. CASE n = 0
        <2> DEFINE h == [i \in 0..0 |-> Unwalked]
        <2>1. IsWalk(h, 0)
            BY DEF IsWalk
        <2> QED
            BY <1>3, <1>4, <2>1
    <1>5. CASE n # 0
        <2>1. n - 1 \in Nat /\ n - 1 \notin T
            BY <1>2, <1>3, <1>5
        <2>2. PICK g : IsWalk(g, n - 1)
            BY <2>1
        <2> DEFINE h == [i \in 0..n |-> IF i = n THEN Walked(g[n - 1], n) ELSE g[i]]
                   w == [i \in 0..n |-> IF i = 0 THEN Unwalked ELSE Walked(h[i - 1], i)]
        <2>3. /\ g[0] = Unwalked
              /\ \A i \in 1..(n - 1) : g[i] = Walked(g[i - 1], i)
            BY <2>1, <2>2, WalkTurns
        <2>4. ASSUME NEW i \in 0..n PROVE h[i] = w[i]
            <3>1. CASE i = 0
                BY <1>3, <1>5, <2>3, <3>1
            <3>2. CASE i # 0 /\ i # n
                <4>1. i \in 1..(n - 1) /\ i - 1 \in 0..n /\ i - 1 # n
                    BY <1>3, <3>2
                <4>2. h[i] = g[i] /\ h[i - 1] = g[i - 1]
                    BY <3>2, <4>1
                <4>3. w[i] = Walked(h[i - 1], i)
                    BY <3>2
                <4> QED
                    BY <2>3, <4>1, <4>2, <4>3
            <3>3. CASE i = n
                <4>1. n - 1 \in 0..n /\ n - 1 # n
                    BY <1>3, <1>5
                <4>2. h[i] = Walked(g[n - 1], n) /\ h[n - 1] = g[n - 1]
                    BY <3>3, <4>1
                <4>3. w[i] = Walked(h[n - 1], n)
                    BY <1>5, <3>3
                <4> QED
                    BY <4>2, <4>3
            <3> QED
                BY <3>1, <3>2, <3>3
        <2>5. h = w
            BY <2>4
        <2>6. IsWalk(h, n)
            BY <2>5 DEF IsWalk
        <2> QED
            BY <1>3, <2>6
    <1> QED
        BY <1>4, <1>5

\* Walking the list in order is what its definition says, turn by turn.
LEMMA InOrderTurns ==
    /\ InOrder[0] = Unwalked
    /\ \A n \in Nat : n # 0 => InOrder[n] = Walked(InOrder[n - 1], n)
    <1> DEFINE Walk(n) == CHOOSE h : IsWalk(h, n)
               f == [n \in Nat |-> Walk(n)[n]]
               F(g) == [n \in Nat |-> IF n = 0 THEN Unwalked ELSE Walked(g[n - 1], n)]
    <1>1. \A n \in Nat : IsWalk(Walk(n), n)
        BY WalksExist
    <1> HIDE DEF Walk
    <1>2. ASSUME NEW n \in Nat PROVE f[n] = F(f)[n]
        <2>1. CASE n = 0
            <3>1. Walk(0)[0] = Unwalked
                BY <1>1, WalkTurns
            <3> QED
                BY <2>1, <3>1
        <2>2. CASE n # 0
            <3>1. n - 1 \in Nat /\ n \in 1..n /\ n - 1 \in 0..(n - 1) /\ n - 1 <= n
                BY <2>2
            <3>2. Walk(n)[n] = Walked(Walk(n)[n - 1], n)
                BY <1>1, <3>1, WalkTurns
            <3>3. Walk(n - 1)[n - 1] = Walk(n)[n - 1]
                BY <1>1, <3>1, WalksAgree
            <3>4. f[n] = Walk(n)[n] /\ f[n - 1] = Walk(n - 1)[n - 1]
                BY <3>1
            <3>5. F(f)[n] = Walked(f[n - 1], n)
                BY <2>2
            <3> QED
                BY <3>2, <3>3, <3>4, <3>5
        <2> QED
            BY <2>1, <2>2
    <1>3. f = F(f)
        BY <1>2
    <1>4. InOrder = CHOOSE g : g = F(g)
        BY DEF InOrder, Walked, Unwalked
    <1> HIDE DEF f
    <1>5. InOrder = F(InOrder)
        <2> HIDE DEF F
        <2>1. \E g : g = F(g)
            BY <1>3
        <2> QED
            BY <1>4, <2>1
    <1>6. F(InOrder)[0] = Unwalked
        OBVIOUS
    <1>7. \A n \in Nat : n # 0 => F(InOrder)[n] = Walked(InOrder[n - 1], n)
        OBVIOUS
    <1> QED
        BY <1>5, <1>6, <1>7

Sent == {channel[n] : n \in DOMAIN channel}

\* The authorizations of the list that earn a refund when they come first.
Refunded(i) ==
    /\ Authority(list[i]) # NotRecovered
    /\ Refund(genesis[Authority(list[i])], list[i]) = 1

\* What the authorizations I do to the accounts and to the refunds, in any order,
\* when no two of them have the same authority.
Matches(acc, ref, I) ==
    /\ acc \in [Accounts -> AccountStates]
    /\ \A a \in Accounts :
           /\ \A i \in I : Authority(list[i]) = a => acc[a] = Delegated(genesis[a], list[i])
           /\ (\A i \in I : Authority(list[i]) # a) => acc[a] = genesis[a]
    /\ ref = Cardinality({i \in I : Refunded(i)})

\* The inductive invariant: an index is with a worker or in the channel, never
\* in both, and in the channel once; the loop has done what the indices it has
\* taken do in any order, and what the walk in order does when there are no workers.
IInv ==
    /\ TypeOK
    /\ IsFiniteSet(recovering)
    /\ Sent \cap recovering = {} /\ Sent \cup recovering = DOMAIN list
    /\ \A m, n \in DOMAIN channel : channel[m] = channel[n] => m = n
    /\ applied > 0 => recovering = {}
    /\ DistinctAuthorities => Matches(accounts, refunds, AppliedIndices)
    /\ ~ par => /\ channel = [i \in DOMAIN list |-> i]
                /\ [accounts |-> accounts, refunds |-> refunds] = InOrder[applied]

------------------------------------------------------------------------------
\* A list is a sequence of authorizations.
LEMMA ListType ==
    ASSUME TypeOK
    PROVE  /\ Len(list) \in Nat /\ DOMAIN list = 1..Len(list)
           /\ \A i \in DOMAIN list : list[i] \in Authorizations
    <1>1. list \in Seq(Authorizations)
        BY AuthAssumption DEF TypeOK
    <1> QED
        BY <1>1

\* Applying an authorization keeps the account well formed.
LEMMA DelegatedType ==
    ASSUME NEW acc \in AccountStates, NEW auth \in Authorizations,
           Authority(auth) # NotRecovered
    PROVE  Delegated(acc, auth) \in AccountStates /\ Refund(acc, auth) \in {0, 1}
    <1>1. Refund(acc, auth) \in {0, 1}
        BY DEF Refund
    <1>2. auth.nonce \in 0 .. MaxNonce /\ auth.nonce # MaxNonce /\ auth.code \in Targets
        BY DEF Authority, Authorizations
    <1>3. CASE Accepts(acc, auth)
        <2>1. acc.nonce + 1 \in 0 .. MaxNonce
            BY <1>2, <1>3, AuthAssumption DEF Accepts
        <2>2. Delegated(acc, auth) =
                [acc EXCEPT !.code = auth.code, !.nonce = acc.nonce + 1, !.touched = TRUE]
            BY <1>3 DEF Delegated
        <2> QED
            BY Zenon, <1>1, <1>2, <2>1, <2>2 DEF AccountStates
    <1>4. CASE ~ Accepts(acc, auth)
        BY <1>1, <1>4 DEF Delegated
    <1> QED
        BY <1>3, <1>4

\* Before anything is applied the accounts are those before the transaction.
LEMMA NothingApplied ==
    ASSUME TypeOK
    PROVE  Matches(genesis, 0, {})
    <1>1. genesis \in [Accounts -> AccountStates]
        BY AuthAssumption DEF TypeOK
    <1>2. Cardinality({}) = 0 /\ {i \in {} : Refunded(i)} = {}
        BY FS_EmptySet
    <1> QED
        BY <1>1, <1>2 DEF Matches

\* One more turn with distinct authorities: it finds its account as it was before
\* the transaction, whatever the turns before it were.
LEMMA TurnMatches ==
    ASSUME TypeOK, DistinctAuthorities, NEW I, I \subseteq DOMAIN list,
           NEW k \in DOMAIN list, k \notin I, NEW acc, NEW ref, Matches(acc, ref, I)
    PROVE  LET new == Walked([accounts |-> acc, refunds |-> ref], k)
           IN Matches(new.accounts, new.refunds, I \cup {k})
    <1> DEFINE old == [accounts |-> acc, refunds |-> ref]
               new == Walked(old, k)
               a == Authority(list[k])
               R == {i \in I : Refunded(i)}
               Q == {i \in I \cup {k} : Refunded(i)}
    <1> SUFFICES Matches(new.accounts, new.refunds, I \cup {k})
        OBVIOUS
    <1>1. list[k] \in Authorizations /\ a \in Accounts \cup {NotRecovered}
        BY ListType DEF Authority, Authorizations
    <1>2. IsFiniteSet(R)
        <2>1. IsFiniteSet(1..Len(list))
            BY ListType, FS_Interval
        <2>2. R \subseteq 1..Len(list)
            BY ListType
        <2> QED
            BY <2>1, <2>2, FS_Subset
    <1>3. CASE a = NotRecovered
        <2>1. new.accounts = acc /\ new.refunds = ref
            BY <1>3 DEF Walked
        <2>2. Q = R
            BY <1>3 DEF Refunded
        <2>3. ref = Cardinality(Q)
            BY <2>2 DEF Matches
        <2>4. \A b \in Accounts : b # a
            BY <1>3, AuthAssumption
        <2> HIDE DEF new
        <2>5. ASSUME NEW b \in Accounts
              PROVE  /\ \A i \in I \cup {k} : Authority(list[i]) = b =>
                            acc[b] = Delegated(genesis[b], list[i])
                     /\ (\A i \in I \cup {k} : Authority(list[i]) # b) => acc[b] = genesis[b]
            BY <2>4 DEF Matches
        <2>6. acc \in [Accounts -> AccountStates]
            BY DEF Matches
        <2> QED
            BY <2>1, <2>3, <2>5, <2>6 DEF Matches
    <1>4. CASE a # NotRecovered
        <2>1. a \in Accounts /\ acc \in [Accounts -> AccountStates]
            BY <1>1, <1>4 DEF Matches
        <2>2. \A i \in I : Authority(list[i]) # a
            BY <1>4 DEF DistinctAuthorities
        <2>3. acc[a] = genesis[a]
            BY <2>1, <2>2 DEF Matches
        <2>4. /\ new.accounts = [acc EXCEPT ![a] = Delegated(acc[a], list[k])]
              /\ new.refunds = ref + Refund(acc[a], list[k])
            BY <1>4 DEF Walked
        <2>5. Delegated(acc[a], list[k]) \in AccountStates /\ Refund(acc[a], list[k]) \in {0, 1}
            BY <1>1, <1>4, <2>1, DelegatedType
        <2> HIDE DEF new
        <2>6. /\ new.accounts \in [Accounts -> AccountStates]
              /\ new.accounts[a] = Delegated(genesis[a], list[k])
              /\ \A b \in Accounts \ {a} : new.accounts[b] = acc[b]
            BY <2>1, <2>3, <2>4, <2>5
        <2>7. new.refunds = Cardinality(Q)
            <3>1. ref = Cardinality(R) /\ Cardinality(R) \in Nat /\ k \notin R
                BY <1>2, FS_CardinalityType DEF Matches
            <3>2. CASE Refunded(k)
                <4>1. Q = R \cup {k}
                    BY <3>2
                <4>2. Cardinality(R \cup {k}) = Cardinality(R) + 1
                    BY <1>2, <3>1, FS_AddElement
                <4>3. Refund(acc[a], list[k]) = 1
                    BY <2>3, <3>2 DEF Refunded
                <4> QED
                    BY Zenon, <2>4, <3>1, <4>1, <4>2, <4>3
            <3>3. CASE ~ Refunded(k)
                <4>1. Q = R
                    BY <3>3
                <4>2. Refund(acc[a], list[k]) = 0
                    BY <1>4, <2>3, <2>5, <3>3 DEF Refunded
                <4> QED
                    BY <2>4, <3>1, <4>1, <4>2
            <3> QED
                BY <3>2, <3>3
        <2>8. ASSUME NEW b \in Accounts
              PROVE  /\ \A i \in I \cup {k} : Authority(list[i]) = b =>
                            new.accounts[b] = Delegated(genesis[b], list[i])
                     /\ (\A i \in I \cup {k} : Authority(list[i]) # b) =>
                            new.accounts[b] = genesis[b]
            <3>1. CASE b = a
                BY <2>2, <2>6, <3>1
            <3>2. CASE b # a
                BY <2>6, <3>2 DEF Matches
            <3> QED
                BY <3>1, <3>2
        <2> QED
            BY <2>6, <2>7, <2>8 DEF Matches
    <1> QED
        BY <1>3, <1>4

\* The walk in order does what its authorizations do in any order.
LEMMA WalkMatches ==
    ASSUME TypeOK, DistinctAuthorities
    PROVE  Matches(InOrder[Len(list)].accounts, InOrder[Len(list)].refunds, DOMAIN list)
    <1> DEFINE Good(n) == /\ InOrder[n] = [accounts |-> InOrder[n].accounts, refunds |-> InOrder[n].refunds]
                          /\ Matches(InOrder[n].accounts, InOrder[n].refunds, 1..n)
               T == {n \in 0..Len(list) : ~ Good(n)}
    <1>1. Len(list) \in Nat /\ DOMAIN list = 1..Len(list)
        BY ListType
    <1>2. Good(0)
        <2>1. InOrder[0] = [accounts |-> genesis, refunds |-> 0]
            BY InOrderTurns DEF Unwalked
        <2>2. 1..0 = {}
            OBVIOUS
        <2> QED
            BY <2>1, <2>2, NothingApplied
    <1>3. ASSUME NEW n \in 1..Len(list), Good(n - 1) PROVE Good(n)
        <2>1. /\ n \in Nat /\ n # 0 /\ n \in DOMAIN list /\ n \notin 1..(n - 1)
              /\ 1..(n - 1) \subseteq DOMAIN list /\ 1..n = 1..(n - 1) \cup {n}
            BY <1>1
        <2>2. InOrder[n] = Walked(InOrder[n - 1], n)
            BY <2>1, InOrderTurns
        <2> DEFINE acc == InOrder[n - 1].accounts
                   ref == InOrder[n - 1].refunds
                   new == Walked([accounts |-> acc, refunds |-> ref], n)
        <2>3. InOrder[n] = new
            BY <1>3, <2>2
        <2>4. Matches(new.accounts, new.refunds, 1..(n - 1) \cup {n})
            <3>1. Matches(acc, ref, 1..(n - 1))
                BY <1>3
            <3> HIDE DEF acc, ref
            <3> QED
                BY Zenon, <2>1, <3>1, TurnMatches
        <2>5. new = [accounts |-> new.accounts, refunds |-> new.refunds]
            BY Zenon DEF Walked
        <2> HIDE DEF new
        <2> QED
            BY Zenon, <2>1, <2>3, <2>4, <2>5
    <1> HIDE DEF Good
    <1>4. T = {}
        <2>1. SUFFICES ASSUME T # {} PROVE FALSE
            OBVIOUS
        <2>2. PICK n \in T : \A k \in T : n <= k
            <3>1. T \subseteq Nat
                OBVIOUS
            <3> HIDE DEF T
            <3> QED
                BY Zenon, <2>1, <3>1, LeastNumber
        <2>3. n \in 1..Len(list) /\ n - 1 \in 0..Len(list) /\ ~ (n <= n - 1)
            BY <1>1, <1>2
        <2>4. Good(n - 1)
            BY <2>2, <2>3
        <2> QED
            BY <1>3, <2>3, <2>4
    <1>5. Good(Len(list))
        BY <1>1, <1>4
    <1> QED
        BY <1>1, <1>5 DEF Good

\* The invariant holds when the list is handed to the workers, or walked in order.
LEMMA InitIInv == Init => IInv
    <1> SUFFICES ASSUME Init PROVE IInv
        OBVIOUS
    <1>1. list \in Seq(Authorizations) /\ DOMAIN list = 1 .. Len(list) /\ Len(list) \in Nat
        BY AuthAssumption DEF Init
    <1>2. IsFiniteSet(DOMAIN list) /\ Cardinality(DOMAIN list) = Len(list)
        <2> DEFINE n == Len(list)
        <2>1. n \in Nat /\ DOMAIN list = 1 .. n
            BY <1>1
        <2> HIDE DEF n
        <2>2. IsFiniteSet(1 .. n) /\ Cardinality(1 .. n) = IF 1 > n THEN 0 ELSE n - 1 + 1
            BY <2>1, FS_Interval
        <2>3. Cardinality(1 .. n) = n
            BY <2>1, <2>2
        <2> QED
            BY <2>1, <2>2, <2>3 DEF n
    <1>3. IsFiniteSet({}) /\ Cardinality({}) = 0
        BY FS_EmptySet
    <1>4. AppliedIndices = {}
        BY DEF Init, AppliedIndices
    <1>5. accounts = genesis /\ accounts \in [Accounts -> AccountStates]
        BY AuthAssumption DEF Init
    <1>6. InOrder[0] = [accounts |-> genesis, refunds |-> 0]
        BY InOrderTurns DEF Unwalked
    <1>7. TypeOK => (DistinctAuthorities => Matches(accounts, refunds, AppliedIndices))
        BY <1>4, <1>5, NothingApplied DEF Init
    <1>8. CASE par
        <2>1. recovering = DOMAIN list /\ channel = <<>> /\ applied = 0 /\ refunds = 0
            BY <1>8 DEF Init
        <2>2. Sent = {}
            BY <2>1 DEF Sent
        <2>3. TypeOK
            <3>1. channel \in Seq(DOMAIN list) /\ Len(channel) = 0
                BY <2>1
            <3>2. Len(channel) + Cardinality(recovering) = Len(list)
                BY <1>1, <1>2, <2>1, <3>1
            <3>3. applied \in 0 .. Len(channel)
                BY <2>1, <3>1
            <3> QED
                BY <1>5, <2>1, <3>1, <3>2, <3>3 DEF Init, TypeOK
        <2> QED
            BY <1>2, <1>7, <1>8, <2>1, <2>2, <2>3 DEF Init, IInv
    <1>9. CASE ~ par
        <2>1. recovering = {} /\ channel = [i \in DOMAIN list |-> i] /\ applied = 0 /\ refunds = 0
            BY <1>9 DEF Init
        <2>2. channel \in Seq(DOMAIN list) /\ Len(channel) = Len(list) /\ DOMAIN channel = DOMAIN list
            BY <1>1, <2>1
        <2>3. Sent = DOMAIN list
            BY <1>1, <2>1 DEF Sent
        <2>4. TypeOK
            <3>1. Len(channel) + Cardinality(recovering) = Len(list)
                BY <1>1, <1>3, <2>1, <2>2
            <3>2. applied \in 0 .. Len(channel)
                BY <1>1, <2>1, <2>2
            <3> QED
                BY <1>5, <2>1, <2>2, <3>1, <3>2 DEF Init, TypeOK
        <2>5. \A m, n \in DOMAIN channel : channel[m] = channel[n] => m = n
            BY <2>1
        <2>6. [accounts |-> accounts, refunds |-> refunds] = InOrder[applied]
            BY <1>5, <1>6, <2>1
        <2> QED
            BY <1>3, <1>7, <2>1, <2>3, <2>4, <2>5, <2>6 DEF IInv
    <1> QED
        BY <1>8, <1>9 DEF Init

\* A worker moves its index to the end of the channel; nothing is applied yet.
LEMMA RecoverIInv ==
    ASSUME IInv, NEW k \in DOMAIN list, Recover(k)
    PROVE  IInv'
    <1>1. /\ k \in recovering /\ recovering' = recovering \ {k}
          /\ channel' = Append(channel, k) /\ applied = 0 /\ applied' = 0
          /\ UNCHANGED <<list, par, genesis, accounts, applied, refunds>>
        BY DEF Recover, IInv, TypeOK
    <1>2. channel \in Seq(DOMAIN list) /\ channel' \in Seq(DOMAIN list)
          /\ Len(channel') = Len(channel) + 1 /\ Len(channel) \in Nat
          /\ DOMAIN channel = 1 .. Len(channel) /\ DOMAIN channel' = 1 .. Len(channel) + 1
          /\ channel'[Len(channel) + 1] = k
          /\ \A n \in DOMAIN channel : channel'[n] = channel[n]
        BY <1>1 DEF IInv, TypeOK
    <1>3. IsFiniteSet(recovering') /\ Cardinality(recovering') = Cardinality(recovering) - 1
          /\ Cardinality(recovering) \in Nat
        BY <1>1, FS_RemoveElement, FS_CardinalityType DEF IInv
    <1>4. Sent' = Sent \cup {k}
        <2>1. ASSUME NEW x \in Sent' PROVE x \in Sent \cup {k}
            <3>1. PICK n \in DOMAIN channel' : x = channel'[n]
                BY <2>1 DEF Sent
            <3>2. CASE n = Len(channel) + 1
                BY <1>2, <3>1, <3>2
            <3>3. CASE n \in DOMAIN channel
                BY <1>2, <3>1, <3>3 DEF Sent
            <3> QED
                BY <1>2, <3>2, <3>3
        <2>2. k \in Sent'
            <3>1. Len(channel) + 1 \in DOMAIN channel'
                BY <1>2
            <3> QED
                BY <1>2, <3>1 DEF Sent
        <2>3. \A n \in DOMAIN channel : n \in DOMAIN channel' /\ channel'[n] = channel[n]
            BY <1>2
        <2>4. \A x \in Sent : x \in Sent'
            BY <2>3 DEF Sent
        <2> QED
            BY <2>1, <2>2, <2>4
    <1>5. TypeOK'
        <2>1. list \in Seq(Authorizations) /\ Len(list) \in Nat
            BY AuthAssumption DEF IInv, TypeOK
        <2>2. Len(channel') + Cardinality(recovering') = Len(list')
            BY <1>1, <1>2, <1>3, <2>1 DEF IInv, TypeOK
        <2> QED
            BY <1>1, <1>2, <2>2 DEF IInv, TypeOK
    <1>6. \A m, n \in DOMAIN channel' : channel'[m] = channel'[n] => m = n
        <2>1. \A n \in DOMAIN channel : channel[n] # k
            BY <1>1 DEF IInv, Sent
        <2> QED
            BY <1>2, <2>1 DEF IInv
    <1>7. DistinctAuthorities' => Matches(accounts, refunds, AppliedIndices)'
        <2>1. AppliedIndices = {} /\ AppliedIndices' = {}
            BY <1>1 DEF AppliedIndices
        <2>2. DistinctAuthorities' => Matches(accounts, refunds, {})
            BY <1>1, <2>1 DEF IInv, DistinctAuthorities
        <2> QED
            BY <1>1, <2>1, <2>2 DEF Matches, Refunded
    <1>8. par
        <2>1. SUFFICES ASSUME ~ par PROVE FALSE
            OBVIOUS
        <2>2. channel = [i \in DOMAIN list |-> i]
            BY <2>1 DEF IInv
        <2>3. k \in DOMAIN channel /\ channel[k] = k
            BY <2>2
        <2>4. k \in Sent
            BY <2>3 DEF Sent
        <2> QED
            BY <1>1, <2>4 DEF IInv
    <1>9. Sent' \cap recovering' = {} /\ Sent' \cup recovering' = DOMAIN list'
        <2>1. Sent \cap recovering = {} /\ Sent \cup recovering = DOMAIN list
            BY DEF IInv
        <2>2. k \in recovering /\ recovering' = recovering \ {k} /\ list' = list
            BY <1>1
        <2> QED
            BY <1>4, <2>1, <2>2
    <1>10. par' /\ ~ (applied' > 0)
        BY <1>1, <1>8
    <1> QED
        BY <1>3, <1>5, <1>6, <1>7, <1>9, <1>10 DEF IInv

\* One turn of the loop is one of the walk, from where the loop stands.
LEMMA ApplyIInv ==
    ASSUME IInv, Apply
    PROVE  IInv'
    <1> DEFINE k == channel[applied + 1]
               a == Authority(list[k])
               old == [accounts |-> accounts, refunds |-> refunds]
               new == Walked(old, k)
    <1>1. /\ recovering = {} /\ applied < Len(channel) /\ applied' = applied + 1
          /\ UNCHANGED <<list, par, genesis, recovering, channel>>
        BY DEF Apply
    <1>2. applied \in Nat /\ applied + 1 \in DOMAIN channel /\ k \in DOMAIN list
          /\ Len(channel) \in Nat
        BY <1>1 DEF IInv, TypeOK
    <1>3. list[k] \in Authorizations /\ a \in Accounts \cup {NotRecovered}
        BY <1>2, ListType DEF IInv, Authority, Authorizations
    <1>4. AppliedIndices' = AppliedIndices \cup {k}
        BY <1>1, <1>2 DEF AppliedIndices
    <1>5. k \notin AppliedIndices /\ AppliedIndices \subseteq DOMAIN list
        <2>1. \A n \in 1 .. applied : n \in DOMAIN channel /\ n # applied + 1
            BY <1>1, <1>2 DEF IInv, TypeOK
        <2>2. k \notin AppliedIndices
            BY <1>2, <2>1 DEF AppliedIndices, IInv, TypeOK
        <2>3. AppliedIndices \subseteq DOMAIN list
            BY <2>1 DEF AppliedIndices, IInv, TypeOK
        <2> QED
            BY <2>2, <2>3
    <1>6. accounts' = new.accounts /\ refunds' = new.refunds
          /\ new = [accounts |-> accounts', refunds |-> refunds']
        BY DEF Apply, Walked
    <1>7. accounts' \in [Accounts -> AccountStates] /\ refunds' \in Nat
        <2>1. accounts \in [Accounts -> AccountStates] /\ refunds \in Nat
            BY DEF IInv, TypeOK
        <2>2. CASE a = NotRecovered
            BY <2>1, <2>2 DEF Apply
        <2>3. CASE a # NotRecovered
            <3>1. /\ a \in Accounts
                  /\ accounts' = [accounts EXCEPT ![a] = Delegated(@, list[k])]
                  /\ refunds' = refunds + Refund(accounts[a], list[k])
                BY <1>3, <2>3 DEF Apply
            <3>2. Delegated(accounts[a], list[k]) \in AccountStates
                  /\ Refund(accounts[a], list[k]) \in {0, 1}
                BY <1>3, <2>1, <2>3, <3>1, DelegatedType
            <3> QED
                BY <2>1, <3>1, <3>2
        <2> QED
            BY <2>2, <2>3
    <1>8. TypeOK'
        BY <1>1, <1>2, <1>7 DEF IInv, TypeOK
    <1>9. DistinctAuthorities' => Matches(accounts, refunds, AppliedIndices)'
        <2>1. SUFFICES ASSUME DistinctAuthorities PROVE Matches(accounts, refunds, AppliedIndices)'
            BY <1>1 DEF DistinctAuthorities
        <2>2. TypeOK /\ Matches(accounts, refunds, AppliedIndices)
            BY <2>1 DEF IInv
        <2>3. Matches(new.accounts, new.refunds, AppliedIndices \cup {k})
            <3> HIDE DEF k
            <3> QED
                BY Zenon, <1>2, <1>5, <2>1, <2>2, TurnMatches
        <2>4. Matches(accounts', refunds', AppliedIndices')
            <3> HIDE DEF new
            <3> QED
                BY <1>4, <1>6, <2>3
        <2> QED
            BY <1>1, <2>4 DEF Matches, Refunded
    <1>10. ASSUME ~ par'
           PROVE  /\ (channel = [i \in DOMAIN list |-> i])'
                  /\ ([accounts |-> accounts, refunds |-> refunds] = InOrder[applied])'
        <2>1. channel = [i \in DOMAIN list |-> i] /\ old = InOrder[applied]
            BY <1>1, <1>10 DEF IInv
        <2>2. k = applied + 1
            <3>1. applied + 1 \in DOMAIN list
                BY <1>2, <2>1
            <3> QED
                BY <2>1, <3>1
        <2>3. InOrder[applied + 1] = Walked(InOrder[applied], applied + 1)
            <3>1. applied + 1 \in Nat /\ applied + 1 # 0 /\ (applied + 1) - 1 = applied
                BY <1>2
            <3> QED
                BY <3>1, InOrderTurns
        <2>4. InOrder' = InOrder
            BY <1>1 DEF InOrder
        <2>5. new = InOrder[applied + 1]
            BY <2>1, <2>2, <2>3
        <2> QED
            BY <1>1, <1>6, <2>1, <2>4, <2>5
    <1> QED
        BY <1>1, <1>2, <1>8, <1>9, <1>10 DEF IInv, Sent

\* Every step of the workers and of the loop preserves the invariant.
LEMMA NextIInv == IInv /\ [Next]_vars => IInv'
    <1> SUFFICES ASSUME IInv, [Next]_vars PROVE IInv'
        OBVIOUS
    <1>1. CASE \E i \in DOMAIN list : Recover(i)
        BY <1>1, RecoverIInv
    <1>2. CASE Apply
        BY <1>2, ApplyIInv
    <1>3. CASE UNCHANGED vars
        <2>1. /\ TypeOK' = TypeOK /\ Sent' = Sent /\ AppliedIndices' = AppliedIndices
              /\ DistinctAuthorities' = DistinctAuthorities /\ InOrder' = InOrder
            BY <1>3 DEF TypeOK, Sent, AppliedIndices, DistinctAuthorities, InOrder, vars
        <2>2. Matches(accounts, refunds, AppliedIndices)' = Matches(accounts, refunds, AppliedIndices)
            BY <1>3, <2>1 DEF Matches, Refunded, vars
        <2> QED
            BY <1>3, <2>1, <2>2 DEF IInv, vars
    <1> QED
        BY <1>1, <1>2, <1>3 DEF Next

\* The invariant holds in every reachable state.
THEOREM Invariance == Spec => []IInv
    BY InitIInv, NextIInv, PTL DEF Spec

\* Every index is recovered once, sent once and applied once, for every list.
THEOREM TypeCorrect == Spec => []TypeOK
    <1>1. IInv => TypeOK
        BY DEF IInv
    <1> QED
        BY <1>1, Invariance, PTL

\* When the loop has ended every index has been applied.
LEMMA DoneMeansAll ==
    ASSUME IInv, Done
    PROVE  AppliedIndices = DOMAIN list
    <1>1. Len(list) \in Nat /\ Len(channel) \in Nat /\ applied \in 0 .. Len(channel)
        BY AuthAssumption DEF IInv, TypeOK
    <1>2. Cardinality(recovering) \in Nat
        BY FS_CardinalityType DEF IInv
    <1>3. Len(channel) = applied /\ Cardinality(recovering) = 0
        BY <1>1, <1>2 DEF Done, IInv, TypeOK
    <1>4. recovering = {}
        BY <1>3, FS_EmptySet DEF IInv
    <1>5. AppliedIndices = Sent
        BY <1>3 DEF AppliedIndices, Sent, IInv, TypeOK
    <1> QED
        BY <1>4, <1>5 DEF IInv

\* For a list of any length whose authorities are distinct, the accounts after
\* apply_eip7702_auth_list do not depend on the order the workers finish in.
THEOREM DistinctAuthoritiesCommute == Spec => []OrderIrrelevant
    <1>1. ASSUME IInv PROVE OrderIrrelevant
        <2>1. SUFFICES ASSUME Done, DistinctAuthorities
              PROVE  \A a \in Accounts :
                       /\ \A i \in DOMAIN list : Authority(list[i]) = a =>
                              accounts[a] = Delegated(genesis[a], list[i])
                       /\ (\A i \in DOMAIN list : Authority(list[i]) # a) =>
                              accounts[a] = genesis[a]
            BY DEF OrderIrrelevant
        <2>2. Matches(accounts, refunds, DOMAIN list)
            BY <1>1, <2>1, DoneMeansAll DEF IInv
        <2> QED
            BY <2>2 DEF Matches
    <1> QED
        BY <1>1, Invariance, PTL

\* For a list of any length, apply_eip7702_auth_list gives the accounts and the gas
\* refund of the walk in order: without par_7702 always, and with it for distinct
\* authorities, in whatever order the workers finish.
THEOREM ListOrderIsMatched == Spec => []MatchesListOrder
    <1>1. ASSUME IInv PROVE MatchesListOrder
        <2>1. SUFFICES ASSUME Done, par => DistinctAuthorities
              PROVE  /\ accounts = InOrder[Len(list)].accounts
                     /\ refunds = InOrder[Len(list)].refunds
            BY DEF MatchesListOrder
        <2>2. CASE ~ par
            <3>1. [accounts |-> accounts, refunds |-> refunds] = InOrder[applied] /\ applied = Len(list)
                BY <1>1, <2>1, <2>2 DEF IInv, Done
            <3>2. [accounts |-> accounts, refunds |-> refunds].accounts = accounts
                  /\ [accounts |-> accounts, refunds |-> refunds].refunds = refunds
                OBVIOUS
            <3> QED
                BY <3>1, <3>2
        <2>3. CASE par
            <3> DEFINE acc == InOrder[Len(list)].accounts
                       ref == InOrder[Len(list)].refunds
            <3>1. TypeOK /\ DistinctAuthorities
                BY <1>1, <2>1, <2>3 DEF IInv
            <3>2. Matches(accounts, refunds, DOMAIN list)
                BY <1>1, <2>1, <3>1, DoneMeansAll DEF IInv
            <3>3. Matches(acc, ref, DOMAIN list)
                BY <3>1, WalkMatches
            <3> HIDE DEF acc, ref
            <3>4. \A a \in Accounts : accounts[a] = acc[a]
                BY <3>2, <3>3 DEF Matches
            <3>5. accounts \in [Accounts -> AccountStates] /\ acc \in [Accounts -> AccountStates]
                BY <3>2, <3>3 DEF Matches
            <3>6. accounts = acc
                BY <3>4, <3>5
            <3>7. refunds = ref
                BY <3>2, <3>3 DEF Matches
            <3> QED
                BY <3>6, <3>7 DEF acc, ref
        <2> QED
            BY <2>2, <2>3
    <1> QED
        BY <1>1, Invariance, PTL

------------------------------------------------------------------------------
(* Block access lists. *)

(* The place of the last write before an index. *)
LastBefore(writes, index, j) ==
    /\ j \in DOMAIN writes /\ writes[j][1] < index
    /\ \A k \in DOMAIN writes : writes[k][1] < index => k <= j

NoneBefore(writes, index) == \A k \in DOMAIN writes : writes[k][1] >= index

(* What get answers when it is right. *)
IsLastWrite(writes, index, answer) ==
    \/ NoneBefore(writes, index) /\ answer = <<>>
    \/ \E j \in DOMAIN writes : LastBefore(writes, index, j) /\ answer = <<writes[j][2]>>

(* The value a read at an index sees, of a field or slot that was original before  *)
(* the block.                                                                 *)
Sees(writes, original, index, value) ==
    \/ NoneBefore(writes, index) /\ value = original
    \/ \E j \in DOMAIN writes : LastBefore(writes, index, j) /\ value = writes[j][2]

-----------------------------------------------------------------------------
(* The place the linear search stops at: the first write at or after the index, or 0. *)
FirstFrom(writes, index) ==
    LET I == {i \in 1..Len(writes) : writes[i][1] >= index} IN IF I # {} THEN Min(I) ELSE 0

(* FirstFrom is the end of the writes before the index, or 0 when all are. *)
LEMMA FirstFromStops ==
    ASSUME NEW Values, NEW writes \in Seq(Nat \X Values), NEW index \in Nat
    PROVE  \/ FirstFrom(writes, index) = 0 /\ \A k \in DOMAIN writes : writes[k][1] < index
           \/ /\ FirstFrom(writes, index) \in DOMAIN writes
              /\ writes[FirstFrom(writes, index)][1] >= index
              /\ \A k \in DOMAIN writes : k < FirstFrom(writes, index) => writes[k][1] < index
<1> DEFINE I == {i \in 1..Len(writes) : writes[i][1] >= index}
           upTo == FirstFrom(writes, index)
<1>1. upTo = IF I # {} THEN CHOOSE x \in I : \A y \in I : x <= y ELSE 0
  BY DEF FirstFrom, Min
<1>2. DOMAIN writes = 1..Len(writes) /\ Len(writes) \in Nat
      /\ \A k \in DOMAIN writes : writes[k][1] \in Nat
  OBVIOUS
<1>3. CASE I = {}
  BY <1>1, <1>2, <1>3
<1>4. CASE I # {}
  <2>1. \E x \in I : \A y \in I : x <= y
    <3>1. I \subseteq Nat
      OBVIOUS
    <3> HIDE DEF I
    <3> QED
      BY Zenon, <1>4, <3>1, LeastNumber
  <2>2. upTo \in I /\ \A y \in I : upTo <= y
    <3> HIDE DEF I
    <3> QED
      BY <1>1, <1>4, <2>1
  <2> HIDE DEF upTo
  <2>3. upTo \in DOMAIN writes /\ writes[upTo][1] >= index
    BY <1>2, <2>2
  <2>4. ASSUME NEW k \in DOMAIN writes, k < upTo PROVE writes[k][1] < index
    <3>1. k \notin I
      BY <1>2, <2>2, <2>3, <2>4
    <3> QED
      BY <1>2, <3>1
  <2> QED
    BY <2>3, <2>4 DEF upTo
<1> QED
  BY <1>3, <1>4

(* get_linear_search is right. *)
LEMMA LinearSearchIsRight ==
    ASSUME NEW Values, NEW writes \in Seq(Nat \X Values), Increasing(writes), NEW index \in Nat
    PROVE  IsLastWrite(writes, index, GetLinearSearch(writes, index))
<1> DEFINE n == FirstFrom(writes, index)
<1>1. /\ DOMAIN writes = 1..Len(writes) /\ Len(writes) \in Nat
      /\ \A k \in DOMAIN writes : writes[k][1] \in Nat
      /\ writes = <<>> <=> Len(writes) = 0
  OBVIOUS
<1>3. \/ n = 0 /\ \A k \in DOMAIN writes : writes[k][1] < index
      \/ /\ n \in DOMAIN writes /\ writes[n][1] >= index
         /\ \A k \in DOMAIN writes : k < n => writes[k][1] < index
  BY Zenon, FirstFromStops
<1>2. GetLinearSearch(writes, index) =
         IF n = 0 THEN IF writes = <<>> THEN <<>> ELSE <<writes[Len(writes)][2]>>
         ELSE IF n = 1 THEN <<>> ELSE <<writes[n - 1][2]>>
  <2> DEFINE from == {i \in DOMAIN writes : writes[i][1] >= index}
  <2>1. n = IF from = {} THEN 0 ELSE Min(from)
    BY <1>1 DEF FirstFrom
  <2>2. n = 0 <=> from = {}
    <3>1. from = {} => n = 0
      BY <2>1
    <3>2. n = 0 => from = {}
      BY <1>1, <1>3
    <3> QED
      BY <3>1, <3>2
  <2> DEFINE last == IF from = {} THEN Len(writes) ELSE Min(from) - 1
  <2>3. GetLinearSearch(writes, index) = IF last = 0 THEN <<>> ELSE <<writes[last][2]>>
    BY DEF GetLinearSearch
  <2>4. last = IF n = 0 THEN Len(writes) ELSE n - 1
    BY <2>1, <2>2
  <2> HIDE DEF n, from, last
  <2> QED
    BY <1>1, <1>3, <2>3, <2>4
<1> HIDE DEF n
<1>4. CASE n = 0 /\ writes = <<>>
  BY <1>2, <1>1, <1>4 DEF IsLastWrite, NoneBefore
<1>5. CASE n = 0 /\ writes # <<>>
  <2>1. LastBefore(writes, index, Len(writes))
    BY <1>1, <1>3, <1>5 DEF LastBefore
  <2> QED
    BY <1>2, <1>1, <1>5, <2>1 DEF IsLastWrite
<1>6. CASE n # 0
  <2>1. ASSUME NEW k \in DOMAIN writes, k >= n PROVE writes[k][1] >= index
    <3>1. CASE k = n
      BY <1>3, <1>6, <3>1
    <3>2. CASE k > n
      <4>1. writes[n][1] < writes[k][1]
        BY <1>1, <1>3, <1>6, <3>2 DEF Increasing
      <4> QED
        BY <1>1, <1>3, <1>6, <4>1
    <3> QED
      BY <1>1, <1>3, <1>6, <2>1, <3>1, <3>2
  <2>2. CASE n = 1
    <3>1. NoneBefore(writes, index)
      BY <1>1, <2>1, <2>2 DEF NoneBefore
    <3> QED
      BY <1>2, <2>2, <3>1 DEF IsLastWrite
  <2>3. CASE n # 1
    <3>1. n - 1 \in DOMAIN writes
      BY <1>1, <1>3, <1>6, <2>3
    <3>2. LastBefore(writes, index, n - 1)
      <4>1. n \in Nat /\ n - 1 < n
        BY <1>1, <1>3, <1>6
      <4>2. writes[n - 1][1] < index
        BY <1>3, <1>6, <3>1, <4>1
      <4>3. ASSUME NEW k \in DOMAIN writes, writes[k][1] < index PROVE k <= n - 1
        <5>1. ~ (writes[k][1] >= index)
          BY <1>1, <4>3
        <5>2. ~ (k >= n)
          BY <2>1, <5>1
        <5> QED
          BY <1>1, <4>1, <5>2
      <4> QED
        BY <3>1, <4>2, <4>3 DEF LastBefore
    <3> QED
      BY <1>2, <1>6, <2>3, <3>1, <3>2 DEF IsLastWrite
  <2> QED
    BY <2>2, <2>3
<1> QED
  BY <1>4, <1>5, <1>6

(* get_binary_search is right: as many writes are before the index as the place of the last. *)
LEMMA BinarySearchIsRight ==
    ASSUME NEW Values, NEW writes \in Seq(Nat \X Values), Increasing(writes), NEW index \in Nat
    PROVE  IsLastWrite(writes, index, GetBinarySearch(writes, index))
<1> DEFINE before == {i \in DOMAIN writes : writes[i][1] < index}
           n == FirstFrom(writes, index)
           m == IF n = 0 THEN Len(writes) ELSE n - 1
<1>2. /\ DOMAIN writes = 1..Len(writes) /\ Len(writes) \in Nat
      /\ \A k \in DOMAIN writes : writes[k][1] \in Nat
  OBVIOUS
<1>1. \/ n = 0 /\ \A k \in DOMAIN writes : writes[k][1] < index
      \/ /\ n \in DOMAIN writes /\ writes[n][1] >= index
         /\ \A k \in DOMAIN writes : k < n => writes[k][1] < index
  BY Zenon, FirstFromStops
<1> HIDE DEF n
<1>3. ASSUME n # 0, NEW k \in DOMAIN writes, k >= n PROVE ~ (writes[k][1] < index)
  <2>1. CASE k = n
    BY <1>2, <1>1, <1>3, <2>1
  <2>2. CASE k > n
    <3>1. writes[n][1] < writes[k][1]
      BY <1>2, <1>1, <1>3, <2>2 DEF Increasing
    <3> QED
      BY <1>2, <1>1, <1>3, <3>1
  <2> QED
    BY <1>2, <1>1, <1>3, <2>1, <2>2
<1>4. m \in 0..Len(writes) /\ before = 1..m
  BY <1>2, <1>1, <1>3
<1>5. m \in Nat /\ (m = 0 => before = {}) /\ (m # 0 => m \in before /\ \A k \in before : k <= m)
  <2> HIDE DEF m, before
  <2>1. m \in Nat
    BY <1>2, <1>4
  <2> QED
    BY <1>4, <2>1
<1>6. Cardinality(before) = m
  <2> HIDE DEF m, before
  <2>1. 1 \in Int /\ m \in Int
    BY <1>5
  <2>2. Cardinality(1..m) = IF 1 > m THEN 0 ELSE m - 1 + 1
    BY <2>1, FS_Interval
  <2> QED
    BY <1>4, <1>5, <2>2
<1>7. GetBinarySearch(writes, index) = IF before = {} THEN <<>> ELSE <<writes[m][2]>>
  BY <1>6 DEF GetBinarySearch
<1>8. CASE m = 0
  <2>1. before = {} /\ NoneBefore(writes, index)
    BY <1>2, <1>8, <1>5 DEF NoneBefore
  <2> QED
    BY <1>7, <2>1 DEF IsLastWrite
<1>9. CASE m # 0
  <2>1. before # {} /\ m \in before /\ \A k \in before : k <= m
    BY <1>9, <1>5
  <2>2. LastBefore(writes, index, m)
    BY <2>1 DEF LastBefore
  <2> QED
    BY <1>7, <2>1, <2>2 DEF IsLastWrite
<1> QED
  BY <1>8, <1>9

(* BalWrites::get answers the last write before its index, or nothing when there is none, *)
(* in every list of increasing indices, whatever the length from which it searches by halves. *)
THEOREM GetFindsLastWrite ==
    ASSUME NEW Values, NEW writes \in Seq(Nat \X Values), Increasing(writes), NEW index \in Nat
    PROVE  IsLastWrite(writes, index, Get(writes, index))
BY Zenon, LinearSearchIsRight, BinarySearchIsRight DEF Get

-----------------------------------------------------------------------------
(* Two lists that agree on a prefix and have nothing before an index behind it show the *)
(* same to a read at that index.                                                     *)
LEMMA SamePast ==
    ASSUME NEW Values, NEW a \in Seq(Nat \X Values), NEW b \in Seq(Nat \X Values),
           NEW i \in Nat, NEW m \in Nat, m <= Len(a), m <= Len(b),
           \A k \in 1..m : a[k] = b[k],
           \A k \in DOMAIN a : k > m => a[k][1] >= i,
           \A k \in DOMAIN b : k > m => b[k][1] >= i,
           NEW original, NEW v
    PROVE  Sees(a, original, i, v) <=> Sees(b, original, i, v)
<1>1. /\ DOMAIN a = 1..Len(a) /\ Len(a) \in Nat /\ \A k \in DOMAIN a : a[k][1] \in Nat
      /\ DOMAIN b = 1..Len(b) /\ Len(b) \in Nat /\ \A k \in DOMAIN b : b[k][1] \in Nat
  OBVIOUS
<1>2. /\ \A k \in DOMAIN a : a[k][1] < i => k \in 1..m /\ k \in DOMAIN b /\ a[k] = b[k]
      /\ \A k \in DOMAIN b : b[k][1] < i => k \in 1..m /\ k \in DOMAIN a /\ a[k] = b[k]
  <2>1. ASSUME NEW k \in DOMAIN a, a[k][1] < i PROVE k \in 1..m /\ k \in DOMAIN b /\ a[k] = b[k]
    <3>1. ~ (k > m)
      BY <1>1, <2>1
    <3>2. k \in 1..m
      BY <1>1, <2>1, <3>1
    <3> QED
      BY <1>1, <3>2
  <2>2. ASSUME NEW k \in DOMAIN b, b[k][1] < i PROVE k \in 1..m /\ k \in DOMAIN a /\ a[k] = b[k]
    <3>1. ~ (k > m)
      BY <1>1, <2>2
    <3>2. k \in 1..m
      BY <1>1, <2>2, <3>1
    <3> QED
      BY <1>1, <3>2
  <2> QED
    BY <2>1, <2>2
<1>3. NoneBefore(a, i) <=> NoneBefore(b, i)
  BY <1>1, <1>2 DEF NoneBefore
<1>4. \A j : LastBefore(a, i, j) <=> LastBefore(b, i, j)
  BY <1>1, <1>2 DEF LastBefore
<1>5. \A j : LastBefore(a, i, j) => a[j] = b[j] /\ j \in DOMAIN a /\ j \in DOMAIN b
  BY <1>2 DEF LastBefore
<1> QED
  BY <1>3, <1>4, <1>5 DEF Sees

(* A read behind a list sees its last write. *)
LEMMA SeesLast ==
    ASSUME NEW Values, NEW a \in Seq(Nat \X Values), a # <<>>, NEW i \in Nat,
           a[Len(a)][1] < i, NEW original
    PROVE  Sees(a, original, i, a[Len(a)][2])
<1>1. DOMAIN a = 1..Len(a) /\ Len(a) \in Nat /\ Len(a) # 0
  OBVIOUS
<1>2. LastBefore(a, i, Len(a)) /\ Len(a) \in DOMAIN a
  BY <1>1 DEF LastBefore
<1> QED
  BY <1>2 DEF Sees

(* What update_with_key promises: the list stays sorted and ends no later than the      *)
(* transaction, the transactions after it see the value and those up to it what they saw. *)
IsUpdated(writes, new, index, original, value, Values) ==
    /\ new \in Seq(Nat \X Values) /\ Increasing(new)
    /\ \A k \in DOMAIN new : new[k][1] <= index
    /\ \A i \in Nat : i > index => Sees(new, original, i, value)
    /\ \A i \in Nat : i <= index =>
          \A v : Sees(new, original, i, v) <=> Sees(writes, original, i, v)

(* Replacing one element of a sequence leaves a sequence of the same length. *)
LEMMA ReplacedInSeq ==
    ASSUME NEW S, NEW s \in Seq(S), NEW i \in 1..Len(s), NEW e \in S
    PROVE  LET r == [s EXCEPT ![i] = e]
           IN  /\ r \in Seq(S) /\ Len(r) = Len(s) /\ r[i] = e
               /\ \A k \in 1..Len(s) : k # i => r[k] = s[k]
OBVIOUS

(* update_with_key, given a list whose writes are not of later transactions, keeps it sorted, *)
(* shows its value to every later transaction and changes nothing for the others, although it  *)
(* drops writes that change nothing and takes one back when a value is restored.              *)
THEOREM UpdateExtendsHistory ==
    ASSUME NEW Values, NEW writes \in Seq(Nat \X Values), Increasing(writes), NEW index \in Nat,
           \A k \in DOMAIN writes : writes[k][1] <= index,
           NEW original \in Values, NEW value \in Values
    PROVE  IsUpdated(writes, Update(writes, index, original, value), index, original, value, Values)
<1> DEFINE n == Len(writes)
           new == Update(writes, index, original, value)
<1>1. /\ DOMAIN writes = 1..n /\ n \in Nat
      /\ \A k \in DOMAIN writes : writes[k][1] \in Nat /\ writes[k][2] \in Values
      /\ n = 0 <=> writes = <<>>
  OBVIOUS
<1>2. CASE n = 0 /\ original = value
  <2>1. new = writes
    BY <1>2 DEF Update
  <2>2. \A i \in Nat : Sees(writes, original, i, value)
    BY <1>1, <1>2 DEF Sees, NoneBefore
  <2> QED
    BY <2>1, <2>2 DEF IsUpdated
<1>3. CASE n = 0 /\ original # value
  <2>1. new = <<<<index, value>>>>
    BY <1>3 DEF Update
  <2> HIDE DEF new
  <2>2. /\ new \in Seq(Nat \X Values) /\ Len(new) = 1 /\ new[1] = <<index, value>> /\ DOMAIN new = 1..1
        /\ new # <<>>
    BY <2>1
  <2>3. Increasing(new) /\ \A k \in DOMAIN new : new[k][1] <= index
    BY <2>2 DEF Increasing
  <2>4. ASSUME NEW i \in Nat, i > index PROVE Sees(new, original, i, value)
    <3>1. new # <<>> /\ new[Len(new)][1] < i /\ new[Len(new)][2] = value
      BY <2>2, <2>4
    <3> QED
      BY Zenon, <2>2, <3>1, SeesLast
  <2>5. ASSUME NEW i \in Nat, i <= index, NEW v
        PROVE  Sees(new, original, i, v) <=> Sees(writes, original, i, v)
    BY <1>1, <1>3, <2>2, <2>5 DEF Sees, NoneBefore, LastBefore
  <2> QED
    BY <2>2, <2>3, <2>4, <2>5 DEF IsUpdated, new
<1>4. CASE n # 0 /\ writes[n][1] # index /\ writes[n][2] = value
  <2>1. new = writes
    BY <1>4 DEF Update
  <2>2. ASSUME NEW i \in Nat, i > index PROVE Sees(writes, original, i, value)
    <3>1. n \in DOMAIN writes /\ writes # <<>>
      BY <1>1, <1>4
    <3>2. writes[n][1] \in Nat /\ writes[n][1] <= index
      BY Zenon, <1>1, <3>1
    <3> HIDE DEF n
    <3>3. writes[n][1] < i
      BY <2>2, <3>2
    <3> QED
      BY Zenon, <1>4, <3>1, <3>3, SeesLast DEF n
  <2> QED
    BY <2>1, <2>2 DEF IsUpdated
<1>5. CASE n # 0 /\ writes[n][1] # index /\ writes[n][2] # value
  <2>1. new = Append(writes, <<index, value>>)
    BY <1>5 DEF Update
  <2> HIDE DEF new
  <2>2. /\ new \in Seq(Nat \X Values) /\ Len(new) = n + 1 /\ new[n + 1] = <<index, value>>
        /\ DOMAIN new = 1..(n + 1) /\ \A k \in 1..n : new[k] = writes[k]
    BY <1>1, <2>1
  <2>3. \A k \in 1..n : writes[k][1] < index
    <3> SUFFICES ASSUME NEW k \in 1..n PROVE writes[k][1] < index
      OBVIOUS
    <3>1. n \in DOMAIN writes /\ k \in DOMAIN writes /\ writes[n][1] < index
      <4>1. n \in DOMAIN writes /\ k \in DOMAIN writes
        BY <1>1, <1>5
      <4>2. writes[n][1] \in Nat /\ writes[n][1] <= index /\ writes[n][1] # index
        BY <1>1, <1>5, <4>1
      <4> HIDE DEF n
      <4> QED
        BY <4>1, <4>2
    <3>2. k < n => writes[k][1] < writes[n][1]
      BY <3>1 DEF Increasing
    <3> HIDE DEF n
    <3> QED
      BY <1>1, <3>1, <3>2
  <2>4. Increasing(new) /\ \A k \in DOMAIN new : new[k][1] <= index
    <3>1. \A j, k \in 1..n : j < k => writes[j][1] < writes[k][1]
      BY <1>1 DEF Increasing
    <3> HIDE DEF n
    <3>2. ASSUME NEW j \in DOMAIN new, NEW k \in DOMAIN new, j < k PROVE new[j][1] < new[k][1]
      <4>1. j \in 1..n /\ (k \in 1..n \/ k = n + 1)
        BY <1>1, <2>2, <3>2
      <4>2. CASE k \in 1..n
        <5>1. new[j] = writes[j] /\ new[k] = writes[k]
          BY <2>2, <4>1, <4>2
        <5>2. writes[j][1] < writes[k][1]
          BY <3>1, <3>2, <4>1, <4>2
        <5> QED
          BY <5>1, <5>2
      <4>3. CASE k = n + 1
        BY <2>2, <2>3, <4>1, <4>3
      <4> QED
        BY <4>1, <4>2, <4>3
    <3>3. ASSUME NEW k \in DOMAIN new PROVE new[k][1] <= index
      <4>1. k \in 1..n \/ k = n + 1
        BY <1>1, <2>2
      <4> QED
        BY <1>1, <2>2, <2>3, <4>1
    <3> QED
      BY <3>2, <3>3 DEF Increasing
  <2>5. ASSUME NEW i \in Nat, i > index PROVE Sees(new, original, i, value)
    <3>1. new # <<>> /\ new[Len(new)][1] < i /\ new[Len(new)][2] = value
      BY <1>1, <2>2, <2>5
    <3> QED
      BY Zenon, <2>2, <3>1, SeesLast
  <2>6. ASSUME NEW i \in Nat, i <= index, NEW v
        PROVE  Sees(new, original, i, v) <=> Sees(writes, original, i, v)
    <3>1. /\ n <= Len(new) /\ n <= Len(writes)
          /\ \A k \in DOMAIN new : k > n => new[k][1] >= i
          /\ \A k \in DOMAIN writes : k > n => writes[k][1] >= i
      BY <1>1, <2>2, <2>6
    <3> QED
      BY ZenonT(30), <1>1, <2>2, <3>1, SamePast
  <2> QED
    BY <2>2, <2>4, <2>5, <2>6 DEF IsUpdated, new
<1> DEFINE previous == IF n > 1 THEN writes[n - 1][2] ELSE original
<1>6. CASE n # 0 /\ writes[n][1] = index /\ previous = value
  <2>1. new = SubSeq(writes, 1, n - 1)
    BY <1>6 DEF Update
  <2> HIDE DEF new
  <2>2. /\ new \in Seq(Nat \X Values) /\ Len(new) = n - 1 /\ DOMAIN new = 1..(n - 1)
        /\ \A k \in 1..(n - 1) : new[k] = writes[k]
    BY <1>1, <1>6, <2>1
  <2>3. Increasing(new) /\ \A k \in DOMAIN new : new[k][1] <= index
    <3>1. \A k \in DOMAIN new : k \in DOMAIN writes /\ new[k] = writes[k]
      <4> HIDE DEF n
      <4> QED
        BY <1>1, <2>2
    <3> QED
      BY <3>1 DEF Increasing
  <2>4. ASSUME NEW i \in Nat, i > index PROVE Sees(new, original, i, value)
    <3>1. CASE n > 1
      <4>1. /\ new # <<>> /\ new[Len(new)][1] < i /\ new[Len(new)][2] = value
        <5>1. n - 1 \in 1..(n - 1) /\ n - 1 \in DOMAIN writes /\ writes[n - 1][2] = value
              /\ writes[n - 1][1] <= index /\ writes[n - 1][1] \in Nat
          <6>1. writes[n - 1][2] = value
            BY <1>6, <3>1
          <6> HIDE DEF n, previous
          <6>2. n - 1 \in 1..(n - 1) /\ n - 1 \in DOMAIN writes
            BY <1>1, <3>1
          <6> QED
            BY <1>1, <6>1, <6>2
        <5> HIDE DEF n, previous
        <5>2. new # <<>> /\ new[Len(new)] = writes[n - 1]
          <6>1. new[n - 1] = writes[n - 1] /\ Len(new) = n - 1 /\ n - 1 > 0
            BY <1>1, <2>2, <3>1, <5>1
          <6> QED
            BY <6>1
        <5> QED
          BY <2>4, <5>1, <5>2
      <4> QED
        BY Zenon, <2>2, <4>1, SeesLast
    <3>2. CASE ~ (n > 1)
      <4>1. NoneBefore(new, i) /\ value = original
        BY <1>1, <1>6, <2>2, <3>2 DEF NoneBefore
      <4> QED
        BY <4>1 DEF Sees
    <3> QED
      BY <3>1, <3>2
  <2>5. ASSUME NEW i \in Nat, i <= index, NEW v
        PROVE  Sees(new, original, i, v) <=> Sees(writes, original, i, v)
    <3>1. /\ n - 1 \in Nat /\ n - 1 <= Len(new) /\ n - 1 <= Len(writes)
          /\ \A k \in DOMAIN new : k > n - 1 => new[k][1] >= i
          /\ \A k \in DOMAIN writes : k > n - 1 => writes[k][1] >= i
      BY <1>1, <1>6, <2>2, <2>5
    <3>2. \A k \in 1..(n - 1) : new[k] = writes[k]
      BY <2>2
    <3> HIDE DEF n, previous
    <3> QED
      BY Zenon, <2>2, <3>1, <3>2, SamePast
  <2> QED
    BY <2>2, <2>3, <2>4, <2>5 DEF IsUpdated, new
<1>7. CASE n # 0 /\ writes[n][1] = index /\ previous # value
  <2>1. new = [writes EXCEPT ![n] = <<index, value>>]
    BY <1>7 DEF Update
  <2> HIDE DEF new
  <2>2. /\ new \in Seq(Nat \X Values) /\ Len(new) = n /\ DOMAIN new = 1..n
        /\ new[n] = <<index, value>> /\ \A k \in 1..(n - 1) : new[k] = writes[k]
    <3>1. n \in 1..n /\ <<index, value>> \in Nat \X Values
      BY <1>1, <1>7
    <3>2. /\ new \in Seq(Nat \X Values) /\ Len(new) = n /\ new[n] = <<index, value>>
          /\ \A k \in 1..n : k # n => new[k] = writes[k]
      BY <2>1, <3>1, ReplacedInSeq
    <3> HIDE DEF n
    <3>3. \A k \in 1..(n - 1) : k \in 1..n /\ k # n
      BY <1>1
    <3>4. DOMAIN new = 1..n
      BY <3>2
    <3> QED
      BY Zenon, <3>2, <3>3, <3>4
  <2>3. \A k \in 1..n : new[k][1] = writes[k][1]
    <3>1. \A k \in 1..n : k = n \/ k \in 1..(n - 1)
      <4> HIDE DEF n
      <4> QED
        BY <1>1
    <3>2. new[n][1] = writes[n][1]
      BY <1>7, <2>2
    <3> HIDE DEF n
    <3> QED
      BY <2>2, <3>1, <3>2
  <2>4. Increasing(new) /\ \A k \in DOMAIN new : new[k][1] <= index
    BY Zenon, <1>1, <2>2, <2>3 DEF Increasing
  <2>5. ASSUME NEW i \in Nat, i > index PROVE Sees(new, original, i, value)
    <3>1. new # <<>> /\ new[Len(new)][1] < i /\ new[Len(new)][2] = value
      BY <1>1, <1>7, <2>2, <2>5
    <3> QED
      BY Zenon, <2>2, <3>1, SeesLast
  <2>6. ASSUME NEW i \in Nat, i <= index, NEW v
        PROVE  Sees(new, original, i, v) <=> Sees(writes, original, i, v)
    <3>1. /\ n - 1 \in Nat /\ n - 1 <= Len(new) /\ n - 1 <= Len(writes)
          /\ \A k \in DOMAIN new : k > n - 1 => new[k][1] >= i
          /\ \A k \in DOMAIN writes : k > n - 1 => writes[k][1] >= i
      BY <1>1, <1>7, <2>2, <2>6
    <3>2. \A k \in 1..(n - 1) : new[k] = writes[k]
      BY <2>2
    <3> HIDE DEF n, previous
    <3> QED
      BY Zenon, <2>2, <3>1, <3>2, SamePast
  <2> QED
    BY <2>2, <2>4, <2>5, <2>6 DEF IsUpdated, new
<1> QED
  BY <1>2, <1>3, <1>4, <1>5, <1>6, <1>7

==============================================================================
