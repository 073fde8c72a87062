----------------------------- MODULE EvmProofs ------------------------------
(***************************************************************************)
(* The theorems about Evm, for every network, block, transaction and       *)
(* sequence of calls.  The steps before them (EvmFacts, EvmSteps,          *)
(* EvmHandled, EvmMoney) assume of the sums over the accounts that they    *)
(* add up; here that is proved of every finite set. With the prices of     *)
(* EvmGas alone: writing one slot again and again in a transaction, with   *)
(* any values and any number of times, under every hard fork, never takes  *)
(* back more than it gave, and a slot that is restored has cost what       *)
(* reading it costs.                                                       *)
(***************************************************************************)
EXTENDS EvmMoney, FiniteSetTheorems

(* The provers a leaf that names none is given to, in turn. *)
USE SMTT(20), ZenonT(20), Z3T(20)

(* A set of numbers has a least element; this stands in for induction. *)
LEMMA LeastNumber ==
    ASSUME NEW N, N \subseteq Nat, N # {}
    PROVE  \E m \in N : \A k \in N : m <= k
<1>1. \E m \in N : \A k \in N : ~ (<<k, m>> \in OpToRel(<, Nat))
  BY ZenonT(30), NatLessThanWellFounded, WFMin
<1>2. PICK m \in N : \A k \in N : ~ (<<k, m>> \in OpToRel(<, Nat))
  BY Zenon, <1>1
<1>3. OpToRel(<, Nat) = {ss \in Nat \X Nat : ss[1] < ss[2]}
  BY DEF OpToRel
<1>4. \A k \in N : k \in Nat /\ ~ (k < m)
  BY ZenonT(30), <1>2, <1>3
<1>5. \A k \in N : m <= k
  BY <1>4
<1> QED
  BY <1>5

(* the element a fold takes next *)
Chosen(s) == CHOOSE x \in s : TRUE

(* the subsets of a set *)
Parts(S) == SUBSET S

(* A function of the sets D that adds f up the way the fold does. *)
AddsUp(F, f, D) ==
    /\ F = [s \in D |-> F[s]]
    /\ \A s \in D : F[s] = IF s = {} THEN 0 ELSE f[Chosen(s)] + F[s \ {Chosen(s)}]

(* the subsets of S of at most n elements *)
UpTo(S, n) == {s \in Parts(S) : Cardinality(s) <= n}

(* A finite set that is not empty loses one element when the chosen one is taken out. *)
LEMMA ChosenIsTaken ==
    ASSUME NEW S, IsFiniteSet(S), NEW s \in Parts(S)
    PROVE  /\ IsFiniteSet(s) /\ Cardinality(s) \in Nat
           /\ s = {} <=> Cardinality(s) = 0
           /\ s # {} => /\ Chosen(s) \in s /\ Chosen(s) \in S /\ s \ {Chosen(s)} \in Parts(S)
                        /\ Cardinality(s \ {Chosen(s)}) = Cardinality(s) - 1
<1>1. IsFiniteSet(s) /\ Cardinality(s) \in Nat
  BY FS_Subset, FS_CardinalityType DEF Parts
<1>2. s = {} <=> Cardinality(s) = 0
  BY <1>1, FS_EmptySet
<1>3. ASSUME s # {} PROVE Chosen(s) \in s
  BY <1>3 DEF Chosen
<1>4. ASSUME s # {} PROVE Cardinality(s \ {Chosen(s)}) = Cardinality(s) - 1
  BY ZenonT(30), <1>1, <1>3, <1>4, FS_RemoveElement
<1> QED
  BY <1>1, <1>2, <1>3, <1>4 DEF Parts

(* There is such a function on the subsets of a finite set. *)
LEMMA AddsUpExists ==
    ASSUME NEW S, IsFiniteSet(S), NEW f
    PROVE  \E F : AddsUp(F, f, Parts(S))
<1> DEFINE Missing == {n \in Nat : ~ \E F : AddsUp(F, f, UpTo(S, n))}
<1>1. Missing = {}
  <2> SUFFICES ASSUME Missing # {} PROVE FALSE
    OBVIOUS
  <2>1. PICK n \in Missing : \A k \in Missing : n <= k
    <3>1. Missing \subseteq Nat
      OBVIOUS
    <3> HIDE DEF Missing
    <3> QED
      BY ZenonT(30), <3>1, LeastNumber
  <2>2. n \in Nat /\ ~ \E F : AddsUp(F, f, UpTo(S, n))
    BY <2>1
  <2>3. CASE n = 0
    <3> DEFINE F == [s \in UpTo(S, 0) |-> 0]
    <3>1. ASSUME NEW s \in UpTo(S, 0) PROVE s = {}
      <4>1. s \in Parts(S) /\ Cardinality(s) <= 0
        BY DEF UpTo
      <4>2. Cardinality(s) \in Nat /\ (s = {} <=> Cardinality(s) = 0)
        BY ZenonT(30), <4>1, ChosenIsTaken
      <4> QED
        BY <4>1, <4>2
    <3>2. AddsUp(F, f, UpTo(S, 0))
      BY <3>1 DEF AddsUp
    <3> QED
      BY <2>2, <2>3, <3>2
  <2>4. CASE n # 0
    <3>1. n - 1 \in Nat /\ n - 1 \notin Missing
      BY <2>1, <2>2, <2>4
    <3>2. PICK G : AddsUp(G, f, UpTo(S, n - 1))
      BY <3>1
    <3> DEFINE F == [s \in UpTo(S, n) |-> IF s = {} THEN 0 ELSE f[Chosen(s)] + G[s \ {Chosen(s)}]]
    <3>3. ASSUME NEW s \in UpTo(S, n), s # {}
          PROVE  /\ s \ {Chosen(s)} \in UpTo(S, n - 1)
                 /\ s \ {Chosen(s)} \in UpTo(S, n)
      BY <2>2, <3>3, ChosenIsTaken DEF UpTo
    <3>4. ASSUME NEW s \in UpTo(S, n - 1) PROVE s \in UpTo(S, n) /\ F[s] = G[s]
      <4>1. s \in UpTo(S, n)
        <5>1. s \in Parts(S) /\ Cardinality(s) <= n - 1
          BY <3>4 DEF UpTo
        <5>2. Cardinality(s) \in Nat
          BY ZenonT(30), <5>1, ChosenIsTaken
        <5>3. Cardinality(s) <= n
          BY <2>2, <5>1, <5>2
        <5> QED
          BY <5>1, <5>3 DEF UpTo
      <4> QED
        BY ZenonT(30), <3>2, <4>1 DEF AddsUp
    <3>5. AddsUp(F, f, UpTo(S, n))
      <4>1. ASSUME NEW s \in UpTo(S, n), s # {} PROVE F[s] = f[Chosen(s)] + F[s \ {Chosen(s)}]
        BY ZenonT(30), <3>3, <3>4, <4>1
      <4>2. ASSUME NEW s \in UpTo(S, n), s = {} PROVE F[s] = 0
        BY <4>2
      <4> HIDE DEF F
      <4>3. F = [s \in UpTo(S, n) |-> F[s]]
        BY DEF F
      <4> QED
        BY <4>1, <4>2, <4>3 DEF AddsUp
    <3> QED
      BY <2>2, <3>5
  <2> QED
    BY <2>3, <2>4
<1>2. Cardinality(S) \in Nat
  BY FS_CardinalityType
<1>3. PICK F : AddsUp(F, f, UpTo(S, Cardinality(S)))
  BY <1>1, <1>2
<1>4. UpTo(S, Cardinality(S)) = Parts(S)
  BY FS_Subset DEF UpTo, Parts
<1> QED
  BY <1>3, <1>4

(* What a fold has computed for each of the subsets of S. *)
PartialSums(F, f, S) ==
    \A s \in Parts(S) : /\ s = {} => F[s] = 0
                        /\ s # {} => F[s] = f[Chosen(s)] + F[s \ {Chosen(s)}]

(* SumFunction is the last of these. *)
LEMMA SumAddsUp ==
    ASSUME NEW S, IsFiniteSet(S), NEW f, DOMAIN f = S
    PROVE  \E F : SumFunction(f) = F[S] /\ PartialSums(F, f, S)
<1> DEFINE Body(F) == [s \in Parts(S) |-> IF s = {} THEN 0 ELSE f[CHOOSE x \in s : TRUE] + F[s \ {CHOOSE x \in s : TRUE}]]
           iter == CHOOSE F : F = Body(F)
<1>1. SumFunction(f) = iter[S]
  BY DEF SumFunction, SumFunctionOnSet, FoldFunctionOnSet, MapThenFoldSet, Parts
<1>2. \E F : F = Body(F)
  <2>1. PICK F : AddsUp(F, f, Parts(S))
    BY AddsUpExists
  <2>2. F = [s \in Parts(S) |-> F[s]]
    BY <2>1 DEF AddsUp
  <2>3. ASSUME NEW s \in Parts(S) PROVE F[s] = Body(F)[s]
    BY ZenonT(30), <2>1, <2>3 DEF AddsUp, Chosen
  <2>4. Body(F) = [s \in Parts(S) |-> Body(F)[s]]
    OBVIOUS
  <2> HIDE DEF Body
  <2>5. F = Body(F)
    BY <2>2, <2>3, <2>4
  <2> QED
    BY <2>5
<1>3. iter = Body(iter)
  <2> HIDE DEF Body
  <2> QED
    BY <1>2
<1>4. ASSUME NEW s \in Parts(S)
      PROVE  /\ s = {} => iter[s] = 0
             /\ s # {} => iter[s] = f[Chosen(s)] + iter[s \ {Chosen(s)}]
  <2>1. iter[s] = Body(iter)[s]
    <3> HIDE DEF iter, Body
    <3> QED
      BY <1>3
  <2> HIDE DEF iter
  <2> QED
    BY <2>1 DEF Chosen
<1> HIDE DEF iter
<1> QED
  BY <1>1, <1>4 DEF PartialSums

(* The sum of numbers is a number. *)
LEMMA SumIsNumber ==
    ASSUME NEW S, IsFiniteSet(S), NEW f \in [S -> Int]
    PROVE  SumFunction(f) \in Int
<1>1. PICK F : SumFunction(f) = F[S] /\ PartialSums(F, f, S)
  BY SumAddsUp
<1> DEFINE Bad == {n \in Nat : \E s \in Parts(S) : Cardinality(s) = n /\ F[s] \notin Int}
<1>2. Bad = {}
  <2> SUFFICES ASSUME Bad # {} PROVE FALSE
    OBVIOUS
  <2>1. PICK n \in Bad : \A k \in Bad : n <= k
    <3>1. Bad \subseteq Nat
      OBVIOUS
    <3> HIDE DEF Bad
    <3> QED
      BY ZenonT(30), <3>1, LeastNumber
  <2>2. PICK s \in Parts(S) : Cardinality(s) = n /\ F[s] \notin Int
    BY <2>1
  <2>3. s # {} /\ F[s] = f[Chosen(s)] + F[s \ {Chosen(s)}]
    BY <1>1, <2>2 DEF PartialSums
  <2>4. /\ n \in Nat /\ Chosen(s) \in S /\ s \ {Chosen(s)} \in Parts(S)
        /\ Cardinality(s \ {Chosen(s)}) = n - 1 /\ n - 1 \in Nat
    <3>1. /\ Cardinality(s) \in Nat /\ Cardinality(s) # 0 /\ Chosen(s) \in s /\ Chosen(s) \in S
          /\ s \ {Chosen(s)} \in Parts(S) /\ Cardinality(s \ {Chosen(s)}) = Cardinality(s) - 1
      BY <2>3, ChosenIsTaken
    <3> QED
      BY <2>2, <3>1
  <2>5. ~ (n - 1 \in Bad)
    BY <2>1, <2>4
  <2>6. F[s \ {Chosen(s)}] \in Int
    BY <2>4, <2>5
  <2> QED
    BY <2>2, <2>3, <2>4, <2>6
<1>3. S \in Parts(S) /\ Cardinality(S) \in Nat
  BY FS_CardinalityType DEF Parts
<1> QED
  BY <1>1, <1>2, <1>3

(* One value more or less is so much more or less in the sum. *)
LEMMA SumOfChange ==
    ASSUME NEW S, IsFiniteSet(S), NEW f \in [S -> Int], NEW g \in [S -> Int], NEW x \in S,
           \A y \in S : y # x => g[y] = f[y]
    PROVE  SumFunction(g) = SumFunction(f) + (g[x] - f[x])
<1>1. PICK F : SumFunction(f) = F[S] /\ PartialSums(F, f, S)
  BY SumAddsUp
<1>2. PICK G : SumFunction(g) = G[S] /\ PartialSums(G, g, S)
  BY SumAddsUp
<1> DEFINE Change(s) == IF x \in s THEN g[x] - f[x] ELSE 0
           Right(s) == F[s] \in Int /\ G[s] = F[s] + Change(s)
           Bad == {n \in Nat : \E s \in Parts(S) : Cardinality(s) = n /\ ~ Right(s)}
<1>3. Bad = {}
  <2> SUFFICES ASSUME Bad # {} PROVE FALSE
    OBVIOUS
  <2>1. PICK n \in Bad : \A k \in Bad : n <= k
    <3>1. Bad \subseteq Nat
      OBVIOUS
    <3> HIDE DEF Bad
    <3> QED
      BY ZenonT(30), <3>1, LeastNumber
  <2>2. PICK s \in Parts(S) : Cardinality(s) = n /\ ~ Right(s)
    BY <2>1
  <2>3. CASE s = {}
    <3>1. Change(s) = 0
      BY <2>3
    <3> QED
      BY <1>1, <1>2, <2>2, <2>3, <3>1 DEF PartialSums
  <2>4. CASE s # {}
    <3> DEFINE c == Chosen(s)
               t == s \ {c}
    <3>1. F[s] = f[c] + F[t] /\ G[s] = g[c] + G[t]
      BY <1>1, <1>2, <2>4 DEF PartialSums
    <3>2. /\ n \in Nat /\ c \in s /\ c \in S /\ t \in Parts(S)
          /\ Cardinality(t) = n - 1 /\ n - 1 \in Nat
      <4>1. /\ Cardinality(s) \in Nat /\ Cardinality(s) # 0 /\ Chosen(s) \in s /\ Chosen(s) \in S
            /\ s \ {Chosen(s)} \in Parts(S) /\ Cardinality(s \ {Chosen(s)}) = Cardinality(s) - 1
        BY ZenonT(30), <2>4, ChosenIsTaken
      <4> QED
        BY <2>2, <4>1
    <3>3. ~ (n - 1 \in Bad)
      BY <2>1, <3>2
    <3>4. Right(t)
      BY <3>2, <3>3
    <3>5. CASE c = x
      <4>1. Change(t) = 0 /\ Change(s) = g[x] - f[x]
        BY <3>2, <3>5
      <4>2. g[x] \in Int /\ f[x] \in Int
        OBVIOUS
      <4> HIDE DEF Change, c, t
      <4> QED
        BY <2>2, <3>1, <3>4, <3>5, <4>1, <4>2
    <3>6. CASE c # x
      <4>1. Change(t) = Change(s) /\ g[c] = f[c] /\ f[c] \in Int /\ Change(s) \in Int
        BY <3>2, <3>6
      <4> HIDE DEF Change, c, t
      <4> QED
        BY <2>2, <3>1, <3>4, <4>1
    <3> QED
      BY <3>5, <3>6
  <2> QED
    BY <2>3, <2>4
<1>4. S \in Parts(S) /\ Cardinality(S) \in Nat
  BY FS_CardinalityType DEF Parts
<1>5. Right(S)
  BY <1>3, <1>4
<1> QED
  BY <1>1, <1>2, <1>5

(* So the balances and the nonces of the accounts add up. *)
LEMMA AccountsAddUp == SumsAddUp
<1>1. IsFiniteSet(Addresses)
  BY GenesisAssumption
<1> QED
  BY <1>1, SumIsNumber, SumOfChange DEF SumsAddUp

(* The transaction that is built always has its type. *)
LEMMA AlwaysDrafted == Spec => []Drafted
<1>1. Init => Drafted
  <2> SUFFICES ASSUME Init PROVE Drafted
    OBVIOUS
  <2>1. env \in EnvType /\ block = env.block
    BY EnvsAssumption DEF Init
  <2>2. block \in BlockType
    BY <2>1 DEF EnvType
  <2> QED
    BY <2>2, BuildersStart DEF Init, Drafted
<1> QED
  BY <1>1, DraftedStep, PTL DEF Spec

(* BuildersAgree of Evm, for every sequence of calls of the setters: filling in agrees with    *)
(* building, and completes every type that is asked for.                                    *)
THEOREM Builders == Spec => []BuildersAgree
<1>1. Drafted => BuildersAgree
  <2> SUFFICES ASSUME Drafted PROVE BuildersAgree
    OBVIOUS
  <2>1. draft \in TxType /\ draft.base \in TxEnvType
    BY DEF Drafted, TxType
  <2> QED
    BY <2>1, BuildAgrees, OpBuildAgrees, FillIsComplete DEF BuildersAgree
<1> QED
  BY <1>1, AlwaysDrafted, PTL

(* SpendingFits of Evm, for every transaction that can be built and every block: what an      *)
(* accepted transaction will spend does not overflow and is at most what was checked.        *)
THEOREM Spending == Spec => []SpendingFits
<1>1. Drafted => SpendingFits
  <2> SUFFICES ASSUME Drafted PROVE SpendingFits
    OBVIOUS
  <2> DEFINE b == draft.base
             t == build(b).tx
  <2>1. b \in TxEnvType /\ block.basefee \in Nat /\ block.blob_price \in Option
    BY DEF Drafted, TxType, BlockType
  <2>2. /\ t.gas_limit = b.gas_limit /\ t.gas_price = b.gas_price /\ t.value = b.value
        /\ t.max_blob_fee = b.max_blob_fee /\ t.priority = b.priority /\ t.blobs = b.blobs
    <3>0. {"type", "gas_limit", "gas_price", "value", "max_blob_fee", "priority", "blobs"} \subseteq DOMAIN b
      BY <2>1 DEF TxEnvType
    <3> HIDE DEF b
    <3>1. Typed(b).gas_limit = b.gas_limit /\ Typed(b).gas_price = b.gas_price /\ Typed(b).value = b.value
          /\ Typed(b).max_blob_fee = b.max_blob_fee /\ Typed(b).priority = b.priority
          /\ Typed(b).blobs = b.blobs /\ DOMAIN Typed(b) = DOMAIN b
      BY <3>0 DEF Typed
    <3>2. ASSUME NEW u,
                 {"type", "gas_limit", "gas_price", "value", "max_blob_fee", "priority", "blobs"} \subseteq DOMAIN u
          PROVE  LET d == derive_tx_type(u).tx
                 IN  /\ d.gas_limit = u.gas_limit /\ d.gas_price = u.gas_price /\ d.value = u.value
                     /\ d.max_blob_fee = u.max_blob_fee /\ d.priority = u.priority /\ d.blobs = u.blobs
      <4>1. PICK ty : derive_tx_type(u).tx = [u EXCEPT !.type = ty]
        BY ZenonT(30) DEF derive_tx_type, Built, BuildError
      <4> QED
        BY <3>2, <4>1
    <3> QED
      BY ZenonT(30), <3>0, <3>1, <3>2 DEF build, Built, BuildError
  <2>3. Numbers(t, block.basefee, Or(block.blob_price, 0))
    <3>1. /\ b.gas_limit \in Nat /\ b.gas_price \in Nat /\ b.value \in Nat /\ b.max_blob_fee \in Nat
          /\ b.priority \in Nat \cup {None} /\ Len(b.blobs) \in Nat
      BY <2>1, TxNumbers DEF Option
    <3> HIDE DEF b, t
    <3> QED
      BY <2>1, <2>2, <3>1, WidthAssumption DEF Numbers, Or, Option
  <2> HIDE DEF t, b
  <2>4. ASSUME validate_env(t, env.cfg, block) = "none", ensure_enough_balance(t, MaxU256) = "none"
        PROVE  effective_balance_spending(t, block.basefee, Or(block.blob_price, 0))
                   \in t.value..max_balance_spending(t)
    BY <2>3, <2>4, AcceptedSpendingFits
  <2> QED
    BY ZenonT(30), <2>4 DEF SpendingFits, t, b
<1> QED
  BY <1>1, AlwaysDrafted, PTL

(* The invariant of the handler: the types of its state, where a call is and what it carries,   *)
(* the L1 fees of the block it is in, the gas of its transaction, and its nonces.            *)
THEOREM AlwaysHandled ==
    ASSUME ~ OpDbErrors
    PROVE  Spec => []Handled
<1>1. Init => Handled
  BY AccountsAddUp, HandledInit
<1>2. Handled /\ [Next]_vars => Handled'
  BY AccountsAddUp, HandledStep
<1> QED
  BY <1>1, <1>2, PTL DEF Spec

(* AllOrNothing of Evm, for every network, block, transaction and sequence of calls: a        *)
(* transaction that fails leaves the journal as it was, a batch that fails leaves the          *)
(* database as it was, and one that is committed has used one nonce for each transaction.     *)
THEOREM AllOrNothingHolds ==
    ASSUME ~ OpDbErrors
    PROVE  Spec => []AllOrNothing
<1>1. Init => AllOrNothing
  BY Zenon DEF Init, AllOrNothing
<1> QED
  BY <1>1, AlwaysHandled, AllOrNothingStep, PTL DEF Spec

(* ImplementsLedger of Evm: the machine with its calls, handler and journal implements the    *)
(* ledger of whole transactions of TxLedger.                                               *)
THEOREM LedgerImplemented ==
    ASSUME ~ OpDbErrors
    PROVE  Spec => ImplementsLedger
<1>1. Init => Ledger!Init
  BY DEF Init, Ledger!Init
<1>2. Handled /\ [Next]_vars => [Ledger!Next]_(<<db.acc, base.acc>>)
  BY AccountsAddUp, LedgerStep
<1> QED
  BY <1>1, <1>2, AlwaysHandled, PTL DEF Spec, ImplementsLedger, Ledger!Spec

(* The invariant of the money always holds. *)
LEMMA AlwaysAccounted ==
    ASSUME ~ OpDbErrors
    PROVE  Spec => []Accounted
<1>1. Init => Accounted
  <2> SUFFICES ASSUME Init PROVE Accounted
    OBVIOUS
  <2>1. pc = "idle" /\ view = db /\ base = db /\ db.acc = Genesis
        /\ db.supply = SumFunction([a \in Addresses |-> Genesis[a].balance])
    BY DEF Init
  <2>2. Balances(db) = db.supply /\ Balances(base) = base.supply
    BY <2>1 DEF Balances
  <2> QED
    BY AccountsAddUp, <2>1, <2>2, HandledInit DEF Accounted, CallerInv, Money, Paid
<1>2. Accounted /\ [Next]_vars => Accounted'
  <2> SUFFICES ASSUME Accounted, [Next]_vars PROVE Accounted'
    OBVIOUS
  <2>1. Handled /\ CallerInv /\ Money /\ Paid
    BY DEF Accounted
  <2>2. Handled' /\ Clean'
    <3>1. Handled'
      BY AccountsAddUp, <2>1, HandledStep
    <3> QED
      BY <3>1 DEF Handled
  <2>3. CallerInv' /\ Paid'
    BY AccountsAddUp, <2>1, CallerInvStep, PaidStep
  <2>4. Money'
    BY AccountsAddUp, <2>1, <2>2, MoneyStep
  <2> QED
    BY <2>2, <2>3, <2>4 DEF Accounted
<1> QED
  BY <1>1, <1>2, PTL DEF Spec

(* Conserved of Evm, for every network, block, transaction, price and sequence of calls: no     *)
(* balance goes below zero, and after every transaction the balances add up to what there       *)
(* was, with what deposits minted and without the base fees and blob fees of the reported gas. *)
THEOREM MoneyIsConserved ==
    ASSUME ~ OpDbErrors
    PROVE  Spec => []Conserved
<1>1. Accounted => Conserved
  <2> SUFFICES ASSUME Accounted PROVE Conserved
    OBVIOUS
  <2>1. Types /\ Fees /\ Clean /\ Money
    BY DEF Accounted, Handled
  <2>2. \A v \in {db, view, base} : \A a \in Addresses : v.acc[a].balance \in Nat /\ v.acc[a].nonce \in Nat
    BY AccountsAddUp, <2>1, StateParts DEF Types
  <2>3. l1.l2_block # None /\ OpEnabled(env.op, "ISTHMUS") => l1.operator_fee_scalar # None
    BY <2>1 DEF Fees, None
  <2>4. TypeOK
    BY <2>1, <2>2, <2>3 DEF TypeOK, Types
  <2> QED
    BY <2>1, <2>4 DEF Conserved, Clean, Money
<1> QED
  BY <1>1, AlwaysAccounted, PTL

(* CallerPays of Evm, likewise: the caller pays for the gas the result reports, although it was  *)
(* charged for the gas limit and given back the rest, on Optimism by the attributes of the      *)
(* block although they are fetched once and the L1 cost is remembered between the phases.        *)
THEOREM CallersPay ==
    ASSUME ~ OpDbErrors
    PROVE  Spec => []CallerPays
<1>1. Accounted => CallerPays
  <2> SUFFICES ASSUME Accounted, pc = "return", call.error = "none", ~ SystemCall, StrictCfg,
                      Caller \notin {block.beneficiary} \cup Vaults,
                      NEW info, info = try_fetch(L1BlockStorage(db.attrs), block.number, env.op)
               PROVE  last.before.acc[Caller].balance - last.after.acc[Caller].balance
                        = last.run.sent
                          + (IF Deposit THEN - Minted
                             ELSE last.used * Price + BlobFee
                                  + (IF ~ IsOp THEN 0
                                     ELSE l1_cost(info, tx.envelope, env.op)
                                          + IF OpEnabled(env.op, "ISTHMUS")
                                            THEN operator_fee_charge(info, tx.envelope, last.used, env.op) ELSE 0))
    BY DEF CallerPays, SystemCall, BlobFee
  <2>1. Types /\ Fees /\ Paid
    BY DEF Accounted, Handled
  <2>2. IsOp /\ ~ Deposit => info = Fetched
    <3>1. IsOp /\ ~ Deposit => db.attrs.block = block.number
      BY <2>1 DEF Fees, Deposit
    <3> QED
      BY AccountsAddUp, <2>1, <3>1, FetchedIs
  <2>3. last.before.acc[Caller].balance - last.after.acc[Caller].balance = last.run.sent + Owed(last.used)
    BY <2>1 DEF Paid, Exact
  <2> QED
    BY <2>2, <2>3 DEF Owed, OpFees, OperatorFee
<1> QED
  BY <1>1, AlwaysAccounted, PTL

(* DepositsStay of Evm, likewise: a deposit is included whatever is wrong with it, with its    *)
(* mint and its nonce, and before Regolith with all of its gas or none.                       *)
THEOREM DepositsAreKept ==
    ASSUME ~ OpDbErrors
    PROVE  Spec => []DepositsStay
<1>1. Accounted => DepositsStay
  <2> SUFFICES ASSUME Accounted, pc = "return", Deposit PROVE DepositsStay
    BY DEF DepositsStay
  <2>1. Types /\ Control /\ Remembered /\ Paid
    BY DEF Accounted, Handled
  <2>2. Minted \in Nat /\ Caller \in Addresses /\ ~ SystemCall
    BY <2>1, TxParts
  <2>3. last.after \in State /\ last.before \in State /\ last.run.sent \in Nat /\ call.error = "none"
    BY <2>1, <2>2 DEF Remembered, Types, Paid
  <2>4. last.after.acc[Caller].balance \in Nat /\ last.before.acc[Caller].balance \in Nat
    BY AccountsAddUp, <2>2, <2>3, StateParts
  <2>5. Owed(last.used) = - Minted
    BY DEF Owed
  <2>6. ~ env.cfg.disable_balance_check =>
            last.before.acc[Caller].balance - last.after.acc[Caller].balance = last.run.sent + Owed(last.used)
    BY <2>1, <2>2, <2>3 DEF Paid, Exact
  <2>7. env.cfg.disable_balance_check
        \/ last.after.acc[Caller].balance + last.run.sent = last.before.acc[Caller].balance + Minted
    BY <2>2, <2>3, <2>4, <2>5, <2>6
  <2>8. (last.after.acc[Caller].nonce = last.before.acc[Caller].nonce + 1 \/ NonceKept)
        /\ (Regolith \/ last.used \in {0, T.gas_limit})
    BY <2>1, <2>2, <2>3 DEF Paid
  <2> QED
    BY <2>3, <2>7, <2>8 DEF DepositsStay
<1> QED
  BY <1>1, AlwaysAccounted, PTL

VARIABLE slot

SlotSpec ==
    /\ \E spec \in Specs, original \in Nat : slot = SlotStart(spec, original)
    /\ [][\E new \in Nat : slot' = SlotWrite(slot, new)]_slot

Slots == [spec : Specs, original : Nat, present : Nat, writes : Nat, paid : Int, refund : Int]

(* What a write to a slot that is warm costs. *)
WriteCost(spec, v) == sstore_cost(spec, v, FALSE)

(* What the fork decides. *)
Clears(spec) == IF Enabled(spec, "LONDON") THEN 4800 ELSE 15000

Reset(spec) == IF Enabled(spec, "BERLIN") THEN 2900 ELSE 5000

Read(spec) == IF Enabled(spec, "BERLIN") THEN 100 ELSE 800

(* What has been refunded for a slot that is empty and was not. *)
Cleared(spec, original, present) == IF original # 0 /\ present = 0 THEN Clears(spec) ELSE 0

(* What a slot that has been changed has cost more than reads do. *)
SlotOwed(spec, original, present) ==
    IF present = original THEN 0
    ELSE (IF original = 0 THEN 20000 ELSE Reset(spec)) - Read(spec) - Cleared(spec, original, present)

SlotInv ==
    /\ slot \in Slots
    /\ slot.refund >= 0
    /\ Enabled(slot.spec, "ISTANBUL") =>
          /\ slot.refund >= Cleared(slot.spec, slot.original, slot.present)
          /\ slot.paid - slot.refund
                = slot.writes * Read(slot.spec) + SlotOwed(slot.spec, slot.original, slot.present)

-----------------------------------------------------------------------------
(* The order of the forks that matter here. *)
LEMMA ForkOrder ==
    ASSUME NEW spec \in Specs
    PROVE  /\ Enabled(spec, "BERLIN") \in BOOLEAN /\ Enabled(spec, "ISTANBUL") \in BOOLEAN
           /\ Enabled(spec, "LONDON") \in BOOLEAN
           /\ Enabled(spec, "BERLIN") => Enabled(spec, "ISTANBUL")
<1>1. Specs = 1..21
  BY DEF Specs, Forks
<1>2. Fork("ISTANBUL") = 10
  <2>1. Forks[10] = "ISTANBUL" /\ 10 \in Specs
    BY <1>1 DEF Forks
  <2>2. \A i \in 1..21 : Forks[i] = "ISTANBUL" => i = 10
    BY DEF Forks
  <2> QED
    BY <1>1, <2>1, <2>2 DEF Fork
<1>3. Fork("BERLIN") = 12
  <2>1. Forks[12] = "BERLIN" /\ 12 \in Specs
    BY <1>1 DEF Forks
  <2>2. \A i \in 1..21 : Forks[i] = "BERLIN" => i = 12
    BY DEF Forks
  <2> QED
    BY <1>1, <2>1, <2>2 DEF Fork
<1> QED
  BY <1>1, <1>2, <1>3 DEF Enabled

(* What a write costs and refunds since Istanbul, by what it does to the slot. *)
LEMMA WriteSinceIstanbul ==
    ASSUME NEW spec \in Specs, Enabled(spec, "ISTANBUL"), NEW o \in Nat, NEW p \in Nat, NEW n \in Nat,
           NEW v, v.original = o, v.present = p, v.new = n,
           NEW cost, cost = WriteCost(spec, v), NEW refund, refund = sstore_refund(spec, v)
    PROVE  /\ cost \in Int /\ refund \in Int /\ Read(spec) \in Nat
           /\ refund >= Cleared(spec, o, n) - Cleared(spec, o, p)
           /\ cost - refund = Read(spec) + SlotOwed(spec, o, n) - SlotOwed(spec, o, p)
<1> DEFINE C == Clears(spec)
           W == Reset(spec)
           L == Read(spec)
<1>1. Enabled(spec, "BERLIN") \in BOOLEAN /\ Enabled(spec, "LONDON") \in BOOLEAN
      /\ Enabled(spec, "ISTANBUL") = TRUE
  BY ForkOrder
<1>2. C \in Nat /\ W \in Nat /\ L \in Nat /\ L < W /\ L < 20000
  BY DEF Clears, Reset, Read
<1>3. cost = IF n = p THEN L ELSE IF o = p THEN IF o = 0 THEN 20000 ELSE W ELSE L
  <2>1. CASE Enabled(spec, "BERLIN")
    BY <1>1, <2>1 DEF WriteCost, sstore_cost, istanbul_sstore_cost, WARM_STORAGE_READ_COST, WARM_SSTORE_RESET,
       SSTORE_RESET, COLD_SLOAD_COST, SSTORE_SET, Reset, Read
  <2>2. CASE ~ Enabled(spec, "BERLIN")
    BY <1>1, <2>2 DEF WriteCost, sstore_cost, istanbul_sstore_cost, ISTANBUL_SLOAD_GAS, SSTORE_RESET, SSTORE_SET,
       Reset, Read
  <2> HIDE DEF L, W
  <2> QED
    BY <1>1, <2>1, <2>2
<1>4. refund = IF n = p THEN 0 ELSE IF o = p /\ n = 0 THEN C
               ELSE (IF o = n THEN (IF o = 0 THEN 20000 ELSE W) - L ELSE 0)
                    + (IF o = 0 THEN 0 ELSE IF p = 0 THEN -C ELSE IF n = 0 THEN C ELSE 0)
  <2> USE <1>1 DEF sstore_refund, sload_cost, WARM_STORAGE_READ_COST, ISTANBUL_SLOAD_GAS, SSTORE_SET,
          SSTORE_RESET, COLD_SLOAD_COST, ACCESS_LIST_STORAGE_KEY, REFUND_SSTORE_CLEARS, Clears, Reset, Read
  <2>1. CASE Enabled(spec, "BERLIN") /\ Enabled(spec, "LONDON")
    BY <2>1
  <2>2. CASE Enabled(spec, "BERLIN") /\ ~ Enabled(spec, "LONDON")
    BY <2>2
  <2>3. CASE ~ Enabled(spec, "BERLIN") /\ Enabled(spec, "LONDON")
    BY <2>3
  <2>4. CASE ~ Enabled(spec, "BERLIN") /\ ~ Enabled(spec, "LONDON")
    BY <2>4
  <2> QED
    BY <2>1, <2>2, <2>3, <2>4
<1>5. /\ Cleared(spec, o, n) = IF o # 0 /\ n = 0 THEN C ELSE 0
      /\ Cleared(spec, o, p) = IF o # 0 /\ p = 0 THEN C ELSE 0
      /\ SlotOwed(spec, o, n) = IF n = o THEN 0
                            ELSE (IF o = 0 THEN 20000 ELSE W) - L - (IF o # 0 /\ n = 0 THEN C ELSE 0)
      /\ SlotOwed(spec, o, p) = IF p = o THEN 0
                            ELSE (IF o = 0 THEN 20000 ELSE W) - L - (IF o # 0 /\ p = 0 THEN C ELSE 0)
  BY DEF Cleared, SlotOwed
<1> HIDE DEF C, W, L
<1>6. cost \in Int /\ refund \in Int
  BY <1>2, <1>3, <1>4
<1>7. refund >= Cleared(spec, o, n) - Cleared(spec, o, p)
  BY <1>2, <1>4, <1>5
<1>8. cost - refund = L + SlotOwed(spec, o, n) - SlotOwed(spec, o, p)
  BY <1>2, <1>3, <1>4, <1>5
<1> QED
  BY <1>2, <1>6, <1>7, <1>8 DEF L

(* What a write costs and refunds before Istanbul. *)
LEMMA WriteBeforeIstanbul ==
    ASSUME NEW spec \in Specs, ~ Enabled(spec, "ISTANBUL"), NEW v
    PROVE  WriteCost(spec, v) \in {5000, 20000} /\ sstore_refund(spec, v) \in {0, 15000}
<1>1. Enabled(spec, "BERLIN") = FALSE /\ Enabled(spec, "ISTANBUL") = FALSE
  BY ForkOrder
<1>2. WriteCost(spec, v) = frontier_sstore_cost(v)
  BY <1>1 DEF WriteCost, sstore_cost
<1>3. sstore_refund(spec, v) = IF v.present # 0 /\ v.new = 0 THEN REFUND_SSTORE_CLEARS ELSE 0
  BY ZenonT(30), <1>1 DEF sstore_refund
<1> QED
  BY <1>2, <1>3 DEF frontier_sstore_cost, SSTORE_SET, SSTORE_RESET, REFUND_SSTORE_CLEARS

(* A write keeps the invariant. *)
LEMMA WriteKeeps ==
    ASSUME SlotInv, NEW new \in Nat, slot' = SlotWrite(slot, new)
    PROVE  SlotInv'
<1> DEFINE v == [original |-> slot.original, present |-> slot.present, new |-> new]
           cost == WriteCost(slot.spec, v)
           refund == sstore_refund(slot.spec, v)
           writes == slot.writes + 1
           paid == slot.paid + cost
           total == slot.refund + refund
<1>1. /\ slot \in Slots /\ slot.spec \in Specs /\ slot.original \in Nat /\ slot.present \in Nat
      /\ slot.writes \in Nat /\ slot.paid \in Int /\ slot.refund \in Int /\ slot.refund >= 0
  BY DEF SlotInv, Slots
<1>2. slot' = [slot EXCEPT !.present = new, !.writes = writes, !.paid = paid, !.refund = total]
  BY <1>1 DEF SlotWrite, WriteCost, Slots
<1>3. CASE Enabled(slot.spec, "ISTANBUL")
  <2> DEFINE L == Read(slot.spec)
             before == SlotOwed(slot.spec, slot.original, slot.present)
             after == SlotOwed(slot.spec, slot.original, new)
             had == Cleared(slot.spec, slot.original, slot.present)
             has == Cleared(slot.spec, slot.original, new)
  <2>1. cost \in Int /\ refund \in Int /\ L \in Nat /\ refund >= has - had /\ cost - refund = L + after - before
    <3>1. v.original = slot.original /\ v.present = slot.present /\ v.new = new
      OBVIOUS
    <3>2. cost = WriteCost(slot.spec, v) /\ refund = sstore_refund(slot.spec, v)
      OBVIOUS
    <3> HIDE DEF v, cost, refund
    <3> QED
      BY <1>1, <1>3, <3>1, <3>2, WriteSinceIstanbul
  <2>2. had \in Nat /\ has \in Nat /\ before \in Int /\ after \in Int
    BY DEF Cleared, SlotOwed, Clears, Reset, Read
  <2>3. slot.refund >= had /\ slot.paid - slot.refund = slot.writes * L + before
    BY <1>3 DEF SlotInv
  <2> HIDE DEF cost, refund, L, before, after, had, has
  <2>4. writes \in Nat /\ paid \in Int /\ total \in Int /\ total >= has /\ total >= 0
    BY <1>1, <2>1, <2>2, <2>3
  <2>5. paid - total = writes * L + after
    <3>1. writes * L = slot.writes * L + L /\ slot.writes * L \in Int
      BY <1>1, <2>1
    <3> DEFINE x == slot.writes * L
               y == writes * L
    <3>2. x \in Int /\ y = x + L /\ slot.paid - slot.refund = x + before
      BY <2>3, <3>1
    <3> HIDE DEF x, y
    <3>3. paid - total = y + after
      BY <1>1, <2>1, <2>2, <3>2
    <3> QED
      BY <3>3 DEF y
  <2> HIDE DEF writes, paid, total
  <2>6. /\ slot' \in Slots /\ slot'.spec = slot.spec /\ slot'.original = slot.original
        /\ slot'.present = new /\ slot'.writes = writes /\ slot'.paid = paid /\ slot'.refund = total
    BY ZenonT(30), <1>1, <1>2, <2>4 DEF Slots
  <2> QED
    BY <2>4, <2>5, <2>6 DEF SlotInv, L, after, has
<1>4. CASE ~ Enabled(slot.spec, "ISTANBUL")
  <2>1. cost \in Int /\ refund \in Nat
    <3>1. cost \in {5000, 20000} /\ refund \in {0, 15000}
      BY <1>1, <1>4, WriteBeforeIstanbul
    <3> HIDE DEF cost, refund
    <3> QED
      BY <3>1
  <2> HIDE DEF cost, refund
  <2>2. writes \in Nat /\ paid \in Int /\ total \in Int /\ total >= 0
    BY <1>1, <2>1
  <2> HIDE DEF writes, paid, total
  <2>3. slot' \in Slots /\ slot'.spec = slot.spec /\ slot'.refund = total
    BY ZenonT(30), <1>1, <1>2, <2>2 DEF Slots
  <2> QED
    BY <1>4, <2>2, <2>3 DEF SlotInv
<1> QED
  BY <1>3, <1>4

(* However often a slot is written in a transaction, and with whatever values, under every hard     *)
(* fork: its refunds are never negative in sum, so that the counter set_final_refund casts to u64   *)
(* is not; no write costs less than the static part dyn_sstore_cost subtracts; and since Istanbul a  *)
(* slot that has its first value again has cost, after refunds, what as many reads cost.            *)
THEOREM SlotRefundsAreFair ==
    SlotSpec => [](SlotRefundNonNegative(slot) /\ SlotRestoredCostsReads(slot))
<1>1. ASSUME NEW spec \in Specs, NEW original \in Nat, slot = SlotStart(spec, original)
      PROVE  SlotInv
  <2>1. /\ slot \in Slots /\ slot.spec = spec /\ slot.original = original /\ slot.present = original
        /\ slot.writes = 0 /\ slot.paid = 0 /\ slot.refund = 0
    BY <1>1 DEF SlotStart, Slots
  <2>2. SlotOwed(spec, original, original) = 0 /\ Cleared(spec, original, original) = 0 /\ Read(spec) \in Nat
    BY DEF SlotOwed, Cleared, Read
  <2> QED
    BY <2>1, <2>2 DEF SlotInv
<1>2. SlotInv /\ [\E new \in Nat : slot' = SlotWrite(slot, new)]_slot => SlotInv'
  <2> SUFFICES ASSUME SlotInv, [\E new \in Nat : slot' = SlotWrite(slot, new)]_slot PROVE SlotInv'
    OBVIOUS
  <2>1. CASE UNCHANGED slot
    BY <2>1 DEF SlotInv
  <2> QED
    BY <2>1, WriteKeeps
<1>3. SlotInv => SlotRefundNonNegative(slot)
  <2> SUFFICES ASSUME SlotInv, NEW new \in 0..2, NEW cold \in BOOLEAN
               PROVE  sstore_cost(slot.spec, [original |-> slot.original, present |-> slot.present, new |-> new], cold)
                          >= sstore_cost_static(slot.spec)
    BY DEF SlotRefundNonNegative, SlotInv
  <2>1. slot.spec \in Specs
    BY DEF SlotInv, Slots
  <2>2. Enabled(slot.spec, "BERLIN") => Enabled(slot.spec, "ISTANBUL")
    BY <2>1, ForkOrder
  <2> QED
    BY <2>2 DEF sstore_cost, sstore_cost_static, istanbul_sstore_cost, frontier_sstore_cost,
       WARM_STORAGE_READ_COST, WARM_SSTORE_RESET, SSTORE_RESET, COLD_SLOAD_COST, SSTORE_SET, ISTANBUL_SLOAD_GAS
<1>4. SlotInv => SlotRestoredCostsReads(slot)
  <2> SUFFICES ASSUME SlotInv, Enabled(slot.spec, "ISTANBUL"), slot.present = slot.original
               PROVE  slot.paid - slot.refund = slot.writes * sload_cost(slot.spec, FALSE)
    BY ZenonT(30) DEF SlotRestoredCostsReads
  <2>1. sload_cost(slot.spec, FALSE) = Read(slot.spec) /\ Read(slot.spec) \in Nat
    BY DEF sload_cost, WARM_STORAGE_READ_COST, ISTANBUL_SLOAD_GAS, Read
  <2>2. SlotOwed(slot.spec, slot.original, slot.present) = 0
    BY DEF SlotOwed
  <2>3. slot.writes * Read(slot.spec) \in Int
    BY <2>1 DEF SlotInv, Slots
  <2>4. slot.paid - slot.refund
            = slot.writes * Read(slot.spec) + SlotOwed(slot.spec, slot.original, slot.present)
    BY DEF SlotInv
  <2> DEFINE x == slot.writes * Read(slot.spec)
  <2> HIDE DEF x
  <2>5. x \in Int /\ slot.paid - slot.refund = x + 0
    BY <2>2, <2>3, <2>4 DEF x
  <2>6. slot.paid - slot.refund = x
    BY <2>5
  <2> QED
    BY Zenon, <2>1, <2>6 DEF x
<1>5. (\E spec \in Specs, original \in Nat : slot = SlotStart(spec, original)) => SlotInv
  BY <1>1
<1> QED
  BY <1>2, <1>3, <1>4, <1>5, PTL DEF SlotSpec

=============================================================================
