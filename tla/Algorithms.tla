------------------------------ MODULE Algorithms ------------------------------
(***************************************************************************)
(* The pure parts of the system, each checked against what it is to compute:  *)
(* the arithmetic of words, gas costs, the tables of the instructions, the     *)
(* results of an execution, the precompiles and the curves and compression     *)
(* they call.  A state is a question asked of one of them; the slot that is     *)
(* written again and again and the rounds of a compression take several.       *)
(***************************************************************************)
EXTENDS Integers, Sequences

CONSTANTS
    ByteBits, NumBytes,                           \* the words of Alu
    WordBits, Rounds,                             \* the words and rounds of Blake2
    Order, Cofactor1, Cofactor2, MaxScalar, Tau,  \* the groups of Curves
    HeadBytes,                                    \* the head of modexp's exponent
    MaxWrites                                     \* bound on the writes of a slot

ASSUME AlgorithmsAssumption ==
    /\ {ByteBits, NumBytes, Rounds, HeadBytes, MaxWrites} \subseteq Nat \ {0}
    /\ WordBits \in {8, 16}
    /\ {Order, Cofactor1, Cofactor2} \subseteq Nat \ {0}
    /\ Order > 1 /\ Cofactor1 % Order # 0 /\ Cofactor2 % Order # 0
    /\ MaxScalar \in Nat /\ MaxScalar > Order /\ Tau \in 1..(Order - 1)

A == INSTANCE Alu
G == INSTANCE EvmGas
O == INSTANCE Opcodes
R == INSTANCE Results
P == INSTANCE Precompiles
C == INSTANCE Curves

VARIABLE case

Init == case = [alg |-> "none"]

Word == \E x \in A!Words, y \in A!Words :
    case' = [alg |-> "word", x |-> x, y |-> y]

Instruction == \E op \in O!Bytes, spec \in G!Specs :
    case' = [alg |-> "instruction", op |-> op, spec |-> spec]

Exponent == \E spec \in G!Specs :
    \E power \in {0, 1, 2, 63, 64, 127, 128, 255, 256, 257, 4095, 4096, 65535, 65536, 70000} :
        case' = [alg |-> "exponent", spec |-> spec, power |-> power]

FirstWrite == \E spec \in G!Specs, original \in 0..1, new \in 0..2 :
    case' = [alg |-> "slot", slot |-> G!SlotWrite(G!SlotStart(spec, original), new)]
NextWrite ==
    /\ case.alg = "slot" /\ case.slot.writes < MaxWrites
    /\ \E new \in 0..2 : case' = [case EXCEPT !.slot = G!SlotWrite(@, new)]

Result == \E r \in R!InstructionResult, h \in R!HaltReason :
    case' = [alg |-> "result", r |-> r, h |-> h]
Settlement ==
    \E r \in R!InstructionResult, remaining \in 0..8, refunded \in {0, 1, 4}, floor \in 0..10 :
        case' = [alg |-> "settlement", r |-> r, remaining |-> remaining,
                 refunded |-> refunded, floor |-> floor]

PrecompileSet ==
    \E old \in DOMAIN P!PrecompileForks, new \in DOMAIN P!PrecompileForks, a \in {3, 19, 256, 300} :
        case' = [alg |-> "set", old |-> old, new |-> new,
                 custom |-> {P!P("Custom", a, "run")}]

Sets == [i \in DOMAIN P!PrecompileForks |-> P!new(P!PrecompileForks[i])]
PrecompileCall ==
    \E i \in DOMAIN P!PrecompileForks, a \in (0..17) \cup {256} :
    \E limit \in {0, 100, 500, 3000, 3450, 15000, 50000, 79000, 113000, 200000},
       more \in {1, 200000},
       len \in {0, 64, 160, 192, 213, 256, 288, 320, 384}, valid \in BOOLEAN :
        /\ i \in {2, 4, 7} \/ a \in 5..9
        /\ case' = [alg |-> "call", fork |-> i, a |-> a, limit |-> limit,
                 more |-> more,
                 in |-> [len |-> len, valid |-> valid, versioned |-> valid \/ len = 192,
                         rounds |-> 600, base_len |-> 40, exp_len |-> len, mod_len |-> 41,
                         data |-> <<1>>]]

MsmPrice == \E k \in 1..130 : case' = [alg |-> "msm", k |-> k]

ModExp == \E base_len \in 0..3, exp_len \in 0..4, mod_len \in 0..2 :
    \E n \in 0..(base_len + exp_len + mod_len + 1) :
        case' = [alg |-> "modexp",
                 in |-> [base_len |-> base_len, exp_len |-> exp_len, mod_len |-> mod_len,
                         data |-> [i \in 1..n |-> i]]]

(* points with their padding, and encodings of none *)
Encodings(points) ==
    {[pad |-> TRUE, form |-> "point", p |-> p] : p \in points}
    \cup {[pad |-> TRUE, form |-> f, p |-> 1] : f \in {"offcurve", "noncanonical"}}
    \cup {[pad |-> FALSE, form |-> "point", p |-> 2]}
E1 == Encodings(0..(Order * Cofactor1 - 1))
E2 == Encodings({0, Cofactor2, 2 * Cofactor2, 1, 2})
SeqUpTo2(S) == {<<a>> : a \in S} \cup {<<a, b>> : a \in S, b \in S}

CurveAdd == \E a \in E1, b \in E1 : a.pad /\ b.pad /\ case' = [alg |-> "add", a |-> a, b |-> b]
CurveMsm == \E s \in SeqUpTo2([point : E1, scalar : {0, 1, 2, Order, MaxScalar}]) :
    case' = [alg |-> "multi", pairs |-> s]
CurvePairing == \E s \in SeqUpTo2([g1 : E1, g2 : E2]) :
    case' = [alg |-> "pairing", pairs |-> s]
PointEvaluation == \E z \in 0..MaxScalar, y \in 0..MaxScalar, c \in E1, proof \in E1 :
    case' = [alg |-> "kzg", commitment |-> c, z |-> z, y |-> y, proof |-> proof]
Recovery == \E r \in 0..7, s \in 0..7, recid \in 0..1, msg \in 0..9 :
    case' = [alg |-> "recovery", r |-> r, s |-> s, recid |-> recid, msg |-> msg]

Block == \E seed \in 0..2, f \in BOOLEAN, t \in {<<0, 0>>, <<1, 255>>} :
    case' = [alg |-> "block",
             w |-> P!BlockStart([i \in 1..8 |-> (i * 91 + seed * 7 + 3) % 256],
                                [i \in 1..16 |-> (i * 37 + seed * 11 + 5) % 256], t, f)]
Round ==
    /\ case.alg = "block" /\ case.w.rounds < Rounds
    /\ case' = [case EXCEPT !.w = P!BlockRound(@)]

Ask ==
    \/ Word \/ Instruction \/ Exponent \/ FirstWrite \/ Result \/ Settlement
    \/ PrecompileSet \/ PrecompileCall \/ MsmPrice \/ ModExp
    \/ CurveAdd \/ CurveMsm \/ CurvePairing \/ PointEvaluation \/ Recovery \/ Block

Next == (case.alg = "none" /\ Ask) \/ NextWrite \/ Round

Spec == Init /\ [][Next]_case

-----------------------------------------------------------------------------
(* The word instructions compute what their names say at every edge of the    *)
(* word: comparisons and i256.rs on two's complement numbers; SAR, SHR, SHL    *)
(* and CLZ as division by powers of two, at and beyond the width; SIGNEXTEND   *)
(* and BYTE at and beyond the last byte; EXP by squaring, ADDMOD and MULMOD.    *)
WordsCompute ==
    case.alg = "word" =>
        /\ A!SignedNumbers(case.x, case.y)
        /\ case.y <= A!Bits + 2 => A!ShiftsDivide(case.y, case.x)
        /\ case.y <= NumBytes + 1 => A!BytesAndSign(case.y, case.x)
        /\ case.y <= 16 => A!PowersWrap(case.x, case.y)

(* Gas is charged, refunded and settled alike wherever the code does it.  The  *)
(* three tables of instructions agree and every step that goes on costs gas;   *)
(* the two parts of a cold access make its price; EXP is priced by the bytes    *)
(* of its exponent.  However often a slot is written in a transaction its       *)
(* refunds (sstore_refund) never add up to a negative counter, and a slot that  *)
(* ends as it began has cost what reading it would have.  The reason of a halt  *)
(* survives its conversions, and the gas of a transaction is settled by the      *)
(* class it is reported with.                                                   *)
PricesAgree ==
    /\ case.alg = "instruction" =>
          /\ O!TablesAgree(case.op) /\ O!EveryStepCosts(case.spec, case.op)
          /\ \A cold \in BOOLEAN : O!AccessPartsAddUp(case.spec, cold)
    /\ case.alg = "exponent" => G!ExpCostByBytes(case.spec, case.power)
    /\ case.alg = "slot" => G!SlotRefundNonNegative(case.slot) /\ G!SlotRestoredCostsReads(case.slot)
    /\ case.alg = "result" => R!ReasonsSurvive(case.r, case.h)
    /\ case.alg = "settlement" =>
          \A is_london \in BOOLEAN :
              R!ClassesSettleAlike(case.r, 10, case.remaining, case.refunded, case.floor, is_london)

(* The sets of precompiles agree: Precompiles::get, which reads the array of   *)
(* short addresses, finds what contains, the map, difference and intersection   *)
(* see; PrecompileId::precompile gives for every hard fork the contract that     *)
(* fork's set holds.  A call through EthPrecompiles::run never uses more than    *)
(* its limit, and with more gas a call that succeeded succeeds at the same       *)
(* price; the discount tables give a price that grows; modexp prices the         *)
(* exponent it uses.                                                            *)
PrecompilesAgree ==
    /\ case.alg = "set" =>
          /\ P!LookupsAgree(P!PrecompileForks[case.old], P!PrecompileForks[case.new], case.custom)
          /\ \A spec_id \in {3 * case.old - 3, 3 * case.old - 2, 3 * case.old - 1} :
                P!IdsAndForksAgree(spec_id)
    /\ case.alg = "call" => P!GasDecidesOnce(Sets[case.fork], case.a, case.in, case.limit, case.more)
    /\ case.alg = "msm" => P!MsmPricesGrow(case.k)
    /\ case.alg = "modexp" => P!PricedExponentIsUsed(case.in)

(* The interchangeable backends compute one function.  Both bls12-381 and both  *)
(* bn254 backends add points to their sum and refuse the same encodings; a      *)
(* multi-scalar multiplication is the sum of the multiples, with zero scalars   *)
(* skipped only after their points were validated; a pairing check accepts      *)
(* exactly the lists whose product is one, and a point at infinity does not     *)
(* hide an invalid partner; verify_kzg_proof accepts exactly the value the      *)
(* polynomial has; both ecrecover functions give one address, though k256.rs    *)
(* replaces a high s; the portable and the AVX2 Blake2 agree after each round.   *)
BackendsAgree ==
    /\ case.alg = "add" => C!AddIsSum(case.a, case.b)
    /\ case.alg = "multi" => C!MsmIsSum(case.pairs)
    /\ case.alg = "pairing" => C!PairingIsProduct(case.pairs)
    /\ case.alg = "kzg" => C!KzgChecksEvaluation(case.commitment, case.z, case.y, case.proof)
    /\ case.alg = "recovery" => C!RecoversSameKey(case.r, case.s, case.recid, case.msg)
    /\ case.alg = "block" => P!FormsAgree(case.w)

==============================================================================
