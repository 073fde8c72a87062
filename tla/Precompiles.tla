----------------------------- MODULE Precompiles ------------------------------
(***************************************************************************)
(* The precompiled contracts: the sets of them that the forks have, how one  *)
(* is looked up, what each does with its input and its gas limit, and what   *)
(* the provider of the handler makes of the result.                          *)
(*                                                                         *)
(* A precompile is a record of its id, its address and the variant of its     *)
(* function.  An input is a record: its length and the facts about its bytes   *)
(* that the function asks for (valid: the curve operation accepts it).  The    *)
(* operations on curves are in Curves.                                        *)
(***************************************************************************)
EXTENDS Naturals, Sequences, FiniteSetsExt, SequencesExt, Bitwise

CONSTANTS HeadBytes,   (* 32: the bytes of the exponent that modexp prices by *)
          WordBits     (* 64: the bits of a word of Blake2 *)

SHORT_ADDRESS_CAP == 300
PrecompileForks ==
    <<"HOMESTEAD", "BYZANTIUM", "ISTANBUL", "BERLIN", "CANCUN", "PRAGUE", "OSAKA">>
Forked(spec) == CHOOSE i \in DOMAIN PrecompileForks : PrecompileForks[i] = spec
Before(a, b) == Forked(a) < Forked(b)

Nothing == [id |-> "none", address |-> 0, fn |-> "none"]
P(id, address, fn) == [id |-> id, address |-> address, fn |-> fn]

-----------------------------------------------------------------------------
(* The sets. *)

Empty == [inner |-> [a \in {} |-> Nothing],
          optimized_access |-> [a \in 0..(SHORT_ADDRESS_CAP - 1) |-> Nothing]]

short_address(a) == a < SHORT_ADDRESS_CAP

(* the array for short addresses forgotten *)
extend_inner(s, items) ==
    [s EXCEPT !.inner = [a \in DOMAIN @ \cup {p.address : p \in items} |->
                            IF \E p \in items : p.address = a
                            THEN CHOOSE p \in items : p.address = a ELSE @[a]]]
extend(s, items) ==
    [inner |-> [a \in DOMAIN s.inner \cup {p.address : p \in items} |->
                   IF \E p \in items : p.address = a
                   THEN CHOOSE p \in items : p.address = a ELSE s.inner[a]],
     optimized_access |->
        [a \in DOMAIN s.optimized_access |->
            IF \E p \in items : p.address = a /\ short_address(a)
            THEN CHOOSE p \in items : p.address = a ELSE s.optimized_access[a]]]

contains(s, a) == a \in DOMAIN s.inner
get(s, a) ==
    IF short_address(a) THEN s.optimized_access[a]
    ELSE IF contains(s, a) THEN s.inner[a] ELSE Nothing

Items(s, keep(_)) == {s.inner[a] : a \in {b \in DOMAIN s.inner : keep(b)}}
difference(s, other) == extend(Empty, Items(s, LAMBDA a : ~contains(other, a)))
intersection(s, other) == extend(Empty, Items(s, LAMBDA a : contains(other, a)))

homestead ==
    extend(Empty, {P("EcRec", 1, "run"), P("Sha256", 2, "run"),
                   P("Ripemd160", 3, "run"), P("Identity", 4, "run")})
byzantium ==
    extend(homestead, {P("ModExp", 5, "BYZANTIUM"), P("Bn254Add", 6, "BYZANTIUM"),
                       P("Bn254Mul", 7, "BYZANTIUM"), P("Bn254Pairing", 8, "BYZANTIUM")})
istanbul ==
    extend(byzantium, {P("Bn254Add", 6, "ISTANBUL"), P("Bn254Mul", 7, "ISTANBUL"),
                       P("Bn254Pairing", 8, "ISTANBUL"), P("Blake2F", 9, "run")})
berlin == extend(istanbul, {P("ModExp", 5, "BERLIN")})
cancun == extend(berlin, {P("KzgPointEvaluation", 10, "run")})
bls12_381 ==
    {P("Bls12G1Add", 11, "run"), P("Bls12G1Msm", 12, "run"), P("Bls12G2Add", 13, "run"),
     P("Bls12G2Msm", 14, "run"), P("Bls12Pairing", 15, "run"),
     P("Bls12MapFpToGp1", 16, "run"), P("Bls12MapFp2ToGp2", 17, "run")}
prague == extend(cancun, bls12_381)
osaka == extend(prague, {P("ModExp", 5, "OSAKA"), P("P256Verify", 256, "OSAKA")})

new(spec) ==
    CASE spec = "HOMESTEAD" -> homestead [] spec = "BYZANTIUM" -> byzantium
      [] spec = "ISTANBUL" -> istanbul [] spec = "BERLIN" -> berlin
      [] spec = "CANCUN" -> cancun [] spec = "PRAGUE" -> prague
      [] spec = "OSAKA" -> osaka

(* the repricing of Istanbul one fork late *)
precompile_late(id, spec) ==
    CASE id \in {"Bn254Add", "Bn254Mul", "Bn254Pairing"} ->
            P(id, CASE id = "Bn254Add" -> 6 [] id = "Bn254Mul" -> 7 [] OTHER -> 8,
              IF Before(spec, "BERLIN") THEN "BYZANTIUM" ELSE "ISTANBUL")
      [] OTHER -> CHOOSE p \in Items(new(spec), LAMBDA a : TRUE) : p.id = id
(* PrecompileId::precompile: the variant of an id at a fork, the one closest    *)
(* to its activation where the fork does not have it                          *)
precompile(id, spec) ==
    CASE id = "ModExp" -> P(id, 5, IF Before(spec, "BERLIN") THEN "BYZANTIUM"
                                   ELSE IF Before(spec, "OSAKA") THEN "BERLIN" ELSE "OSAKA")
      [] id = "Bn254Add" -> P(id, 6, IF Before(spec, "ISTANBUL") THEN "BYZANTIUM" ELSE "ISTANBUL")
      [] id = "Bn254Mul" -> P(id, 7, IF Before(spec, "ISTANBUL") THEN "BYZANTIUM" ELSE "ISTANBUL")
      [] id = "Bn254Pairing" ->
            P(id, 8, IF Before(spec, "ISTANBUL") THEN "BYZANTIUM" ELSE "ISTANBUL")
      [] id = "P256Verify" -> P(id, 256, IF Before(spec, "OSAKA") THEN "run" ELSE "OSAKA")
      [] OTHER -> CHOOSE p \in Items(osaka, LAMBDA a : TRUE) : p.id = id

(* PrecompileSpecId::from_spec_id, by the number of the SpecId *)
from_spec_id(spec_id) ==
    CASE spec_id <= 5 -> "HOMESTEAD" [] spec_id \in 6..8 -> "BYZANTIUM"
      [] spec_id \in 9..10 -> "ISTANBUL" [] spec_id \in 11..16 -> "BERLIN"
      [] spec_id = 17 -> "CANCUN" [] spec_id = 18 -> "PRAGUE" [] OTHER -> "OSAKA"

-----------------------------------------------------------------------------
(* The functions.  A result holds the gas used and the length of the output. *)

Done(gas, len) == [ok |-> TRUE, gas |-> gas, len |-> len, err |-> "none"]
Fails(e) == [ok |-> FALSE, gas |-> 0, len |-> 0, err |-> e]
OutOfGas == Fails("OutOfGas")

div_ceil(x, y) == (x + y - 1) \div y
calc_linear_cost_u32(len, base, word) == div_ceil(len, 32) * word + base

identity_run(in, limit) ==
    LET gas_used == calc_linear_cost_u32(in.len, 15, 3)
    IN  IF gas_used > limit THEN OutOfGas ELSE Done(gas_used, in.len)
sha256_run(in, limit) ==
    LET cost == calc_linear_cost_u32(in.len, 60, 12)
    IN  IF cost > limit THEN OutOfGas ELSE Done(cost, 32)
ripemd160_run(in, limit) ==
    LET gas_used == calc_linear_cost_u32(in.len, 600, 120)
    IN  IF gas_used > limit THEN OutOfGas ELSE Done(gas_used, 32)

(* a bad recovery id and a signature without a key are empty outputs, paid for *)
ec_recover_run(in, limit) ==
    IF 3000 > limit THEN OutOfGas ELSE Done(3000, IF in.valid THEN 32 ELSE 0)

run_add(in, gas_cost, limit) ==
    IF gas_cost > limit THEN OutOfGas
    ELSE IF ~in.valid THEN Fails("Bn254") ELSE Done(gas_cost, 64)
run_mul(in, gas_cost, limit) ==
    IF gas_cost > limit THEN OutOfGas
    ELSE IF ~in.valid THEN Fails("Bn254") ELSE Done(gas_cost, 64)
run_pair(in, per_point, base, limit) ==
    LET gas_used == (in.len \div 192) * per_point + base
    IN  IF gas_used > limit THEN OutOfGas
        ELSE IF in.len % 192 # 0 THEN Fails("Bn254PairLength")
        ELSE IF ~in.valid THEN Fails("Bn254") ELSE Done(gas_used, 32)

(* the length is looked at before the gas *)
blake2_run(in, limit) ==
    IF in.len # 213 THEN Fails("Blake2WrongLength")
    ELSE IF in.rounds > limit THEN OutOfGas
    ELSE IF ~in.valid THEN Fails("Blake2WrongFinalIndicatorFlag") ELSE Done(in.rounds, 64)

kzg_run(in, limit) ==
    IF limit < 50000 THEN OutOfGas
    ELSE IF in.len # 192 THEN Fails("BlobInvalidInputLength")
    ELSE IF ~in.versioned THEN Fails("BlobMismatchedVersion")
    ELSE IF ~in.valid THEN Fails("BlobVerifyKzgProofFailed") ELSE Done(50000, 64)

p256_verify_inner(in, limit, gas_cost) ==
    IF gas_cost > limit THEN OutOfGas
    ELSE Done(gas_cost, IF in.len = 160 /\ in.valid THEN 32 ELSE 0)

DISCOUNT_TABLE_G1_MSM ==
  <<1000, 949, 848, 797, 764, 750, 738, 728, 719, 712, 705, 698, 692, 687, 682, 677, 673,
    669, 665, 661, 658, 654, 651, 648, 645, 642, 640, 637, 635, 632, 630, 627, 625, 623,
    621, 619, 617, 615, 613, 611, 609, 608, 606, 604, 603, 601, 599, 598, 596, 595, 593,
    592, 591, 589, 588, 586, 585, 584, 582, 581, 580, 579, 577, 576, 575, 574, 573, 572,
    570, 569, 568, 567, 566, 565, 564, 563, 562, 561, 560, 559, 558, 557, 556, 555, 554,
    553, 552, 551, 550, 549, 548, 547, 547, 546, 545, 544, 543, 542, 541, 540, 540, 539,
    538, 537, 536, 536, 535, 534, 533, 532, 532, 531, 530, 529, 528, 528, 527, 526, 525,
    525, 524, 523, 522, 522, 521, 520, 520, 519>>
DISCOUNT_TABLE_G2_MSM ==
  <<1000, 1000, 923, 884, 855, 832, 812, 796, 782, 770, 759, 749, 740, 732, 724, 717, 711,
    704, 699, 693, 688, 683, 679, 674, 670, 666, 663, 659, 655, 652, 649, 646, 643, 640,
    637, 634, 632, 629, 627, 624, 622, 620, 618, 615, 613, 611, 609, 607, 606, 604, 602,
    600, 598, 597, 595, 593, 592, 590, 589, 587, 586, 584, 583, 582, 580, 579, 578, 576,
    575, 574, 573, 571, 570, 569, 568, 567, 566, 565, 563, 562, 561, 560, 559, 558, 557,
    556, 555, 554, 553, 552, 552, 551, 550, 549, 548, 547, 546, 545, 545, 544, 543, 542,
    541, 541, 540, 539, 538, 537, 537, 536, 535, 535, 534, 533, 532, 532, 531, 530, 530,
    529, 528, 528, 527, 526, 526, 525, 524, 524>>

(* the table read from one, as the EIP writes it *)
msm_required_gas_shifted(k, discounts, cost) ==
    IF k = 0 THEN 0
    ELSE (k * discounts[IF k < Len(discounts) THEN k + 1 ELSE Len(discounts)] * cost) \div 1000
msm_required_gas(k, discounts, cost) ==
    IF k = 0 THEN 0
    ELSE (k * discounts[IF k < Len(discounts) THEN k ELSE Len(discounts)] * cost) \div 1000

g1_add(in, limit) ==
    IF 375 > limit THEN OutOfGas
    ELSE IF in.len # 256 THEN Fails("G1AddInputLength")
    ELSE IF ~in.valid THEN Fails("Bls12381") ELSE Done(375, 128)
g2_add(in, limit) ==
    IF 600 > limit THEN OutOfGas
    ELSE IF in.len # 512 THEN Fails("G2AddInputLength")
    ELSE IF ~in.valid THEN Fails("Bls12381") ELSE Done(600, 256)
g1_msm_unpaid(in, limit) ==
    IF in.len = 0 \/ in.len % 160 # 0 THEN Fails("G1MsmInputLength")
    ELSE IF ~in.valid THEN Fails("Bls12381")
    ELSE Done(msm_required_gas(in.len \div 160, DISCOUNT_TABLE_G1_MSM, 12000), 128)
g1_msm(in, limit) ==
    LET required_gas == msm_required_gas(in.len \div 160, DISCOUNT_TABLE_G1_MSM, 12000)
    IN  IF in.len = 0 \/ in.len % 160 # 0 THEN Fails("G1MsmInputLength")
        ELSE IF required_gas > limit THEN OutOfGas
        ELSE IF ~in.valid THEN Fails("Bls12381") ELSE Done(required_gas, 128)
g2_msm(in, limit) ==
    LET required_gas == msm_required_gas(in.len \div 288, DISCOUNT_TABLE_G2_MSM, 22500)
    IN  IF in.len = 0 \/ in.len % 288 # 0 THEN Fails("G2MsmInputLength")
        ELSE IF required_gas > limit THEN OutOfGas
        ELSE IF ~in.valid THEN Fails("Bls12381") ELSE Done(required_gas, 256)
pairing(in, limit) ==
    LET required_gas == 32600 * (in.len \div 384) + 37700
    IN  IF in.len = 0 \/ in.len % 384 # 0 THEN Fails("PairingInputLength")
        ELSE IF required_gas > limit THEN OutOfGas
        ELSE IF ~in.valid THEN Fails("Bls12381") ELSE Done(required_gas, 32)
map_fp_to_g1(in, limit) ==
    IF 5500 > limit THEN OutOfGas
    ELSE IF in.len # 64 THEN Fails("MapFpToG1InputLength")
    ELSE IF ~in.valid THEN Fails("Bls12381") ELSE Done(5500, 128)
map_fp2_to_g2(in, limit) ==
    IF 23800 > limit THEN OutOfGas
    ELSE IF in.len # 128 THEN Fails("MapFp2ToG2InputLength")
    ELSE IF ~in.valid THEN Fails("Bls12381") ELSE Done(23800, 256)
-----------------------------------------------------------------------------
(* modexp.  Its input is the three lengths of the header and the bytes after   *)
(* it; a length that does not fit a usize is above UsizeMax.                   *)

UsizeMax == 4000
INPUT_SIZE_LIMIT == 1024

Zeroes(n) == [i \in 1..n |-> 0]
right_pad_vec(data, len) ==
    IF Len(data) >= len THEN SubSeq(data, 1, len) ELSE data \o Zeroes(len - Len(data))
right_pad_with_offset(data, offset, len) ==
    right_pad_vec(IF offset > Len(data) THEN <<>> ELSE SubSeq(data, offset + 1, Len(data)), len)
left_pad(data, len) ==
    IF Len(data) >= len THEN SubSeq(data, 1, len) ELSE Zeroes(len - Len(data)) \o data
from_be_bytes(bytes) == FoldLeft(LAMBDA acc, b : 256 * acc + b, 0, bytes)
bit_len(x) == CHOOSE n \in 0..30 : x < 2^n /\ (n = 0 \/ x >= 2^(n - 1))
AtLeast(x, y) == IF x > y THEN x ELSE y

calculate_iteration_count(multiplier, exp_length, exp_highp) ==
    AtLeast(1,
        IF exp_length <= HeadBytes
        THEN IF exp_highp = 0 THEN 0 ELSE bit_len(exp_highp) - 1
        ELSE multiplier * (exp_length - HeadBytes) + AtLeast(1, bit_len(exp_highp)) - 1)

byzantium_complexity(max_len) ==
    IF max_len <= 64 THEN max_len * max_len
    ELSE IF max_len <= 1024 THEN (max_len * max_len) \div 4 + 96 * max_len - 3072
    ELSE (max_len * max_len) \div 16 + 480 * max_len - 199680
berlin_complexity(max_len) == div_ceil(max_len, 8) * div_ceil(max_len, 8)
osaka_complexity(max_len) ==
    IF max_len <= 32 THEN 16 ELSE div_ceil(max_len, 8) * div_ceil(max_len, 8) * 2

gas_calc(fn, base_len, exp_len, mod_len, exp_highp) ==
    LET max_len == AtLeast(base_len, mod_len)
        count(multiplier) == calculate_iteration_count(multiplier, exp_len, exp_highp)
    IN  CASE fn = "BYZANTIUM" -> (byzantium_complexity(max_len) * count(8)) \div 20
          [] fn = "BERLIN" -> AtLeast(200, (berlin_complexity(max_len) * count(8)) \div 3)
          [] fn = "OSAKA" -> AtLeast(500, osaka_complexity(max_len) * count(16))

exp_highp_at_start(data, base_len, exp_len) ==
    LET highp == right_pad_vec(data, HeadBytes)
        n == IF exp_len < HeadBytes THEN exp_len ELSE HeadBytes
    IN  from_be_bytes(left_pad(SubSeq(highp, 1, n), HeadBytes))
(* the head of the exponent, as the gas is computed from it *)
read_exp_highp(data, base_len, exp_len) ==
    LET highp == right_pad_with_offset(data, base_len, HeadBytes)
        n == IF exp_len < HeadBytes THEN exp_len ELSE HeadBytes
    IN  from_be_bytes(left_pad(SubSeq(highp, 1, n), HeadBytes))

(* the three values, as the operation takes them *)
split_values(in) ==
    LET input == right_pad_vec(in.data, in.base_len + in.exp_len + in.mod_len)
    IN  [base |-> SubSeq(input, 1, in.base_len),
         exponent |-> SubSeq(input, in.base_len + 1, in.base_len + in.exp_len),
         modulus |-> SubSeq(input, in.base_len + in.exp_len + 1, Len(input))]

modexp_gas(fn, in) ==
    LET exp_len == IF in.exp_len > UsizeMax THEN UsizeMax ELSE in.exp_len
    IN  gas_calc(fn, in.base_len, exp_len, in.mod_len,
                 read_exp_highp(in.data, in.base_len, exp_len))

run_inner(fn, min_gas, in, limit) ==
    LET gas_cost == modexp_gas(fn, in)
        over(n) == fn = "OSAKA" /\ n > INPUT_SIZE_LIMIT
    IN  IF min_gas > limit THEN OutOfGas
        ELSE IF in.base_len > UsizeMax \/ in.mod_len > UsizeMax
             THEN Fails("ModexpEip7823LimitSize")
        ELSE IF over(in.base_len) \/ over(in.mod_len) \/ over(in.exp_len)
             THEN Fails("ModexpEip7823LimitSize")
        ELSE IF gas_cost > limit THEN OutOfGas
        ELSE IF in.base_len = 0 /\ in.mod_len = 0 THEN Done(gas_cost, 0)
        ELSE Done(gas_cost, in.mod_len)
byzantium_run(in, limit) == run_inner("BYZANTIUM", 0, in, limit)
berlin_run(in, limit) == run_inner("BERLIN", 200, in, limit)
osaka_run(in, limit) == run_inner("OSAKA", 500, in, limit)

-----------------------------------------------------------------------------
(* The call of a precompile. *)

execute(p, in, limit) ==
    LET istanbul_fn == p.fn = "ISTANBUL"
    IN  CASE p.id = "EcRec" -> ec_recover_run(in, limit)
          [] p.id = "Sha256" -> sha256_run(in, limit)
          [] p.id = "Ripemd160" -> ripemd160_run(in, limit)
          [] p.id = "Identity" -> identity_run(in, limit)
          [] p.id = "ModExp" ->
                (CASE p.fn = "BYZANTIUM" -> byzantium_run(in, limit)
                   [] p.fn = "BERLIN" -> berlin_run(in, limit)
                   [] p.fn = "OSAKA" -> osaka_run(in, limit))
          [] p.id = "Bn254Add" -> run_add(in, IF istanbul_fn THEN 150 ELSE 500, limit)
          [] p.id = "Bn254Mul" -> run_mul(in, IF istanbul_fn THEN 6000 ELSE 40000, limit)
          [] p.id = "Bn254Pairing" ->
                IF istanbul_fn THEN run_pair(in, 34000, 45000, limit)
                ELSE run_pair(in, 80000, 100000, limit)
          [] p.id = "Blake2F" -> blake2_run(in, limit)
          [] p.id = "KzgPointEvaluation" -> kzg_run(in, limit)
          [] p.id = "Bls12G1Add" -> g1_add(in, limit)
          [] p.id = "Bls12G1Msm" -> g1_msm(in, limit)
          [] p.id = "Bls12G2Add" -> g2_add(in, limit)
          [] p.id = "Bls12G2Msm" -> g2_msm(in, limit)
          [] p.id = "Bls12Pairing" -> pairing(in, limit)
          [] p.id = "Bls12MapFpToGp1" -> map_fp_to_g1(in, limit)
          [] p.id = "Bls12MapFp2ToGp2" -> map_fp2_to_g2(in, limit)
          [] p.id = "P256Verify" ->
                p256_verify_inner(in, limit, IF p.fn = "OSAKA" THEN 6900 ELSE 3450)

(* EthPrecompiles::run: no precompile, or a result for the frame with the gas   *)
(* that is left; the message of an error is kept for a call at depth one        *)
provider_run(s, a, in, limit, depth) ==
    LET p == get(s, a)
        r == execute(p, in, limit)
        outcome(result, remaining, len, context) ==
            [found |-> TRUE, result |-> result, remaining |-> remaining, len |-> len,
             context |-> context]
    IN  IF p = Nothing
        THEN [outcome("none", limit, 0, FALSE) EXCEPT !.found = FALSE]
        ELSE IF r.ok THEN outcome("Return", limit - r.gas, r.len, FALSE)
        ELSE IF r.err = "OutOfGas" THEN outcome("PrecompileOOG", limit, 0, FALSE)
        ELSE outcome("PrecompileError", limit, 0, depth = 1)

-----------------------------------------------------------------------------
(* A set finds at an address, through the array for short addresses or the map, *)
(* exactly what it says it contains there: the sets of the forks, what an        *)
(* embedder adds to them, and their differences and intersections.              *)
LookupsAgree(old, new_, custom) ==
    \A s \in {extend(new(new_), custom), difference(new(new_), new(old)),
              intersection(extend(new(new_), custom), new(old))} :
        \A a \in 0..20 \cup {256} \cup {p.address : p \in custom} :
            /\ contains(s, a) <=> get(s, a) # Nothing
            /\ contains(s, a) => get(s, a) = s.inner[a] /\ get(s, a).address = a

(* The two ways to a precompile of a fork agree: by its address in the fork's    *)
(* set, and by its id with the fork; and a fork keeps what the forks before it   *)
(* had, at the same addresses.                                                  *)
IdsAndForksAgree(spec_id) ==
    LET spec == from_spec_id(spec_id)
    IN  \A a \in DOMAIN new(spec).inner :
            LET p == new(spec).inner[a]
            IN  /\ precompile(p.id, spec) = p
                /\ \A later \in spec_id..20 :
                       /\ contains(new(from_spec_id(later)), a)
                       /\ new(from_spec_id(later)).inner[a].id = p.id

(* What a precompile returns as used never exceeds the limit it was given (the   *)
(* provider asserts it), whatever the input; and where the gas was enough, more   *)
(* of it changes nothing.                                                       *)
GasDecidesOnce(s, a, in, limit, more) ==
    LET r == provider_run(s, a, in, limit, 1)
        q == provider_run(s, a, in, limit + more, 1)
    IN  /\ r.remaining \in 0..limit
        /\ r.result # "PrecompileOOG" => q = [r EXCEPT !.remaining = @ + more]

(* The price of a multi-scalar multiplication by the discount tables: one pair     *)
(* has no discount, and a pair more always costs more, also past the table.       *)
MsmPricesGrow(k) ==
    \A t \in {<<DISCOUNT_TABLE_G1_MSM, 12000>>, <<DISCOUNT_TABLE_G2_MSM, 22500>>} :
        /\ msm_required_gas(1, t[1], t[2]) = t[2]
        /\ msm_required_gas(k, t[1], t[2]) < msm_required_gas(k + 1, t[1], t[2])

(* modexp is paid by the exponent it computes with: the head read for the price,  *)
(* before the input is padded, is the head of the exponent taken from the padded   *)
(* input, and the modulus has the length the header says.                        *)
PricedExponentIsUsed(in) ==
    LET values == split_values(in)
        n == IF in.exp_len < HeadBytes THEN in.exp_len ELSE HeadBytes
    IN  /\ read_exp_highp(in.data, in.base_len, in.exp_len)
           = from_be_bytes(SubSeq(values.exponent, 1, n))
        /\ Len(values.modulus) = in.mod_len

-----------------------------------------------------------------------------
(* The BLAKE2b compression function of the blake2f precompile, in the two   *)
(* forms the crate holds: the portable one (module algo), which follows the *)
(* RFC word by word, and the one for AVX2 (module avx2), which keeps four   *)
(* words per register, rotates rows a, c and d instead of b, c and d, and    *)
(* has every message load unrolled by hand.                                 *)
(* The rotations keep their share of the word.  Arrays are tuples: word i    *)
(* of an array is at i + 1, and At(x, i) reads it.                           *)

At(x, i) == x[i + 1]

wrapping_add(x, y) == (x + y) % 2^WordBits
not(x) == 2^WordBits - 1 - x
rotate_right(x, n) == x \div 2^n + (x % 2^n) * 2^(WordBits - n)

(* the rotations by 32, 24, 16 and 63 of 64 *)
Rot32 == WordBits \div 2
Rot24 == 3 * (WordBits \div 8)
Rot16 == WordBits \div 4
Rot63 == WordBits - 1

(* the low bits of the constants *)
low(x) == x % 2^WordBits
IV == << low(\hc908), low(\ha73b), low(\hf82b), low(\h36f1),
         low(\h82d1), low(\h6c1f), low(\hbd6b), low(\h2179) >>

SIGMA ==
    << <<0, 1, 2, 3, 4, 5, 6, 7, 8, 9, 10, 11, 12, 13, 14, 15>>,
       <<14, 10, 4, 8, 9, 15, 13, 6, 1, 12, 0, 2, 11, 7, 5, 3>>,
       <<11, 8, 12, 0, 5, 2, 15, 13, 10, 14, 3, 6, 7, 1, 9, 4>>,
       <<7, 9, 3, 1, 13, 12, 11, 14, 2, 6, 5, 10, 4, 0, 15, 8>>,
       <<9, 0, 5, 7, 2, 4, 10, 15, 14, 1, 11, 12, 6, 8, 3, 13>>,
       <<2, 12, 6, 10, 0, 11, 8, 3, 4, 13, 7, 5, 15, 14, 1, 9>>,
       <<12, 5, 1, 15, 14, 13, 4, 10, 0, 7, 6, 3, 9, 2, 8, 11>>,
       <<13, 11, 7, 14, 12, 1, 3, 9, 5, 0, 15, 4, 8, 6, 2, 10>>,
       <<6, 15, 14, 9, 11, 3, 0, 8, 12, 2, 13, 7, 1, 4, 10, 5>>,
       <<10, 2, 8, 4, 7, 6, 1, 5, 15, 11, 9, 14, 3, 12, 13, 0>> >>

-----------------------------------------------------------------------------
(* The portable form. *)

g(v, a, b, c, d, x, y) ==
    LET va == wrapping_add(wrapping_add(At(v, a), At(v, b)), x)
        vd == rotate_right(At(v, d) ^^ va, Rot32)
        vc == wrapping_add(At(v, c), vd)
        vb == rotate_right(At(v, b) ^^ vc, Rot24)
        wa == wrapping_add(wrapping_add(va, vb), y)
        wd == rotate_right(vd ^^ wa, Rot16)
        wc == wrapping_add(vc, wd)
        wb == rotate_right(vb ^^ wc, Rot63)
    IN  [v EXCEPT ![a + 1] = wa, ![b + 1] = wb, ![c + 1] = wc, ![d + 1] = wd]

(* the four columns, then the four diagonals *)
round(v, m, r) ==
    LET s == At(SIGMA, r % 10)
        G(w, k, a, b, c, d) ==
            g(w, a, b, c, d, At(m, At(s, 2 * k)), At(m, At(s, 2 * k + 1)))
    IN  G(G(G(G(G(G(G(G(v, 0, 0, 4, 8, 12), 1, 1, 5, 9, 13), 2, 2, 6, 10, 14),
              3, 3, 7, 11, 15), 4, 0, 5, 10, 15), 5, 1, 6, 11, 12), 6, 2, 7, 8, 13),
          7, 3, 4, 9, 14)

(* compress before its loop, and after it *)
compress_init(h, t, f) ==
    h \o [IV EXCEPT ![5] = @ ^^ At(t, 0), ![6] = @ ^^ At(t, 1),
                    ![7] = IF f THEN not(@) ELSE @]
compress_final(h, v) == [i \in 1..8 |-> h[i] ^^ (v[i] ^^ v[i + 8])]

-----------------------------------------------------------------------------
(* The AVX2 instructions, on registers of four words.  A pair m of the       *)
(* message is broadcast to both halves of a register.                       *)

broadcastsi128(block, k) ==
    LET lo == At(block, 2 * k) hi == At(block, 2 * k + 1) IN <<lo, hi, lo, hi>>
unpacklo(x, y) == <<x[1], y[1], x[3], y[3]>>
unpackhi(x, y) == <<x[2], y[2], x[4], y[4]>>
(* the masks 0xF0 and 0x33 of _mm256_blend_epi32 *)
blendF0(x, y) == <<x[1], x[2], y[3], y[4]>>
blend33(x, y) == <<y[1], x[2], y[3], x[4]>>
(* a shift by 8 bytes of x and y together, in each half *)
alignr(x, y) == <<y[2], x[1], y[4], x[3]>>
(* _mm256_shuffle_epi32 with _MM_SHUFFLE(1, 0, 3, 2) *)
shuffle(x) == <<x[2], x[1], x[4], x[3]>>
(* _MM_SHUFFLE names the source of the highest word first *)
permute4x64(x, z, y, w, v) == <<At(x, v), At(x, w), At(x, y), At(x, z)>>
add(x, y) == <<wrapping_add(x[1], y[1]), wrapping_add(x[2], y[2]),
               wrapping_add(x[3], y[3]), wrapping_add(x[4], y[4])>>
xor(x, y) == <<x[1] ^^ y[1], x[2] ^^ y[2], x[3] ^^ y[3], x[4] ^^ y[4]>>
rot_word(x, n) == (x \div 2^n) | ((x * 2^(WordBits - n)) % 2^WordBits)
rot(x, n) == <<rot_word(x[1], n), rot_word(x[2], n), rot_word(x[3], n), rot_word(x[4], n)>>

message(block) ==
    << broadcastsi128(block, 0), broadcastsi128(block, 1), broadcastsi128(block, 2),
       broadcastsi128(block, 3), broadcastsi128(block, 4), broadcastsi128(block, 5),
       broadcastsi128(block, 6), broadcastsi128(block, 7) >>

(* the four rows of the state *)
half(s, m, first, second) ==
    LET a == add(add(s.a, m), s.b)
        d == rot(xor(s.d, a), first)
        c == add(s.c, d)
    IN  [a |-> a, b |-> rot(xor(s.b, c), second), c |-> c, d |-> d]
g1(s, m) == half(s, m, Rot32, Rot24)
g2(s, m) == half(s, m, Rot16, Rot63)

(* b rotated as in the reference, although the loads are laid out for a *)
diagonalize_rows(s) ==
    [s EXCEPT !.b = permute4x64(@, 0, 3, 2, 1), !.c = permute4x64(@, 1, 0, 3, 2),
              !.d = permute4x64(@, 2, 1, 0, 3)]

diagonalize(s) ==
    [s EXCEPT !.a = permute4x64(@, 2, 1, 0, 3), !.d = permute4x64(@, 1, 0, 3, 2),
              !.c = permute4x64(@, 0, 3, 2, 1)]
undiagonalize(s) ==
    [s EXCEPT !.a = permute4x64(@, 0, 3, 2, 1), !.d = permute4x64(@, 1, 0, 3, 2),
              !.c = permute4x64(@, 2, 1, 0, 3)]
(* The loads of the ten unrolled rounds: t0 and t1 of the four halves, the   *)
(* first two for the columns and the last two for the diagonals.  The pair    *)
(* m0 of the code is m[1] here, and so on.                                   *)
loads_1(m) ==
    << <<unpacklo(m[1], m[2]), unpacklo(m[3], m[4])>>,
       <<unpackhi(m[1], m[2]), unpackhi(m[3], m[4])>>,
       <<unpacklo(m[8], m[5]), unpacklo(m[6], m[7])>>,
       <<unpackhi(m[8], m[5]), unpackhi(m[6], m[7])>> >>
loads_2(m) ==
    << <<unpacklo(m[8], m[3]), unpackhi(m[5], m[7])>>,
       <<unpacklo(m[6], m[5]), alignr(m[4], m[8])>>,
       <<unpackhi(m[3], m[1]), blend33(m[6], m[1])>>,
       <<alignr(m[7], m[2]), blend33(m[4], m[2])>> >>
loads_3(m) ==
    << <<alignr(m[7], m[6]), unpackhi(m[3], m[8])>>,
       <<unpacklo(m[5], m[1]), blend33(m[7], m[2])>>,
       <<alignr(m[6], m[5]), unpackhi(m[2], m[4])>>,
       <<unpacklo(m[3], m[8]), blend33(m[1], m[4])>> >>
loads_4(m) ==
    << <<unpackhi(m[4], m[2]), unpackhi(m[7], m[6])>>,
       <<unpackhi(m[5], m[1]), unpacklo(m[7], m[8])>>,
       <<alignr(m[2], m[8]), shuffle(m[3])>>,
       <<unpacklo(m[5], m[4]), unpacklo(m[6], m[1])>> >>
loads_5(m) ==
    << <<unpackhi(m[5], m[3]), unpacklo(m[2], m[6])>>,
       <<blend33(m[4], m[1]), blend33(m[8], m[3])>>,
       <<alignr(m[8], m[2]), alignr(m[4], m[6])>>,
       <<unpackhi(m[7], m[1]), unpacklo(m[7], m[5])>> >>
loads_6(m) ==
    << <<unpacklo(m[2], m[4]), unpacklo(m[1], m[5])>>,
       <<unpacklo(m[7], m[6]), unpackhi(m[6], m[2])>>,
       <<alignr(m[3], m[1]), unpackhi(m[4], m[8])>>,
       <<unpackhi(m[5], m[7]), alignr(m[8], m[3])>> >>
loads_7(m) ==
    << <<blend33(m[1], m[7]), unpacklo(m[8], m[3])>>,
       <<unpackhi(m[3], m[8]), alignr(m[6], m[7])>>,
       <<unpacklo(m[5], m[1]), blend33(m[5], m[4])>>,
       <<unpackhi(m[6], m[4]), shuffle(m[2])>> >>
loads_8(m) ==
    << <<unpackhi(m[7], m[4]), blend33(m[2], m[7])>>,
       <<alignr(m[8], m[6]), unpackhi(m[1], m[5])>>,
       <<blend33(m[3], m[2]), alignr(m[5], m[8])>>,
       <<unpacklo(m[6], m[1]), unpacklo(m[3], m[4])>> >>
loads_9(m) ==
    << <<unpacklo(m[4], m[8]), alignr(m[1], m[6])>>,
       <<unpackhi(m[8], m[5]), alignr(m[5], m[2])>>,
       <<unpacklo(m[6], m[7]), unpackhi(m[7], m[1])>>,
       <<alignr(m[2], m[3]), alignr(m[3], m[4])>> >>
loads_10(m) ==
    << <<unpacklo(m[6], m[5]), unpackhi(m[4], m[1])>>,
       <<unpacklo(m[2], m[3]), blend33(m[3], m[4])>>,
       <<unpackhi(m[7], m[8]), unpackhi(m[5], m[2])>>,
       <<blend33(m[6], m[1]), unpacklo(m[8], m[7])>> >>

unrolled(m, r) ==
    CASE r = 0 -> loads_1(m) [] r = 1 -> loads_2(m) [] r = 2 -> loads_3(m)
      [] r = 3 -> loads_4(m) [] r = 4 -> loads_5(m) [] r = 5 -> loads_6(m)
      [] r = 6 -> loads_7(m) [] r = 7 -> loads_8(m) [] r = 8 -> loads_9(m)
      [] r = 9 -> loads_10(m)

(* the loop goes through the ten rounds again while rounds are left *)
simd_round(s, m, r) ==
    LET t == unrolled(m, r % 10)
        b0(k) == blendF0(t[k][1], t[k][2])
        columns == diagonalize(g2(g1(s, b0(1)), b0(2)))
    IN  undiagonalize(g2(g1(columns, b0(3)), b0(4)))

(* compress_block before its loop, and after it *)
block_init(words, count_low, count_high, last_block, last_node) ==
    LET flags == <<count_low, count_high, last_block, last_node>>
    IN  [a |-> SubSeq(words, 1, 4), b |-> SubSeq(words, 5, 8), c |-> SubSeq(IV, 1, 4),
         d |-> xor(SubSeq(IV, 5, 8), flags)]
block_final(words, s) ==
    xor(xor(s.a, s.c), SubSeq(words, 1, 4)) \o xor(xor(s.b, s.d), SubSeq(words, 5, 8))

-----------------------------------------------------------------------------
(* Both forms at work on one block: what they were given and their states    *)
(* after the rounds so far.  Every number of rounds is a number the caller     *)
(* may ask for.                                                               *)
BlockStart(h, m, t, f) ==
    [h |-> h, m |-> m, rounds |-> 0, v |-> compress_init(h, t, f),
     s |-> block_init(h, At(t, 0), At(t, 1), IF f THEN 2^WordBits - 1 ELSE 0, 0)]
BlockRound(w) ==
    [w EXCEPT !.rounds = @ + 1, !.v = round(@, w.m, w.rounds),
              !.s = simd_round(@, message(w.m), w.rounds)]

(* compress calls compress_block where AVX2 is there and returns what it      *)
(* stored: both forms must compute the same state, for every number of       *)
(* rounds, more than the ten that are unrolled among them.  Swapped operands  *)
(* of one of the eighty loads show only in the rounds that use them.          *)
FormsAgree(w) == compress_final(w.h, w.v) = block_final(w.h, w.s)

==============================================================================
