------------------------------- MODULE Curves --------------------------------
(***************************************************************************)
(* The curve operations behind the precompiles.  Each has two backends that *)
(* a feature of the build selects: blst or arkworks for BLS12-381 and KZG,   *)
(* substrate-bn or arkworks for bn254, libsecp256k1 or k256 for ecrecover.   *)
(*                                                                         *)
(* The libraries are external.  A curve group is the integers modulo         *)
(* Order * cofactor with 0 the point at infinity, its subgroup of prime      *)
(* order the multiples of the cofactor, a pairing the product of the two     *)
(* indices modulo Order.  That keeps what the code around the libraries is    *)
(* about: which points are on the curve and in the subgroup, which inputs     *)
(* are skipped, and what the sum or the product of the rest is.              *)
(*                                                                         *)
(* The bytes of a point are a record: pad says whether the padding of its     *)
(* coordinates is zero, form whether they are canonical field elements of a    *)
(* point of the curve, p is that point.  Scalars are integers below           *)
(* MaxScalar, which is above Order as 2^256 is.                              *)
(***************************************************************************)
EXTENDS Naturals, Sequences, FiniteSetsExt, SequencesExt

CONSTANTS Order, Cofactor1, Cofactor2, MaxScalar, Tau

G1 == [n |-> Order * Cofactor1, h |-> Cofactor1]
G2 == [n |-> Order * Cofactor2, h |-> Cofactor2]

Ok(v) == [ok |-> TRUE, val |-> v, err |-> "none"]
Err(e) == [ok |-> FALSE, val |-> 0, err |-> e]

(* The group operations and the pairing of the libraries. *)
plus(C, a, b) == (a + b) % C.n
minus(C, a, b) == (a + C.n - b) % C.n
times(C, a, s) == (a * s) % C.n
in_subgroup(C, p) == p % C.h = 0
miller_loop(a, b) == (a \div Cofactor1) * (b \div Cofactor2)
is_zero(enc) == enc.form = "point" /\ enc.p = 0

(* what a loop with ? over the inputs returns: the error of the first that    *)
(* fails, or what becomes of all of them                                     *)
ForEach(read(_), inputs, then(_)) ==
    LET results == [i \in DOMAIN inputs |-> read(inputs[i])]
        failed == {i \in DOMAIN inputs : ~results[i].ok}
    IN  IF failed # {} THEN results[Min(failed)]
        ELSE then([i \in DOMAIN inputs |-> results[i].val])

SumOf(C, points, scalars) ==
    FoldLeft(LAMBDA acc, i : plus(C, acc, times(C, points[i], scalars[i])), 0,
             [i \in DOMAIN points |-> i])

-----------------------------------------------------------------------------
(* BLS12-381 with blst. *)

blst_read_fp(enc) ==
    IF enc.form = "noncanonical" THEN Err("NonCanonicalFp") ELSE Ok(enc.p)

decode_g1_on_curve(enc) ==
    IF blst_read_fp(enc).ok /\ enc.form = "offcurve"
    THEN Err("G1NotOnCurve") ELSE blst_read_fp(enc)
(* the check left out, as addition may *)
_extract_g1_unchecked(enc, subgroup_check) == decode_g1_on_curve(enc)
_extract_g1_input(enc, subgroup_check) ==
    LET out == decode_g1_on_curve(enc)
    IN  IF out.ok /\ subgroup_check /\ ~in_subgroup(G1, out.val)
        THEN Err("G1NotInSubgroup") ELSE out
blst_read_g1(enc) == _extract_g1_input(enc, TRUE)

decode_g2_on_curve(enc) ==
    IF blst_read_fp(enc).ok /\ enc.form = "offcurve"
    THEN Err("G2NotOnCurve") ELSE blst_read_fp(enc)
_extract_g2_input(enc, subgroup_check) ==
    LET out == decode_g2_on_curve(enc)
    IN  IF out.ok /\ subgroup_check /\ ~in_subgroup(G2, out.val)
        THEN Err("G2NotInSubgroup") ELSE out
blst_read_g2(enc) == _extract_g2_input(enc, TRUE)

(* not reduced: the scalar need not be below the order *)
blst_read_scalar(s) == s

p1_add_affine(a, b) == plus(G1, a, b)
p2_add_affine(a, b) == plus(G2, a, b)
p1_scalar_mul(p, scalar) == times(G1, p, scalar)
p2_scalar_mul(p, scalar) == times(G2, p, scalar)

p1_msm(points, scalars) ==
    IF points = <<>> THEN 0
    ELSE IF Len(points) = 1 THEN p1_scalar_mul(points[1], scalars[1])
    ELSE SumOf(G1, points, scalars)
p2_msm(points, scalars) ==
    IF points = <<>> THEN 0
    ELSE IF Len(points) = 1 THEN p2_scalar_mul(points[1], scalars[1])
    ELSE SumOf(G2, points, scalars)

pairing_check(pairs) ==
    IF pairs = <<>> THEN TRUE
    ELSE LET acc == FoldLeft(LAMBDA f, pair : f + miller_loop(pair[1], pair[2]),
                             miller_loop(pairs[1][1], pairs[1][2]), Tail(pairs))
         IN  acc % Order = 0

p1_add_affine_bytes(a, b) ==
    ForEach(LAMBDA enc : _extract_g1_input(enc, FALSE), <<a, b>>,
            LAMBDA p : Ok(p1_add_affine(p[1], p[2])))
(* the subgroup looked at as well *)
p2_add_affine_checked(a, b) ==
    ForEach(LAMBDA enc : _extract_g2_input(enc, TRUE), <<a, b>>,
            LAMBDA p : Ok(p2_add_affine(p[1], p[2])))
p2_add_affine_bytes(a, b) ==
    ForEach(LAMBDA enc : _extract_g2_input(enc, FALSE), <<a, b>>,
            LAMBDA p : Ok(p2_add_affine(p[1], p[2])))

(* The pairs come from an iterator that removes the padding as it goes; a     *)
(* zero scalar is skipped after its point was validated.                     *)
read_pair(read(_), pair) ==
    IF ~pair.point.pad THEN Err("FpPaddingInvalid") ELSE read(pair.point)
kept(pairs) == SelectSeq(pairs, LAMBDA pair : pair.scalar # 0)

p1_msm_bytes(pairs) ==
    ForEach(LAMBDA pair : read_pair(blst_read_g1, pair), pairs, LAMBDA points :
        LET rest == kept(pairs)
        IN  IF rest = <<>> THEN Ok(0)
            ELSE Ok(p1_msm([i \in DOMAIN rest |-> rest[i].point.p],
                           [i \in DOMAIN rest |-> blst_read_scalar(rest[i].scalar)])))
p2_msm_bytes(pairs) ==
    ForEach(LAMBDA pair : read_pair(blst_read_g2, pair), pairs, LAMBDA points :
        LET rest == kept(pairs)
        IN  IF rest = <<>> THEN Ok(0)
            ELSE Ok(p2_msm([i \in DOMAIN rest |-> rest[i].point.p],
                           [i \in DOMAIN rest |-> blst_read_scalar(rest[i].scalar)])))

(* A pair with a point at infinity adds nothing, but the other point of it     *)
(* must still be valid.                                                      *)
read_points(g1(_), g2(_), pair) ==
    LET a == g1(pair.g1) b == g2(pair.g2)
    IN  IF ~is_zero(pair.g1) /\ ~a.ok THEN a
        ELSE IF ~is_zero(pair.g2) /\ ~b.ok THEN b
        ELSE Ok(<<pair.g1.p, pair.g2.p>>)
finite(points) == SelectSeq(points, LAMBDA pair : pair[1] # 0 /\ pair[2] # 0)

pairing_check_bytes(pairs) ==
    ForEach(LAMBDA pair : read_points(blst_read_g1, blst_read_g2, pair), pairs,
            LAMBDA points : Ok(IF pairing_check(finite(points)) THEN 1 ELSE 0))

-----------------------------------------------------------------------------
(* BLS12-381 with arkworks. *)

ark_read_fp(enc) ==
    IF enc.form = "noncanonical" THEN Err("NonCanonicalFp") ELSE Ok(enc.p)

(* infinity is its own case: it has no affine coordinates *)
new_g1_point_no_subgroup_check(enc) ==
    IF is_zero(enc) THEN Ok(0)
    ELSE IF enc.form = "offcurve" THEN Err("G1NotOnCurve") ELSE Ok(enc.p)
new_g2_point_no_subgroup_check(enc) ==
    IF is_zero(enc) THEN Ok(0)
    ELSE IF enc.form = "offcurve" THEN Err("G2NotOnCurve") ELSE Ok(enc.p)

ark_read_g1_no_subgroup_check(enc) ==
    IF ~ark_read_fp(enc).ok THEN ark_read_fp(enc) ELSE new_g1_point_no_subgroup_check(enc)
ark_read_g2_no_subgroup_check(enc) ==
    IF ~ark_read_fp(enc).ok THEN ark_read_fp(enc) ELSE new_g2_point_no_subgroup_check(enc)

ark_read_g1(enc) ==
    LET point == ark_read_g1_no_subgroup_check(enc)
    IN  IF point.ok /\ ~in_subgroup(G1, point.val) THEN Err("G1NotInSubgroup") ELSE point
(* this backend names G1 in the error of a G2 point *)
ark_read_g2(enc) ==
    LET point == ark_read_g2_no_subgroup_check(enc)
    IN  IF point.ok /\ ~in_subgroup(G2, point.val) THEN Err("G1NotInSubgroup") ELSE point

ark_read_scalar(s) == s % Order

ark_p1_msm(points, scalars) ==
    IF points = <<>> THEN 0
    ELSE IF Len(points) = 1 THEN times(G1, points[1], scalars[1])
    ELSE SumOf(G1, points, scalars)
ark_p2_msm(points, scalars) ==
    IF points = <<>> THEN 0
    ELSE IF Len(points) = 1 THEN times(G2, points[1], scalars[1])
    ELSE SumOf(G2, points, scalars)
ark_pairing_check(pairs) ==
    pairs = <<>> \/ FoldLeft(LAMBDA f, pair : (f + miller_loop(pair[1], pair[2])) % Order,
                             0, pairs) = 0

ark_p1_add_affine_bytes(a, b) ==
    ForEach(ark_read_g1_no_subgroup_check, <<a, b>>, LAMBDA p : Ok(plus(G1, p[1], p[2])))
ark_p2_add_affine_bytes(a, b) ==
    ForEach(ark_read_g2_no_subgroup_check, <<a, b>>, LAMBDA p : Ok(plus(G2, p[1], p[2])))

ark_p1_msm_bytes(pairs) ==
    ForEach(LAMBDA pair : read_pair(ark_read_g1, pair), pairs, LAMBDA points :
        LET rest == kept(pairs)
        IN  IF rest = <<>> THEN Ok(0)
            ELSE Ok(ark_p1_msm([i \in DOMAIN rest |-> rest[i].point.p],
                               [i \in DOMAIN rest |-> ark_read_scalar(rest[i].scalar)])))
ark_p2_msm_bytes(pairs) ==
    ForEach(LAMBDA pair : read_pair(ark_read_g2, pair), pairs, LAMBDA points :
        LET rest == kept(pairs)
        IN  IF rest = <<>> THEN Ok(0)
            ELSE Ok(ark_p2_msm([i \in DOMAIN rest |-> rest[i].point.p],
                               [i \in DOMAIN rest |-> ark_read_scalar(rest[i].scalar)])))

ark_pairing_check_bytes(pairs) ==
    ForEach(LAMBDA pair : read_points(ark_read_g1, ark_read_g2, pair), pairs,
            LAMBDA points : Ok(IF ark_pairing_check(finite(points)) THEN 1 ELSE 0))

-----------------------------------------------------------------------------
(* The KZG proof: commitment and proof are compressed points, z and y         *)
(* scalars that must be canonical.                                           *)

blst_parse_g1_compressed(enc) ==
    CASE enc.form = "noncanonical" -> Err("KzgInvalidG1Point")
      [] enc.form = "offcurve" -> Err("KzgG1PointNotOnCurve")
      [] enc.form = "point" /\ ~in_subgroup(G1, enc.p) -> Err("KzgG1PointNotInSubgroup")
      [] OTHER -> Ok(enc.p)
blst_read_scalar_canonical(s) == s < Order
blst_verify_kzg_proof(commitment, z, y, proof) ==
    /\ blst_parse_g1_compressed(commitment).ok /\ blst_parse_g1_compressed(proof).ok
    /\ blst_read_scalar_canonical(z) /\ blst_read_scalar_canonical(y)
    /\ LET p_minus_y == minus(G1, commitment.p, p1_scalar_mul(Cofactor1, y))
           x_minus_z == minus(G2, times(G2, Cofactor2, Tau), p2_scalar_mul(Cofactor2, z))
           neg_g2 == minus(G2, 0, Cofactor2)
       IN  pairing_check(<< <<p_minus_y, neg_g2>>, <<proof.p, x_minus_z>> >>)

ark_parse_g1_compressed(enc) == enc.form = "point" /\ in_subgroup(G1, enc.p)
(* reduced, written back and compared *)
ark_read_scalar_canonical(s) == ark_read_scalar(s) = s
(* the sign of the generator forgotten *)
ark_verify_kzg_unsigned(commitment, z, y, proof) ==
    /\ ark_parse_g1_compressed(commitment) /\ ark_parse_g1_compressed(proof)
    /\ ark_read_scalar_canonical(z) /\ ark_read_scalar_canonical(y)
    /\ LET p_minus_y == minus(G1, commitment.p, times(G1, Cofactor1, y))
           x_minus_z == minus(G2, times(G2, Cofactor2, Tau), times(G2, Cofactor2, z))
       IN  ark_pairing_check(<< <<p_minus_y, Cofactor2>>, <<proof.p, x_minus_z>> >>)
ark_verify_kzg_proof(commitment, z, y, proof) ==
    /\ ark_parse_g1_compressed(commitment) /\ ark_parse_g1_compressed(proof)
    /\ ark_read_scalar_canonical(z) /\ ark_read_scalar_canonical(y)
    /\ LET p_minus_y == minus(G1, commitment.p, times(G1, Cofactor1, y))
           x_minus_z == minus(G2, times(G2, Cofactor2, Tau), times(G2, Cofactor2, z))
           neg_g2 == minus(G2, 0, Cofactor2)
       IN  ark_pairing_check(<< <<p_minus_y, neg_g2>>, <<proof.p, x_minus_z>> >>)

-----------------------------------------------------------------------------
(* bn254: every point of the first curve is in the group, so that only the     *)
(* second has a subgroup to check.  Both backends skip pairs with a point at   *)
(* infinity after reading both.                                              *)

BnG1 == [n |-> Order, h |-> 1]
bn_pairing(pairs) ==
    FoldLeft(LAMBDA f, pair : f + pair[1] * (pair[2] \div Cofactor2), 0, pairs) % Order

bn_read_fq(enc) ==
    IF enc.form = "noncanonical" THEN Err("FieldPointNotAMember") ELSE Ok(enc.p)

sub_new_g1_point(enc) ==
    IF is_zero(enc) THEN Ok(0)
    ELSE IF enc.form = "offcurve" THEN Err("AffineGFailedToCreate") ELSE Ok(enc.p)
(* AffineG2::new checks the curve and the subgroup *)
sub_new_g2_point(enc) ==
    IF is_zero(enc) THEN Ok(0)
    ELSE IF enc.form = "offcurve" \/ ~in_subgroup(G2, enc.p)
         THEN Err("AffineGFailedToCreate") ELSE Ok(enc.p)
sub_read_g1_point(enc) == IF bn_read_fq(enc).ok THEN sub_new_g1_point(enc) ELSE bn_read_fq(enc)
sub_read_g2_point(enc) == IF bn_read_fq(enc).ok THEN sub_new_g2_point(enc) ELSE bn_read_fq(enc)
sub_g1_point_add(a, b) ==
    ForEach(sub_read_g1_point, <<a, b>>, LAMBDA p : Ok(plus(BnG1, p[1], p[2])))
sub_g1_point_mul(a, scalar) ==
    ForEach(sub_read_g1_point, <<a>>, LAMBDA p : Ok(times(BnG1, p[1], scalar % Order)))
read_both(g1(_), g2(_), pair) ==
    IF ~g1(pair.g1).ok THEN g1(pair.g1)
    ELSE IF ~g2(pair.g2).ok THEN g2(pair.g2) ELSE Ok(<<pair.g1.p, pair.g2.p>>)
sub_pairing_check(pairs) ==
    ForEach(LAMBDA pair : read_both(sub_read_g1_point, sub_read_g2_point, pair), pairs,
            LAMBDA points : Ok(IF finite(points) = <<>> \/ bn_pairing(finite(points)) = 0
                               THEN 1 ELSE 0))

ark_new_g1_point(enc) ==
    IF is_zero(enc) THEN Ok(0)
    ELSE IF enc.form = "offcurve" \/ ~in_subgroup(BnG1, enc.p)
         THEN Err("AffineGFailedToCreate") ELSE Ok(enc.p)
(* only the curve checked *)
ark_new_g2_curve_only(enc) ==
    IF is_zero(enc) THEN Ok(0)
    ELSE IF enc.form = "offcurve" THEN Err("AffineGFailedToCreate") ELSE Ok(enc.p)
ark_new_g2_point(enc) ==
    IF is_zero(enc) THEN Ok(0)
    ELSE IF enc.form = "offcurve" \/ ~in_subgroup(G2, enc.p)
         THEN Err("AffineGFailedToCreate") ELSE Ok(enc.p)
ark_read_g1_point(enc) == IF bn_read_fq(enc).ok THEN ark_new_g1_point(enc) ELSE bn_read_fq(enc)
ark_read_g2_point(enc) == IF bn_read_fq(enc).ok THEN ark_new_g2_point(enc) ELSE bn_read_fq(enc)
ark_g1_point_add(a, b) ==
    ForEach(ark_read_g1_point, <<a, b>>, LAMBDA p : Ok(plus(BnG1, p[1], p[2])))
ark_g1_point_mul(a, scalar) ==
    ForEach(ark_read_g1_point, <<a>>,
            LAMBDA p : Ok(times(BnG1, p[1], ark_read_scalar(scalar))))
ark_bn_pairing_check(pairs) ==
    ForEach(LAMBDA pair : read_both(ark_read_g1_point, ark_read_g2_point, pair), pairs,
            LAMBDA points : Ok(IF finite(points) = <<>> \/ bn_pairing(finite(points)) = 0
                               THEN 1 ELSE 0))

-----------------------------------------------------------------------------
(* ecrecover in a group of SigOrder elements, of which the numbers are the     *)
(* discrete logarithms.  A number and its opposite have the same x             *)
(* coordinate; the recovery id says which of the two was meant.               *)

SigOrder == 7
opposite(k) == SigOrder - k
inverse(k) == CHOOSE i \in 1..(SigOrder - 1) : (i * k) % SigOrder = 1
has_x(k, r) == (k * k) % SigOrder = r
lift_x(r, recid) ==
    CHOOSE k \in 1..(SigOrder - 1) : has_x(k, r) /\ (k > SigOrder \div 2) = (recid = 1)

parse_signature(r, s) == r \in 1..(SigOrder - 1) /\ s \in 1..(SigOrder - 1)
(* the key whose signature of msg is r and s; key 0 is no key *)
recover(r, s, recid, msg) ==
    LET key == (inverse(r) * (s * lift_x(r, recid) + opposite(msg % SigOrder))) % SigOrder
    IN  IF \A k \in 1..(SigOrder - 1) : ~has_x(k, r) THEN Err("InvalidSignature")
        ELSE IF key = 0 THEN Err("InvalidSignature") ELSE Ok(key)

bitcoin_ecrecover(r, s, recid, msg) ==
    IF parse_signature(r, s) THEN recover(r, s, recid, msg) ELSE Err("InvalidSignature")
(* the id kept when s is normalised *)
k256_ecrecover_kept(r, s, recid, msg) ==
    IF ~parse_signature(r, s) THEN Err("InvalidSignature")
    ELSE IF s > SigOrder \div 2 THEN recover(r, opposite(s), recid, msg)
    ELSE recover(r, s, recid, msg)
(* a high s is replaced by its opposite and the recovery id flipped *)
k256_ecrecover(r, s, recid, msg) ==
    IF ~parse_signature(r, s) THEN Err("InvalidSignature")
    ELSE IF s > SigOrder \div 2 THEN recover(r, opposite(s), 1 - recid, msg)
    ELSE recover(r, s, recid, msg)

-----------------------------------------------------------------------------
SameOutcome(x, y) == x.ok = y.ok /\ x.val = y.val

Valid(C, enc) == enc.pad /\ enc.form = "point" /\ in_subgroup(C, enc.p)

(* Whichever backend the build has, a multi-scalar multiplication succeeds     *)
(* exactly when every point is a padded point of the subgroup, those with a    *)
(* zero scalar included, and gives the sum of the multiples, a scalar not       *)
(* being required to be below the order.                                      *)
MsmIsSum(pairs) ==
    LET points == [i \in DOMAIN pairs |-> pairs[i].point.p]
        scalars == [i \in DOMAIN pairs |-> pairs[i].scalar]
        Expected(C) == IF \A i \in DOMAIN pairs : Valid(C, pairs[i].point)
                       THEN Ok(SumOf(C, points, scalars)) ELSE Err("any")
    IN  /\ SameOutcome(p1_msm_bytes(pairs), Expected(G1))
        /\ SameOutcome(ark_p1_msm_bytes(pairs), Expected(G1))
        /\ SameOutcome(p2_msm_bytes(pairs), Expected(G2))
        /\ SameOutcome(ark_p2_msm_bytes(pairs), Expected(G2))

(* Addition accepts points outside the subgroup, in both backends. *)
AddIsSum(a, b) ==
    LET Expected(C) == IF a.form = "point" /\ b.form = "point"
                       THEN Ok(plus(C, a.p, b.p)) ELSE Err("any")
    IN  /\ SameOutcome(p1_add_affine_bytes(a, b), Expected(G1))
        /\ SameOutcome(ark_p1_add_affine_bytes(a, b), Expected(G1))
        /\ SameOutcome(p2_add_affine_bytes(a, b), Expected(G2))
        /\ SameOutcome(ark_p2_add_affine_bytes(a, b), Expected(G2))
        /\ a.p < Order /\ b.p < Order =>
           /\ SameOutcome(sub_g1_point_add(a, b), ark_g1_point_add(a, b))
           /\ SameOutcome(sub_g1_point_mul(a, b.p), ark_g1_point_mul(a, b.p))

(* The pairing checks of both curves and of all backends validate every point, *)
(* also the partner of a point at infinity, and say whether the product of     *)
(* the pairings is one.                                                       *)
PairingIsProduct(pairs) ==
    LET valid == \A i \in DOMAIN pairs :
                     /\ pairs[i].g1.form = "point" /\ in_subgroup(G1, pairs[i].g1.p)
                     /\ pairs[i].g2.form = "point" /\ in_subgroup(G2, pairs[i].g2.p)
        product == FoldLeft(LAMBDA f, pair : f + miller_loop(pair.g1.p, pair.g2.p), 0, pairs)
        expected == IF valid THEN Ok(IF product % Order = 0 THEN 1 ELSE 0) ELSE Err("any")
    IN  /\ SameOutcome(pairing_check_bytes(pairs), expected)
        /\ SameOutcome(ark_pairing_check_bytes(pairs), expected)
        /\ (\A i \in DOMAIN pairs : pairs[i].g1.p < Order) =>
           SameOutcome(sub_pairing_check(pairs), ark_bn_pairing_check(pairs))

(* A KZG proof is accepted exactly when the commitment, less the value y, is   *)
(* the proof times (tau - z): both backends, and only canonical scalars.       *)
KzgChecksEvaluation(commitment, z, y, proof) ==
    LET accepted == /\ commitment.form = "point" /\ in_subgroup(G1, commitment.p)
                    /\ proof.form = "point" /\ in_subgroup(G1, proof.p)
                    /\ z < Order /\ y < Order
                    /\ (commitment.p \div Cofactor1 + (Order - y)) % Order
                       = ((proof.p \div Cofactor1) * (Order + Tau - z)) % Order
    IN  /\ blst_verify_kzg_proof(commitment, z, y, proof) = accepted
        /\ ark_verify_kzg_proof(commitment, z, y, proof) = accepted

(* A signature recovers the same key with either library: k256 only takes a    *)
(* low s, so the code normalises the signature and flips the recovery id.      *)
RecoversSameKey(r, s, recid, msg) ==
    SameOutcome(bitcoin_ecrecover(r, s, recid, msg), k256_ecrecover(r, s, recid, msg))

==============================================================================
