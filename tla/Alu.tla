--------------------------------- MODULE Alu ---------------------------------
(***************************************************************************)
(* The arithmetic, comparison and bit instructions on words of Bits bits,   *)
(* NumBytes bytes of ByteBits bits each (the code's words have 32 bytes of   *)
(* 8 bits), and what the Yellow Paper says they compute, written with the    *)
(* integers TLA+ has.                                                        *)
(***************************************************************************)
EXTENDS Integers, Sequences, FiniteSetsExt, Bitwise

CONSTANTS ByteBits, NumBytes

Bits == ByteBits * NumBytes
Size == 2 ^ Bits
Words == 0..(Size - 1)

Bit(x, i) == (x \div 2 ^ i) % 2
Bool(b) == IF b THEN 1 ELSE 0

wrapping(n) == n % Size

(* i256.rs *)
Minus == -1
Zero == 0
MIN_NEGATIVE_VALUE == 2 ^ (Bits - 1)

i256_sign(x) == IF Bit(x, Bits - 1) = 1 THEN Minus ELSE Bool(x # 0)
two_compl(x) == wrapping(-x)
Abs(x) == IF i256_sign(x) = Minus THEN two_compl(x) ELSE x
u256_remove_sign(x) == x % MIN_NEGATIVE_VALUE

i256_less(x, y) ==
    IF i256_sign(x) = i256_sign(y) THEN x < y ELSE i256_sign(x) < i256_sign(y)

(* mutant: the sign of the quotient is the sign of the dividend *)
i256_div_dividend(x, y) ==
    LET d == u256_remove_sign(Abs(x) \div Abs(y)) IN
    IF y = 0 THEN 0 ELSE IF i256_sign(x) = Minus THEN two_compl(d) ELSE d

i256_div(x, y) ==
    LET d == u256_remove_sign(Abs(x) \div Abs(y)) IN
    CASE i256_sign(y) = Zero -> 0
      [] i256_sign(y) # Zero /\ Abs(x) = MIN_NEGATIVE_VALUE /\ Abs(y) = 1 -> two_compl(MIN_NEGATIVE_VALUE)
      [] OTHER -> IF (i256_sign(x) = Minus) # (i256_sign(y) = Minus) THEN two_compl(d) ELSE d

i256_mod(x, y) ==
    LET r == u256_remove_sign(Abs(x) % Abs(y)) IN
    IF i256_sign(x) = Zero \/ i256_sign(y) = Zero THEN 0
    ELSE IF i256_sign(x) = Minus THEN two_compl(r) ELSE r

(* arithmetic.rs; op1 is on top of the stack.  Division leaves a zero divisor *)
(* where it is.                                                               *)
div(x, y) == IF y # 0 THEN x \div y ELSE y
rem(x, y) == IF y # 0 THEN x % y ELSE y
addmod(x, y, n) == IF n = 0 THEN 0 ELSE (x + y) % n
mulmod(x, y, n) == IF n = 0 THEN 0 ELSE (x * y) % n

(* pow by squaring: the base is squared and the exponent halved, modulo Size *)
RECURSIVE pow(_, _)
(* mutant: the factor of an odd exponent is forgotten after the first squaring *)
pow_even(x, n) == wrapping((IF n <= 1 THEN 1 ELSE pow(wrapping(x * x), n \div 2)) * (IF n = 1 THEN x ELSE 1))
pow(x, n) ==
    IF n = 0 THEN wrapping(1)
    ELSE wrapping(pow(wrapping(x * x), n \div 2) * (IF n % 2 = 1 THEN x ELSE 1))

(* mutant: the highest byte is extended as well, with the bit above it *)
signextend_above(ext, x) ==
    LET bit == ByteBits * ext + ByteBits
        mask == 2 ^ bit - 1
    IN IF ext >= NumBytes - 1 THEN x
       ELSE IF Bit(x, bit) = 1 THEN x | (Size - 1 - mask) ELSE x & mask

signextend(ext, x) ==
    LET bit == ByteBits * ext + ByteBits - 1
        mask == 2 ^ bit - 1
    IN IF ext >= NumBytes - 1 THEN x
       ELSE IF Bit(x, bit) = 1 THEN x | (Size - 1 - mask) ELSE x & mask

(* bitwise.rs *)
not(x) == Size - 1 - x
byte(i, x) == IF i < NumBytes THEN (x \div 2 ^ (ByteBits * (NumBytes - 1 - i))) % 2 ^ ByteBits ELSE 0
shl(shift, x) == IF shift < Bits THEN wrapping(x * 2 ^ shift) ELSE 0
shr(shift, x) == IF shift < Bits THEN x \div 2 ^ shift ELSE 0

(* mutant: a shift by all bits forgets the sign *)
sar_unsigned(shift, x) ==
    IF shift < Bits
    THEN shr(shift, x) | (IF Bit(x, Bits - 1) = 1 THEN Size - 2 ^ (Bits - shift) ELSE 0)
    ELSE 0

(* arithmetic_shr: the sign fills the bits that become free *)
sar(shift, x) ==
    CASE shift < Bits -> shr(shift, x) | (IF Bit(x, Bits - 1) = 1 THEN Size - 2 ^ (Bits - shift) ELSE 0)
      [] shift >= Bits /\ Bit(x, Bits - 1) = 1 -> Size - 1
      [] OTHER -> 0

(* leading_zeros *)
clz(x) == Bits - Max({0} \cup {i + 1 : i \in {j \in 0..(Bits - 1) : Bit(x, j) = 1}})

--------------------------------------------------------------------------------
(* The word as a signed number, and back. *)
Signed(x) == IF x >= MIN_NEGATIVE_VALUE THEN x - Size ELSE x
AbsInt(n) == IF n < 0 THEN -n ELSE n
Sgn(n) == IF n < 0 THEN -1 ELSE 1

(* SDIV and SMOD divide towards zero: the quotient and the remainder make      *)
(* the dividend again, except that the most negative number divided by -1      *)
(* wraps to itself; the remainder is smaller than the divisor and has the      *)
(* sign of the dividend; dividing by zero gives zero.  SLT and SGT order words  *)
(* as the same signed numbers.                                                *)
SignedNumbers(x, y) ==
    LET q == Signed(i256_div(x, y))
        r == Signed(i256_mod(x, y))
    IN  /\ i256_less(x, y) <=> Signed(x) < Signed(y)
        /\ y = 0 => q = 0 /\ r = 0
        /\ y # 0 =>
             /\ wrapping(q * Signed(y) + r) = x
             /\ AbsInt(r) < AbsInt(Signed(y)) /\ (r = 0 \/ Sgn(r) = Sgn(Signed(x)))
             /\ \/ q = 0 \/ Sgn(q) = Sgn(Signed(x)) * Sgn(Signed(y))
                \/ x = MIN_NEGATIVE_VALUE /\ y = Size - 1
             /\ div(x, y) * y + rem(x, y) = x

(* SAR divides a signed number by a power of two, rounding down, whatever the   *)
(* shift; SHR and SHL do it with unsigned numbers; CLZ counts what SHR shows.   *)
ShiftsDivide(shift, x) ==
    /\ Signed(sar(shift, x)) = Signed(x) \div 2 ^ shift
    /\ shr(shift, x) = x \div 2 ^ shift
    /\ shl(shift, x) = wrapping(x * 2 ^ shift)
    /\ Bits - shift <= clz(x) <=> x < 2 ^ shift

(* SIGNEXTEND gives the signed value of the low bytes, BYTE the bytes from the   *)
(* most significant one: they make the word again.                            *)
BytesAndSign(ext, x) ==
    LET bits == ByteBits * (ext + 1)
        low == x % 2 ^ bits
    IN  /\ signextend(ext, x) =
             IF ext >= NumBytes THEN x
             ELSE wrapping(IF low >= 2 ^ (bits - 1) THEN low - 2 ^ bits ELSE low)
        /\ x = MapThenSumSet(LAMBDA i : byte(i, x) * 2 ^ (ByteBits * (NumBytes - 1 - i)),
                             0..(NumBytes - 1))

(* EXP by squaring is the product of the factors modulo the word, and ADDMOD and *)
(* MULMOD do not wrap before they take the remainder.                          *)
PowersWrap(x, n) ==
    /\ LET power[i \in 0..n] == IF i = 0 THEN 1 ELSE wrapping(power[i - 1] * x)
       IN  pow(x, n) = power[n]
    /\ \A m \in {1, Size \div 2 + 1, Size - 1} :
          addmod(x, n, m) = ((x % m) + (n % m)) % m /\ mulmod(x, n, m) = ((x % m) * (n % m)) % m

==============================================================================
