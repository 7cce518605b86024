------------------------------- MODULE SoftFp -------------------------------
(***************************************************************************)
(* The software floating point of the RISC-V emulator: the operations of   *)
(* softfp_template.h and softfp_template_icvt.h, for a format of any size. *)
(*                                                                         *)
(* A float is a natural number below 2^F_SIZE, as in the code.  The bit    *)
(* operations are written as arithmetic; an operation returns the record   *)
(* of its value and the set of exception flags it raises.                  *)
(***************************************************************************)
EXTENDS Integers

CONSTANTS EXP_SIZE, MANT_SIZE

FormatAssumption ==
    /\ EXP_SIZE \in Nat /\ EXP_SIZE >= 3
    /\ MANT_SIZE \in Nat /\ MANT_SIZE >= 2

F_SIZE == EXP_SIZE + MANT_SIZE + 1
EXP_MASK == 2 ^ EXP_SIZE - 1
IMANT_SIZE == F_SIZE - 2
RND_SIZE == IMANT_SIZE - MANT_SIZE
F_QNAN == EXP_MASK * 2 ^ MANT_SIZE + 2 ^ (MANT_SIZE - 1)

RoundingModes == {"RNE", "RTZ", "RDN", "RUP", "RMM"}

Sign(a) == a \div 2 ^ (F_SIZE - 1)
Exp(a) == (a \div 2 ^ MANT_SIZE) % 2 ^ EXP_SIZE
Mant(a) == a % 2 ^ MANT_SIZE
Magnitude(a) == a % 2 ^ (F_SIZE - 1)
IsZero(a) == Magnitude(a) = 0

Result(v, flags) == [v |-> v, flags |-> flags]
Raise(b, flag) == IF b THEN {flag} ELSE {}

(* The number of bits of a: F_SIZE - clz(a).                               *)
BitLen(a) == IF a = 0 THEN 0 ELSE CHOOSE n \in 1 .. 31 : 2 ^ (n - 1) <= a /\ a \div 2 < 2 ^ (n - 1)

(* x with its lowest bit set if b: x | b.                                  *)
Sticky(x, b) == IF b /\ x % 2 = 0 THEN x + 1 ELSE x

pack_sf(sign, exp, mant) ==
    sign * 2 ^ (F_SIZE - 1) + exp * 2 ^ MANT_SIZE + Mant(mant)

isnan_sf(a) == Exp(a) = EXP_MASK /\ Mant(a) # 0
issignan_sf(a) == isnan_sf(a) /\ Mant(a) < 2 ^ (MANT_SIZE - 1)
Infinity(sign) == pack_sf(sign, EXP_MASK, 0)

(* Right shift that keeps in the lowest bit whether a bit was lost.        *)
rshift_rnd(a, d) ==
    IF d >= F_SIZE THEN Sticky(0, a # 0)
    ELSE Sticky(a \div 2 ^ d, a % 2 ^ d # 0)

-----------------------------------------------------------------------------
(* Rounding                                                                *)

Addend(sign, rm) ==
    CASE rm \in {"RNE", "RMM"} -> 2 ^ (RND_SIZE - 1)
      [] rm = "RTZ" -> 0
      [] rm = "RDN" -> IF sign = 1 THEN 2 ^ RND_SIZE - 1 ELSE 0
      [] rm = "RUP" -> IF sign = 0 THEN 2 ^ RND_SIZE - 1 ELSE 0

(* Drop the rounding bits; a tie goes to the even neighbour in mode RNE.   *)
RoundOff(sign, mant, rm) ==
    LET r == (mant + Addend(sign, rm)) \div 2 ^ RND_SIZE
        tie == mant % 2 ^ RND_SIZE = 2 ^ (RND_SIZE - 1)
    IN  IF rm = "RNE" /\ tie THEN 2 * (r \div 2) ELSE r

(* Mutant: a result is tiny before rounding, whatever rounding makes of it.*)
round_pack_sf_TinyBefore(sign, exp0, mant0, rm) ==
    LET sub == exp0 <= 0
        mant == IF sub THEN rshift_rnd(mant0, 1 - exp0) ELSE mant0
        inexact == mant % 2 ^ RND_SIZE # 0
        r == RoundOff(sign, mant, rm)
        exp == (IF sub THEN 1 ELSE exp0) + r \div 2 ^ (MANT_SIZE + 1)
        flags == Raise(sub /\ inexact, "UF") \cup Raise(inexact, "NX")
    IN  IF r < 2 ^ MANT_SIZE THEN Result(pack_sf(sign, 0, r), flags)
        ELSE IF exp < EXP_MASK THEN Result(pack_sf(sign, exp, r), flags)
        ELSE Result(IF Addend(sign, rm) = 0 THEN pack_sf(sign, EXP_MASK - 1, -1)
                    ELSE Infinity(sign), flags \cup {"OF", "NX"})

(* mant0 has its most significant bit at F_SIZE - 2.                       *)
round_pack_sf(sign, exp0, mant0, rm) ==
    LET addend == Addend(sign, rm)
        sub == exp0 <= 0
        tiny == exp0 < 0 \/ mant0 + addend < 2 ^ (F_SIZE - 1)
        mant == IF sub THEN rshift_rnd(mant0, 1 - exp0) ELSE mant0
        inexact == mant % 2 ^ RND_SIZE # 0
        r == RoundOff(sign, mant, rm)
        exp == (IF sub THEN 1 ELSE exp0) + r \div 2 ^ (MANT_SIZE + 1)
        flags == Raise(sub /\ tiny /\ inexact, "UF") \cup Raise(inexact, "NX")
    IN  IF r < 2 ^ MANT_SIZE THEN Result(pack_sf(sign, 0, r), flags)
        ELSE IF exp < EXP_MASK THEN Result(pack_sf(sign, exp, r), flags)
        ELSE Result(IF addend = 0 THEN pack_sf(sign, EXP_MASK - 1, -1)
                    ELSE Infinity(sign), flags \cup {"OF", "NX"})

(* mant has F_SIZE - 1 bits at most: the code asserts that shift >= 0.     *)
normalize_sf(sign, exp, mant, rm) ==
    LET shift == F_SIZE - BitLen(mant) - (F_SIZE - 1 - IMANT_SIZE)
    IN  round_pack_sf(sign, exp - shift, mant * 2 ^ shift, rm)

(* The same for a mantissa of two words, mant1 and mant0.                  *)
normalize2_sf(sign, exp, mant1, mant0, rm) ==
    LET W == 2 ^ F_SIZE
        clz2 == IF mant1 = 0 THEN 2 * F_SIZE - BitLen(mant0) ELSE F_SIZE - BitLen(mant1)
        shift == clz2 - (F_SIZE - 1 - IMANT_SIZE)
        high == IF shift < F_SIZE
                THEN Sticky(mant1 * 2 ^ shift + mant0 \div 2 ^ (F_SIZE - shift),
                            (mant0 * 2 ^ shift) % W # 0)
                ELSE (mant0 * 2 ^ (shift - F_SIZE)) % W
    IN  round_pack_sf(sign, exp - shift, high, rm)

(* The exponent and the mantissa, with the hidden bit, of a nonzero float. *)
normalize_subnormal_sf(mant) ==
    LET shift == MANT_SIZE + 1 - BitLen(mant)
    IN  [exp |-> 1 - shift, mant |-> mant * 2 ^ shift]

Unpacked(a) ==
    IF Exp(a) = 0 THEN normalize_subnormal_sf(Mant(a))
    ELSE [exp |-> Exp(a), mant |-> Mant(a) + 2 ^ MANT_SIZE]

NaN(operands) == Result(F_QNAN, Raise(\E a \in operands : issignan_sf(a), "NV"))
Invalid == Result(F_QNAN, {"NV"})

-----------------------------------------------------------------------------
(* Arithmetic                                                              *)

(* The operand of the larger magnitude comes first.                        *)
add_sf(a0, b0, rm) ==
    LET swap == Magnitude(a0) < Magnitude(b0)
        a == IF swap THEN b0 ELSE a0
        b == IF swap THEN a0 ELSE b0
        hidden(x) == 8 * (Mant(x) + (IF Exp(x) = 0 THEN 0 ELSE 2 ^ MANT_SIZE))
        exp(x) == IF Exp(x) = 0 THEN 1 ELSE Exp(x)
        b_mant == rshift_rnd(hidden(b), exp(a) - exp(b))
        same == Sign(a) = Sign(b)
        mant == IF same THEN hidden(a) + b_mant ELSE hidden(a) - b_mant
        sign == IF ~ same /\ mant = 0 THEN IF rm = "RDN" THEN 1 ELSE 0 ELSE Sign(a)
    IN  IF isnan_sf(a) THEN NaN({a, b})
        ELSE IF Exp(a) = EXP_MASK
        THEN IF Exp(b) = EXP_MASK /\ ~ same THEN Invalid ELSE Result(a, {})
        ELSE normalize_sf(sign, exp(a) + RND_SIZE - 3, mant, rm)

sub_sf(a, b, rm) == add_sf(a, (b + 2 ^ (F_SIZE - 1)) % 2 ^ F_SIZE, rm)

mul_sf(a, b, rm) ==
    LET sign == (Sign(a) + Sign(b)) % 2
        ua == Unpacked(a)
        ub == Unpacked(b)
        r == (ua.mant * 2 ^ RND_SIZE) * (ub.mant * 2 ^ (RND_SIZE + 1))
    IN  IF isnan_sf(a) \/ isnan_sf(b) THEN NaN({a, b})
        ELSE IF Exp(a) = EXP_MASK \/ Exp(b) = EXP_MASK
        THEN IF IsZero(a) \/ IsZero(b) THEN Invalid ELSE Result(Infinity(sign), {})
        ELSE IF IsZero(a) \/ IsZero(b) THEN Result(pack_sf(sign, 0, 0), {})
        ELSE normalize_sf(sign, ua.exp + ub.exp - 2 ^ (EXP_SIZE - 1) + 2,
                          Sticky(r \div 2 ^ F_SIZE, r % 2 ^ F_SIZE # 0), rm)

(* The product, normalized to F_SIZE - 3 bits in the high word, and the    *)
(* third operand, which is shifted to its exponent or the product to its.  *)
FusedSum(r0, c0, rm) ==
    LET W == 2 ^ F_SIZE
        keep == r0.exp > c0.exp \/ (r0.exp = c0.exp /\ r0.mant1 >= c0.mant1)
        r == IF keep THEN r0 ELSE c0
        c == IF keep THEN c0 ELSE r0
        shift == r.exp - c.exp
        c0s == IF shift >= 2 * F_SIZE THEN Sticky(0, c.mant0 + c.mant1 # 0)
               ELSE IF shift >= F_SIZE + 1 THEN rshift_rnd(c.mant1, shift - F_SIZE)
               ELSE IF shift = F_SIZE THEN Sticky(c.mant1, c.mant0 # 0)
               ELSE IF shift = 0 THEN c.mant0
               ELSE Sticky(((c.mant1 * 2 ^ (F_SIZE - shift)) % W) + c.mant0 \div 2 ^ shift,
                           c.mant0 % 2 ^ shift # 0)
        c1s == IF shift >= F_SIZE THEN 0 ELSE c.mant1 \div 2 ^ shift
        same == r.sign = c.sign
        low == (IF same THEN r.mant0 + c0s ELSE r.mant0 - c0s) % W
        high == IF same THEN r.mant1 + c1s + (IF low < c0s THEN 1 ELSE 0)
                ELSE r.mant1 - c1s - (IF low > r.mant0 THEN 1 ELSE 0)
        sign == IF ~ same /\ low = 0 /\ high = 0 THEN IF rm = "RDN" THEN 1 ELSE 0
                ELSE r.sign
    IN  normalize2_sf(sign, r.exp, high, low, rm)

fma_sf(a, b, c, rm) ==
    LET W == 2 ^ F_SIZE
        sign == (Sign(a) + Sign(b)) % 2
        inf(x) == Exp(x) = EXP_MASK
        ua == Unpacked(a)
        ub == Unpacked(b)
        uc == Unpacked(c)
        exp == ua.exp + ub.exp - 2 ^ (EXP_SIZE - 1) + 3
        p == (ua.mant * 2 ^ RND_SIZE) * (ub.mant * 2 ^ RND_SIZE)
        short == p \div W < 2 ^ (F_SIZE - 3)
        q == IF short THEN 2 * p ELSE p
        r == [sign |-> sign, exp |-> IF short THEN exp - 1 ELSE exp,
              mant1 |-> q \div W, mant0 |-> q % W]
        third == [sign |-> Sign(c), exp |-> uc.exp + 1,
                  mant1 |-> uc.mant * 2 ^ (RND_SIZE - 1), mant0 |-> 0]
    IN  IF \E x \in {a, b, c} : isnan_sf(x) THEN NaN({a, b, c})
        ELSE IF \/ inf(a) /\ IsZero(b)
                \/ inf(b) /\ IsZero(a)
                \/ (inf(a) \/ inf(b)) /\ inf(c) /\ sign # Sign(c)
        THEN Invalid
        ELSE IF inf(c) THEN Result(Infinity(Sign(c)), {})
        ELSE IF inf(a) \/ inf(b) THEN Result(Infinity(sign), {})
        ELSE IF IsZero(a) \/ IsZero(b)
        THEN Result(IF ~ IsZero(c) THEN c
                    ELSE pack_sf(IF Sign(c) = sign THEN sign
                                 ELSE IF rm = "RDN" THEN 1 ELSE 0, 0, 0), {})
        ELSE IF IsZero(c)
        THEN normalize_sf(sign, r.exp, Sticky(r.mant1, r.mant0 # 0), rm)
        ELSE FusedSum(r, third, rm)

div_sf(a, b, rm) ==
    LET sign == (Sign(a) + Sign(b)) % 2
        ua == Unpacked(a)
        ub == Unpacked(b)
        num == ua.mant * 2 ^ F_SIZE
        den == ub.mant * 4
    IN  IF isnan_sf(a) \/ isnan_sf(b) THEN NaN({a, b})
        ELSE IF Exp(a) = EXP_MASK
        THEN IF Exp(b) = EXP_MASK THEN Invalid ELSE Result(Infinity(sign), {})
        ELSE IF Exp(b) = EXP_MASK THEN Result(pack_sf(sign, 0, 0), {})
        ELSE IF IsZero(b)
        THEN IF IsZero(a) THEN Invalid ELSE Result(Infinity(sign), {"DZ"})
        ELSE IF IsZero(a) THEN Result(pack_sf(sign, 0, 0), {})
        ELSE normalize_sf(sign, ua.exp - ub.exp + 2 ^ (EXP_SIZE - 1) - 1,
                          Sticky(num \div den, num % den # 0), rm)

(* Newton's iteration from above: it ends at the integer square root.      *)
RECURSIVE NewtonFrom(_, _)
NewtonFrom(n, s) ==
    LET u == (n \div s + s) \div 2 IN IF u >= s THEN s ELSE NewtonFrom(n, u)

sqrtrem_u(n) ==
    IF n = 0 THEN [root |-> 0, inexact |-> FALSE]
    ELSE LET s == NewtonFrom(n, 2 ^ ((BitLen(n - 1) + 1) \div 2))
         IN  [root |-> s, inexact |-> s * s # n]

sqrt_sf(a, rm) ==
    LET ua == Unpacked(a)
        e == ua.exp - EXP_MASK \div 2
        odd == e % 2
        s == sqrtrem_u(ua.mant * 2 ^ (odd + F_SIZE - 4 - MANT_SIZE) * 2 ^ F_SIZE)
    IN  IF isnan_sf(a) THEN NaN({a})
        ELSE IF IsZero(a) THEN Result(a, {})
        ELSE IF Sign(a) = 1 THEN Invalid
        ELSE IF Exp(a) = EXP_MASK THEN Result(a, {})
        ELSE normalize_sf(0, (e - odd) \div 2 + EXP_MASK \div 2,
                          Sticky(s.root, s.inexact), rm)

-----------------------------------------------------------------------------
(* Comparisons.  minmax_type is the one that the emulator uses.            *)

MinMaxNaN(a, b) ==
    Result(IF isnan_sf(a) /\ isnan_sf(b) THEN F_QNAN
           ELSE IF isnan_sf(a) THEN b ELSE a, NaN({a, b}).flags)

(* The order of the bit patterns, of which the sign decides the direction. *)
Before(a, b) ==
    IF Sign(a) # Sign(b) THEN Sign(a) = 1
    ELSE (a < b) # (Sign(a) = 1)

min_sf(a, b) ==
    IF isnan_sf(a) \/ isnan_sf(b) THEN MinMaxNaN(a, b)
    ELSE Result(IF Before(a, b) THEN a ELSE b, {})

max_sf(a, b) ==
    IF isnan_sf(a) \/ isnan_sf(b) THEN MinMaxNaN(a, b)
    ELSE Result(IF Before(a, b) THEN b ELSE a, {})

eq_quiet_sf(a, b) ==
    IF isnan_sf(a) \/ isnan_sf(b) THEN Result(FALSE, NaN({a, b}).flags)
    ELSE Result((IsZero(a) /\ IsZero(b)) \/ a = b, {})

le_sf(a, b) ==
    IF isnan_sf(a) \/ isnan_sf(b) THEN Result(FALSE, {"NV"})
    ELSE Result(IF Sign(a) # Sign(b) THEN Sign(a) = 1 \/ (IsZero(a) /\ IsZero(b))
                ELSE IF Sign(a) = 1 THEN a >= b ELSE a <= b, {})

(* Mutant: the negative zero is less than the positive one.                *)
lt_sf_Zeros(a, b) ==
    IF isnan_sf(a) \/ isnan_sf(b) THEN Result(FALSE, {"NV"})
    ELSE Result(Before(a, b), {})

lt_sf(a, b) ==
    IF isnan_sf(a) \/ isnan_sf(b) THEN Result(FALSE, {"NV"})
    ELSE Result(IF Sign(a) # Sign(b) THEN Sign(a) = 1 /\ ~ (IsZero(a) /\ IsZero(b))
                ELSE IF Sign(a) = 1 THEN a > b ELSE a < b, {})

(* The number of the bit that FCLASS_* sets, from negative infinity (0) to *)
(* positive infinity (7), and for the two kinds of NaN.                    *)
fclass_sf(a) ==
    LET distance == CASE Exp(a) = EXP_MASK -> 3
                      [] Exp(a) = 0 /\ Mant(a) = 0 -> 0
                      [] Exp(a) = 0 /\ Mant(a) # 0 -> 1
                      [] OTHER -> 2
    IN  IF isnan_sf(a) THEN IF issignan_sf(a) THEN 8 ELSE 9
        ELSE IF Sign(a) = 1 THEN 3 - distance ELSE 4 + distance

-----------------------------------------------------------------------------
(* Conversions to and from integers of n bits, signed or not.              *)

cvt_sf_i(a, rm, n, unsigned) ==
    LET sign == IF isnan_sf(a) THEN 0 ELSE Sign(a)
        mant == (Mant(a) + (IF Exp(a) = 0 THEN 0 ELSE 2 ^ MANT_SIZE)) * 2 ^ RND_SIZE
        exp == (IF Exp(a) = 0 THEN 1 ELSE Exp(a)) - EXP_MASK \div 2 - MANT_SIZE
        max == IF unsigned THEN IF sign = 1 THEN 0 ELSE 2 ^ n - 1
               ELSE 2 ^ (n - 1) - 1 + sign
        small == rshift_rnd(mant, -exp)
        r == IF exp >= 0 THEN (mant \div 2 ^ RND_SIZE) * 2 ^ exp
             ELSE RoundOff(sign, small, rm)
        neg(x) == IF sign = 1 THEN - x ELSE x
    IN  IF (exp >= 0 /\ exp > n - 1 - MANT_SIZE) \/ r > max
        THEN Result(neg(max), {"NV"})
        ELSE Result(neg(r), Raise(exp < 0 /\ small % 2 ^ RND_SIZE # 0, "NX"))

(* Mutant: the bits that are dropped leave no trace.                       *)
ReduceNoSticky(r, l) == r \div 2 ^ l

(* An integer of any size loses the bits that do not fit the format, but   *)
(* for a sticky bit, before it is normalized and rounded.                  *)
Reduce(r, l) == Sticky(r \div 2 ^ l, r % 2 ^ l # 0)

cvt_i_sf(i, rm) ==
    LET sign == IF i < 0 THEN 1 ELSE 0
        r == IF i < 0 THEN - i ELSE i
        l == BitLen(r) - (F_SIZE - 1)
        e == EXP_MASK \div 2 + F_SIZE - 2
    IN  IF l > 0 THEN normalize_sf(sign, e + l, Reduce(r, l), rm)
        ELSE normalize_sf(sign, e, r, rm)
=============================================================================
