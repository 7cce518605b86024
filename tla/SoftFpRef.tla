----------------------------- MODULE SoftFpRef ------------------------------
(***************************************************************************)
(* What the operations of SoftFp promise, by the IEEE 754 standard and the *)
(* RISC-V manual: the exact result, rounded once.  The exact result is a   *)
(* rational p/q times a power of two; nothing is shifted out of it before  *)
(* it is compared with the representable numbers.                          *)
(*                                                                         *)
(* A run takes the first operand and the rounding mode through all the     *)
(* chosen values; the properties quantify over the other operands.  The    *)
(* module also holds the conversions between two formats, which is where   *)
(* softfp.c instantiates its template twice.                               *)
(***************************************************************************)
EXTENDS SoftFp

CONSTANTS
    NarrowExp, NarrowMant,  \* the other, narrower format
    Exponents, Mantissas,   \* of the operands
    Thirds,                 \* mantissas of the third operand of fma
    IntSizes                \* integer sizes of the conversions

VARIABLES a, rm

Narrow == INSTANCE SoftFp WITH EXP_SIZE <- NarrowExp, MANT_SIZE <- NarrowMant

OperandAssumption ==
    /\ Exponents \subseteq 0 .. EXP_MASK
    /\ Mantissas \cup Thirds \subseteq 0 .. 2 ^ MANT_SIZE - 1
    /\ NarrowExp < EXP_SIZE /\ MANT_SIZE >= Narrow!F_SIZE - 2

Floats == {pack_sf(s, e, m) : s \in {0, 1}, e \in Exponents, m \in Mantissas}
ThirdFloats == {pack_sf(s, e, m) : s \in {0, 1}, e \in Exponents, m \in Thirds}

Init == a = 0 /\ rm = "RNE"
LoadOperand == a = 0 /\ a' \in Floats /\ rm' = rm
SetRounding == a = 0 /\ rm' \in RoundingModes /\ a' = a
Next == LoadOperand \/ SetRounding
Spec == Init /\ [][Next]_<<a, rm>>

-----------------------------------------------------------------------------
(* cvt_sf64_sf32 and cvt_sf32_sf64.  The first drops the normalized        *)
(* mantissa of a subnormal and keeps its exponent, which lies so far below *)
(* the narrow format that only the sign and the rounding mode count.       *)
cvt_sf_narrow(x, mode) ==
    LET sub == Exp(x) = 0
        exp == IF sub THEN normalize_subnormal_sf(Mant(x)).exp ELSE Exp(x)
        mant == IF sub THEN Mant(x) ELSE Mant(x) + 2 ^ MANT_SIZE
    IN  IF isnan_sf(x) THEN Result(Narrow!F_QNAN, NaN({x}).flags)
        ELSE IF Exp(x) = EXP_MASK THEN Result(Narrow!Infinity(Sign(x)), {})
        ELSE IF IsZero(x) THEN Result(Narrow!pack_sf(Sign(x), 0, 0), {})
        ELSE Narrow!normalize_sf(Sign(x), exp - EXP_MASK \div 2 + Narrow!EXP_MASK \div 2,
                rshift_rnd(mant, MANT_SIZE - (Narrow!F_SIZE - 2)), mode)

cvt_narrow_sf(x) ==
    LET u == Narrow!Unpacked(x)
    IN  IF Narrow!isnan_sf(x) THEN Result(F_QNAN, Narrow!NaN({x}).flags)
        ELSE IF Narrow!Exp(x) = Narrow!EXP_MASK THEN Result(Infinity(Narrow!Sign(x)), {})
        ELSE IF Narrow!IsZero(x) THEN Result(pack_sf(Narrow!Sign(x), 0, 0), {})
        ELSE Result(pack_sf(Narrow!Sign(x), u.exp - Narrow!EXP_MASK \div 2 + EXP_MASK \div 2,
                            u.mant * 2 ^ (MANT_SIZE - NarrowMant)), {})

-----------------------------------------------------------------------------
(* The exact value of a finite float: (-1)^sign * m * 2^e.                 *)

Bias == EXP_MASK \div 2
M(x) == Mant(x) + (IF Exp(x) = 0 THEN 0 ELSE 2 ^ MANT_SIZE)
E(x) == (IF Exp(x) = 0 THEN 1 ELSE Exp(x)) - Bias - MANT_SIZE
Finite(x) == Exp(x) # EXP_MASK
Signed(x) == IF Sign(x) = 1 THEN - M(x) ELSE M(x)
SignOf(n) == IF n < 0 THEN 1 ELSE 0
Abs(n) == IF n < 0 THEN - n ELSE n

(* Beyond Far bits the distance of two numbers makes no difference to the  *)
(* rounding of their sum; TLC's integers have 32 bits.                     *)
Far == 20
Near(d) == IF d > Far THEN Far ELSE d

(* Floor and remainder of p/q * 2^-shift: less than, equal to or more than *)
(* a half.                                                                 *)
Parts(p, q, shift) ==
    LET num == IF shift < 0 THEN p * 2 ^ (-shift) ELSE p
        den == IF shift > 25 THEN q * 2 ^ 25 ELSE IF shift > 0 THEN q * 2 ^ shift ELSE q
        r == num % den
    IN  [n |-> num \div den, rest |-> r # 0,
         half |-> IF r * 2 < den THEN "less" ELSE IF r * 2 = den THEN "equal" ELSE "more"]

RoundsUp(x, sign, mode) ==
    CASE mode = "RNE" -> x.half = "more" \/ (x.half = "equal" /\ x.n % 2 = 1)
      [] mode = "RMM" -> x.half \in {"equal", "more"}
      [] mode = "RTZ" -> FALSE
      [] mode = "RDN" -> sign = 1 /\ x.rest
      [] mode = "RUP" -> sign = 0 /\ x.rest

Nearest(x, sign, mode) == x.n + (IF RoundsUp(x, sign, mode) THEN 1 ELSE 0)

(* The value p/q * 2^e in a format with mant mantissa bits: the quantum is *)
(* that of the exponent, but no finer than that of the subnormals.  A      *)
(* result is tiny if it would be after rounding without that limit.        *)
RoundTo(expSize, mantSize, sign, p, q, e, mode) ==
    LET mask == 2 ^ expSize - 1
        bias == mask \div 2
        k == IF p >= q THEN BitLen(p \div q) - 1
             ELSE - (CHOOSE j \in 1 .. 12 : p * 2 ^ j >= q /\ p * 2 ^ (j - 1) < q)
        finest == 1 - bias - mantSize
        free == e + k - mantSize
        quantum == IF free > finest THEN free ELSE finest
        x == Parts(p, q, quantum - e)
        r == Nearest(x, sign, mode)
        carry == r = 2 ^ (mantSize + 1)
        unlimited == Nearest(Parts(p, q, free - e), sign, mode)
        tiny == e + k + (IF unlimited = 2 ^ (mantSize + 1) THEN 1 ELSE 0) < 1 - bias
        mant == IF carry THEN 2 ^ mantSize ELSE r
        exp == IF mant < 2 ^ mantSize THEN 0
               ELSE quantum + mantSize + bias + (IF carry THEN 1 ELSE 0)
        away == mode \in {"RNE", "RMM"} \/ mode = (IF sign = 1 THEN "RDN" ELSE "RUP")
        pack(ex, m) == sign * 2 ^ (expSize + mantSize) + ex * 2 ^ mantSize + m
    IN  IF p = 0 THEN Result(pack(0, 0), {})
        ELSE IF exp >= mask
        THEN Result(IF away THEN pack(mask, 0) ELSE pack(mask - 1, 2 ^ mantSize - 1),
                    {"OF", "NX"})
        ELSE Result(pack(exp, mant % 2 ^ mantSize),
                    Raise(x.rest, "NX") \cup Raise(x.rest /\ tiny, "UF"))

Rounded(sign, p, q, e) == RoundTo(EXP_SIZE, MANT_SIZE, sign, p, q, e, rm)

AnyNaN(s) == \E x \in s : isnan_sf(x)
ZeroSign(s, t) == IF s = t THEN s ELSE IF rm = "RDN" THEN 1 ELSE 0

(* The sum of m * 2^e and n * 2^f, of which neither is infinite.           *)
ExactSum(m, e, n, f, zero) ==
    LET sum == IF e >= f THEN m * 2 ^ Near(e - f) + n ELSE m + n * 2 ^ Near(f - e)
        low == IF e >= f THEN e - Near(e - f) ELSE f - Near(f - e)
        exp == IF m = 0 THEN f ELSE IF n = 0 THEN e ELSE low
        value == IF m = 0 THEN n ELSE IF n = 0 THEN m ELSE sum
    IN  Rounded(IF value = 0 THEN zero ELSE SignOf(value), Abs(value), 1, exp)

AddRef(x, y) ==
    IF AnyNaN({x, y}) THEN NaN({x, y})
    ELSE IF ~ Finite(x) /\ ~ Finite(y) /\ Sign(x) # Sign(y) THEN Invalid
    ELSE IF ~ Finite(x) THEN Result(x, {})
    ELSE IF ~ Finite(y) THEN Result(y, {})
    ELSE ExactSum(Signed(x), E(x), Signed(y), E(y), ZeroSign(Sign(x), Sign(y)))

XorSign(x, y) == IF Sign(x) = Sign(y) THEN 0 ELSE 1

MulRef(x, y) ==
    IF AnyNaN({x, y}) THEN NaN({x, y})
    ELSE IF Finite(x) /\ Finite(y) THEN Rounded(XorSign(x, y), M(x) * M(y), 1, E(x) + E(y))
    ELSE IF IsZero(x) \/ IsZero(y) THEN Invalid ELSE Result(Infinity(XorSign(x, y)), {})

DivRef(x, y) ==
    IF AnyNaN({x, y}) THEN NaN({x, y})
    ELSE IF (~ Finite(x) /\ ~ Finite(y)) \/ (IsZero(x) /\ IsZero(y)) THEN Invalid
    ELSE IF ~ Finite(x) THEN Result(Infinity(XorSign(x, y)), {})
    ELSE IF ~ Finite(y) THEN Result(pack_sf(XorSign(x, y), 0, 0), {})
    ELSE IF IsZero(y) THEN Result(Infinity(XorSign(x, y)), {"DZ"})
    ELSE Rounded(XorSign(x, y), M(x), M(y), E(x) - E(y))

FmaRef(x, y, z) ==
    LET s == XorSign(x, y)
        p == IF s = 1 THEN - (M(x) * M(y)) ELSE M(x) * M(y)
    IN  IF AnyNaN({x, y, z}) THEN NaN({x, y, z})
        ELSE IF ~ Finite(x) \/ ~ Finite(y)
        THEN IF IsZero(x) \/ IsZero(y) \/ (~ Finite(z) /\ Sign(z) # s) THEN Invalid
             ELSE Result(Infinity(s), {})
        ELSE IF ~ Finite(z) THEN Result(z, {})
        ELSE ExactSum(p, E(x) + E(y), Signed(z), E(z), ZeroSign(s, Sign(z)))

(* The result r of a square root is right if the exact root lies where its *)
(* rounding says: n is the largest number with n^2 below the operand, and  *)
(* the root lies above n + 1/2 iff (2n + 1)^2 is less than four times it.  *)
SqrtRef(x) ==
    LET even == E(x) % 2 = 0
        m == (IF even THEN M(x) ELSE 2 * M(x)) * 4 ^ MANT_SIZE * 4
        e == (IF even THEN E(x) ELSE E(x) - 1) \div 2 - MANT_SIZE - 1
        n == CHOOSE i \in 0 .. 2 ^ (2 * MANT_SIZE + 3) : i * i <= m /\ m < (i + 1) * (i + 1)
    IN  IF isnan_sf(x) THEN NaN({x})
        ELSE IF IsZero(x) THEN Result(x, {})
        ELSE IF Sign(x) = 1 THEN Invalid
        ELSE IF ~ Finite(x) THEN Result(x, {})
        ELSE Rounded(0, 2 * n + (IF n * n = m THEN 0 ELSE 1), 1, e - 1)

-----------------------------------------------------------------------------
(* Addition, subtraction, multiplication, division, square root and fused  *)
(* multiply-add return the exact result rounded once, raise exactly the    *)
(* flags of the standard, and treat zeros, infinities and NaNs as it says. *)
ArithmeticIsExact ==
    /\ sqrt_sf(a, rm) = SqrtRef(a)
    /\ \A b \in Floats :
        /\ add_sf(a, b, rm) = AddRef(a, b)
        /\ mul_sf(a, b, rm) = MulRef(a, b)
        /\ div_sf(a, b, rm) = DivRef(a, b)
        /\ \A c \in ThirdFloats : fma_sf(a, b, c, rm) = FmaRef(a, b, c)

(* The order of two floats by their exact values.                          *)
Less(x, y) ==
    IF ~ Finite(x) \/ ~ Finite(y)
    THEN x # y /\ ((~ Finite(x) /\ Sign(x) = 1) \/ (~ Finite(y) /\ Sign(y) = 0))
    ELSE IF E(x) >= E(y) THEN Signed(x) * 2 ^ Near(E(x) - E(y)) < Signed(y)
    ELSE Signed(x) < Signed(y) * 2 ^ Near(E(y) - E(x))

(* The comparisons, which work on the bit patterns, agree with the order   *)
(* of the values; subtraction, minimum, maximum and the classes of fclass  *)
(* agree with them too.                                                    *)
ComparisonsAgree ==
    \A b \in Floats : ~ AnyNaN({a, b}) =>
        LET equal == ~ Less(a, b) /\ ~ Less(b, a)
        IN  /\ lt_sf(a, b).v = Less(a, b)
            /\ le_sf(a, b).v = ~ Less(b, a)
            /\ eq_quiet_sf(a, b).v = equal
            /\ Finite(a) /\ Finite(b) => (equal <=> IsZero(sub_sf(a, b, rm).v))
            /\ fclass_sf(a) < fclass_sf(b) => Less(a, b) \/ (IsZero(a) /\ IsZero(b))
            /\ {min_sf(a, b).v, max_sf(a, b).v} = {a, b}
            /\ ~ Less(max_sf(a, b).v, min_sf(a, b).v)
            /\ IsZero(a) /\ IsZero(b) /\ Sign(a) # Sign(b) => Sign(min_sf(a, b).v) = 1

(* Integers that fit the format, that exceed it by a few bits, and that    *)
(* overflow it; next to one that ends in zeros lie two that round the same *)
(* way only if no bit is forgotten.                                        *)
Wide == {0, 3, 8}
IntOperands ==
    {(a - 2 ^ (F_SIZE - 1)) * 2 ^ w + d : w \in Wide, d \in {-1, 0, 1}}

(* Integer conversion in both directions: the exact value rounded once to  *)
(* an integer, and the nearest bound with the invalid flag if it does not  *)
(* fit; conversion to the narrower format rounds once, and back is exact.  *)
IntRef(x, n, unsigned) ==
    LET part == Parts(M(x), 1, - E(x))
        r == Nearest(part, Sign(x), rm)
        v == IF Sign(x) = 1 THEN - r ELSE r
        lo == IF unsigned THEN 0 ELSE - 2 ^ (n - 1)
        hi == IF unsigned THEN 2 ^ n - 1 ELSE 2 ^ (n - 1) - 1
    IN  IF isnan_sf(x) \/ (~ Finite(x) /\ Sign(x) = 0) \/ (Finite(x) /\ v > hi)
        THEN Result(hi, {"NV"})
        ELSE IF ~ Finite(x) \/ v < lo THEN Result(lo, {"NV"})
        ELSE Result(v, Raise(part.rest, "NX"))

ConversionsRoundOnce ==
    LET narrow == cvt_sf_narrow(a, rm)
    IN  /\ \A n \in IntSizes, unsigned \in BOOLEAN :
             cvt_sf_i(a, rm, n, unsigned) = IntRef(a, n, unsigned)
        /\ \A i \in IntOperands :
             cvt_i_sf(i, rm) = Rounded(SignOf(i), Abs(i), 1, 0)
        /\ ~ isnan_sf(a) /\ Finite(a) => narrow =
             RoundTo(NarrowExp, NarrowMant, Sign(a), M(a), 1, E(a), rm)
        /\ LET wide == cvt_narrow_sf(narrow.v) IN
             cvt_sf_narrow(wide.v, rm).v = narrow.v /\ wide.flags = {}
=============================================================================
