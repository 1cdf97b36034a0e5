------------------------------ MODULE FloatUnit ------------------------------
(***************************************************************************)
(* The floating-point arithmetic of one lane (isa.hpp's fp_*_ref, which    *)
(* fp_alu.sv repeats), for a format of EW exponent and MW mantissa bits;   *)
(* the device's is EW = 8, MW = 23. A number is its three fields. Every    *)
(* exponent but 0 is an ordinary one, the highest too; exponent 0 is zero. *)
(***************************************************************************)
EXTENDS Integers, FiniteSets

CONSTANTS EW, MW

Bias  == 2^(EW - 1) - 1
One   == 2^MW                    \* the hidden bit
Bits  == 1 + EW + MW             \* of a register
Top   == 2^(Bits - 1)           \* its sign bit

Float == [s : {0, 1}, e : 0 .. 2^EW - 1, m : 0 .. One - 1]

\* Results are packed with masks: an exponent or a mantissa out of range wraps.
Pack(s, e, m) == [s |-> s, e |-> e % 2^EW, m |-> m % One]
Zero(s) == Pack(s, 0, 0)
Negate(x) == [x EXCEPT !.s = 1 - @]

\* A register's bits as a number and as a signed integer, and back.
FloatOf(w) == [s |-> w \div Top, e |-> (w \div One) % 2^EW, m |-> w % One]
WordOf(x)  == x.s * Top + x.e * One + x.m
Signed(w)  == IF w >= Top THEN w - 2 * Top ELSE w

Significand(x) == One + x.m
Msb(n) == CHOOSE p \in 0 .. 30 : n \div 2^p = 1

-----------------------------------------------------------------------------
\* Fault: a product of two or more keeps its exponent.
fp_mul_ref_NoCarry(x, z) ==
  LET s    == (x.s + z.s) % 2
      prod == Significand(x) * Significand(z)
  IN  IF x.e = 0 \/ z.e = 0 THEN Zero(s)
      ELSE Pack(s, x.e + z.e - Bias,
                IF prod >= 2 * One * One THEN prod \div (2 * One) ELSE prod \div One)

fp_mul_ref(x, z) ==
  LET s    == (x.s + z.s) % 2
      e    == x.e + z.e - Bias
      prod == Significand(x) * Significand(z)
  IN  IF x.e = 0 \/ z.e = 0 THEN Zero(s)
      ELSE IF prod >= 2 * One * One THEN Pack(s, e + 1, prod \div (2 * One))
      ELSE Pack(s, e, prod \div One)

\* The smaller operand is aligned to the larger one by dropping its low bits, whether
\* the two are then added or subtracted.
fp_add_ref(x, z) ==
  LET swap    == z.e > x.e \/ (z.e = x.e /\ z.m > x.m)
      big     == IF swap THEN z ELSE x
      small   == IF swap THEN x ELSE z
      diff    == IF big.e - small.e > MW + 1 THEN MW + 1 ELSE big.e - small.e
      aligned == Significand(small) \div 2^diff
      sum     == Significand(big) + aligned
      sub     == Significand(big) - aligned
      shift   == MW - Msb(sub)
  IN  CASE x.e = 0              -> z
        [] x.e # 0 /\ z.e = 0   -> x
        [] x.e # 0 /\ z.e # 0 /\ x.s = z.s ->
             IF sum >= 2 * One THEN Pack(big.s, big.e + 1, sum \div 2)
                               ELSE Pack(big.s, big.e, sum)
        [] OTHER ->
             IF sub = 0 THEN Zero(0) ELSE Pack(big.s, big.e - shift, sub * 2^shift)

fp_sub_ref(x, z)    == fp_add_ref(x, Negate(z))
fp_fma_ref(a, b, c) == fp_add_ref(fp_mul_ref(a, b), c)

\* Fault: zeros and denormals keep their bits.
fp_key_NoFlush(x) == LET w == WordOf(x) IN IF w >= Top THEN 2 * Top - 1 - w ELSE w + Top

\* A key whose unsigned order is the order of the numbers.
fp_key(x) == LET w == IF x.e = 0 THEN 0 ELSE WordOf(x)
             IN  IF w >= Top THEN 2 * Top - 1 - w ELSE w + Top

fp_min_ref(a, b) == IF fp_key(a) < fp_key(b) THEN a ELSE b
fp_max_ref(a, b) == IF fp_key(a) > fp_key(b) THEN a ELSE b

\* The comparison codes; a code the floats do not have compares false.
Ordered(cc, a, b) ==
  CASE cc = "EQ" -> a = b  [] cc = "NE" -> a # b  [] cc = "LT" -> a < b
    [] cc = "LE" -> a <= b [] cc = "GT" -> a > b  [] cc = "GE" -> a >= b
    [] OTHER -> FALSE
fp_cmp_ref(cc, a, b) == Ordered(cc, fp_key(a), fp_key(b))

\* Integer to number and back, dropping what does not fit.
fp_i2f_ref(w) ==
  LET n   == Signed(w)
      mag == IF n < 0 THEN -n ELSE n
      p   == Msb(mag)
  IN  IF n = 0 THEN Zero(0)
      ELSE Pack(IF n < 0 THEN 1 ELSE 0, Bias + p,
                IF p > MW THEN mag \div 2^(p - MW) ELSE mag * 2^(MW - p))

\* Fault: the saturation starts one exponent late.
fp_f2i_ref_Late(x) ==
  LET e   == x.e - Bias
      mag == IF e <= MW THEN Significand(x) \div 2^(MW - e) ELSE Significand(x) * 2^(e - MW)
  IN  CASE x.e = 0 \/ e < 0          -> 0
        [] x.e # 0 /\ e > Bits - 1  -> IF x.s = 1 THEN Top ELSE Top - 1
        [] OTHER                     -> (IF x.s = 1 THEN -mag ELSE mag) % (2 * Top)

fp_f2i_ref(x) ==
  LET e   == x.e - Bias
      mag == IF e <= MW THEN Significand(x) \div 2^(MW - e) ELSE Significand(x) * 2^(e - MW)
  IN  CASE x.e = 0 \/ e < 0          -> 0
        [] x.e # 0 /\ e > Bits - 2  -> IF x.s = 1 THEN Top ELSE Top - 1
        [] OTHER                     -> IF x.s = 1 THEN (-mag) % (2 * Top) ELSE mag
=============================================================================
