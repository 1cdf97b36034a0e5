--------------------------- MODULE SpecialFunctions ---------------------------
(***************************************************************************)
(* The special-function unit of a lane (isa.hpp's sfu_*_ref, which sfu.sv  *)
(* repeats): reciprocal and reciprocal square root by truncated integer    *)
(* arithmetic, sine and cosine by a table of a quarter wave.               *)
(***************************************************************************)
EXTENDS FloatUnit, Sequences

Infinity(s) == Pack(s, 2^EW - 1, 0)

sfu_rcp_ref(x) ==
  CASE x.e = 0             -> Infinity(x.s)
    [] x.e >= 2 * Bias - 1 -> Zero(x.s)
    [] x.e \in 1 .. 2 * Bias - 2 /\ x.m = 0 -> Pack(x.s, 2 * Bias - x.e, 0)
    [] OTHER -> Pack(x.s, 2 * Bias - 1 - x.e, 2 * ((One * One) \div Significand(x)))

\* Square root of a number of 2 * (MW + 1) bits, a result bit each step.
sfu_isqrt(n) ==
  LET at[i \in 0 .. MW + 1] ==
        IF i = 0 THEN [v |-> n, r |-> 0, b |-> One * One]
        ELSE LET p == at[i - 1]
             IN  IF p.v >= p.r + p.b
                   THEN [v |-> p.v - (p.r + p.b), r |-> (p.r \div 2) + p.b, b |-> p.b \div 4]
                   ELSE [v |-> p.v, r |-> p.r \div 2, b |-> p.b \div 4]
  IN  at[MW + 1].r

\* Fault: an odd exponent is halved without lending its bit.
sfu_sqrt_ref_Even(x) ==
  IF x.e = 0 THEN Zero(0)
  ELSE Pack(0, Bias + (x.e - Bias) \div 2, sfu_isqrt(Significand(x) * One))

sfu_sqrt_ref(x) ==
  LET odd == (x.e - Bias) % 2                       \* an odd exponent lends the mantissa a bit
      g   == IF odd = 1 THEN 2 * Significand(x) ELSE Significand(x)
  IN  IF x.e = 0 THEN Zero(0)
      ELSE Pack(0, Bias + (x.e - Bias - odd) \div 2, sfu_isqrt(g * One))

sfu_rsqrt_ref(x) ==
  CASE x.e = 0               -> Infinity(0)
    [] x.e # 0 /\ x.s = 1    -> Zero(0)
    [] OTHER                 -> sfu_rcp_ref(sfu_sqrt_ref(x))

-----------------------------------------------------------------------------
\* sin(i/64 * pi/2) in Q15, i = 0 .. 64.
SFU_SIN_LUT ==
  <<     0,   804,  1608,  2411,  3212,  4011,  4808,  5602,  6393,  7180,  7962,  8740,
      9512, 10279, 11039, 11793, 12540, 13279, 14010, 14733, 15447, 16151, 16846, 17531,
     18205, 18868, 19520, 20160, 20788, 21403, 22006, 22595, 23170, 23732, 24279, 24812,
     25330, 25833, 26320, 26791, 27246, 27684, 28106, 28511, 28899, 29269, 29622, 29957,
     30274, 30572, 30853, 31114, 31357, 31581, 31786, 31972, 32138, 32286, 32413, 32522,
     32610, 32679, 32729, 32758, 32768 >>

\* 1/2pi, the constant 0x3E22F983 cut to MW bits of mantissa.
InvTau == [s |-> 0, e |-> Bias - 3, m |-> 2292099 \div 2^(23 - MW)]

\* The fraction of a turn in 16 bits; out of the range of the shifter it is 0.
sfu_phase16(x) ==
  LET t  == fp_mul_ref(x, InvTau)
      sh == t.e - Bias - (MW - 16)
      p  == CASE sh \in 0 .. 15       -> (Significand(t) * 2^sh) % 65536
              [] sh \in -MW .. -1     -> (Significand(t) \div 2^(-sh)) % 65536
              [] OTHER                -> 0        \* the shift leaves no bit in the field
  IN  CASE t.e = 0 -> 0
        [] t.e # 0 /\ t.s = 1 -> (-p) % 65536
        [] OTHER -> p

\* Fault: the index of the next entry has six bits.
NextEntry_Wraps(i) == SFU_SIN_LUT[(i % 64) + 1]
NextEntry(i) == SFU_SIN_LUT[i + 1]

\* The sine of a phase: magnitude in Q15, and sign.
sfu_sinq15(phase) ==
  LET quad == phase \div 16384
      frac == phase % 16384
      idx  == IF quad \in {1, 3} THEN 16384 - frac ELSE frac
      i    == idx \div 256 + 1
      f8   == idx % 256
  IN  [s |-> quad \div 2,
       v |-> IF idx = 16384 THEN SFU_SIN_LUT[65]
             ELSE SFU_SIN_LUT[i] + ((NextEntry(i) - SFU_SIN_LUT[i]) * f8) \div 256]

sfu_q15_to_f(q) ==
  IF q.v = 0 THEN Zero(0)
  ELSE Pack(q.s, Bias + Msb(q.v) - 15, (q.v * One) \div 2^Msb(q.v))

sfu_sin_ref(x) == sfu_q15_to_f(sfu_sinq15(sfu_phase16(x)))
sfu_cos_ref(x) == sfu_q15_to_f(sfu_sinq15((sfu_phase16(x) + 16384) % 65536))

sfu_ref(fn, x) ==
  CASE fn = 0 -> sfu_rcp_ref(x) [] fn = 1 -> sfu_rsqrt_ref(x)
    [] fn = 2 -> sfu_sin_ref(x) [] fn = 3 -> sfu_cos_ref(x)
    [] OTHER  -> Zero(0)
=============================================================================
