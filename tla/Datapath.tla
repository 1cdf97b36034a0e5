-------------------------------- MODULE Datapath --------------------------------
(***************************************************************************)
(* The units of one lane at work: a request reaches a unit, the unit       *)
(* answers at once, and the answer is retired. The requests are            *)
(* instructions for the lane as a whole, pairs of numbers and registers    *)
(* for the arithmetic, arguments of the special functions, and texels.     *)
(***************************************************************************)
EXTENDS LaneDatapath

CONSTANTS
  Formats, Contexts,           \* instructions by their fields, and lane contexts
  Pairs, Registers,            \* of numbers, and pairs of registers
  RootEW, RootMW, Roots,       \* arguments of RCP and RSQRT, and their format
  TurnEW, TurnMW, Turns,       \* arguments of SIN and COS, and their format
  TexRequests                  \* textures with coordinates

R == INSTANCE SpecialFunctions WITH EW <- RootEW, MW <- RootMW
T == INSTANCE SpecialFunctions WITH EW <- TurnEW, MW <- TurnMW
S == INSTANCE TextureSampling

ASSUME FormatAssumption == {RootEW, TurnEW} \subseteq Nat \ {0, 1} /\ {RootMW, TurnMW} \subseteq Nat \ {0}

VARIABLES req, res
vars == <<req, res>>

None == [unit |-> "none"]

\* The assembler's word for the fields f of an instruction.
Encode(f) ==
  CASE f.fmt = "R" -> enc_r(f.op, f.d, f.a, f.b, f.g)
    [] f.fmt = "I" -> enc_i(f.op, f.d, f.a, f.imm, f.g)
    [] f.fmt = "U" -> enc_u(f.op, f.d, f.imm, f.g)
    [] f.fmt = "B" -> enc_b(f.op, f.imm, f.g)
    [] f.fmt = "P" -> enc_p(f.op, f.d, f.cc, f.a, f.b, f.g)
    [] f.fmt = "Q" -> asm_pi(f.op, f.d, f.cc, f.a, f.imm, f.g)
    [] f.fmt = "F" -> asm_func(f.op, f.d, f.a, f.b, f.cc, f.g)

\* Control flow and memory accesses are not the lane's own.
Executes(f) == f.op \in (OP.ADD .. OP.MUFU) \cup {OP.RDSR, OP.LDC} \cup (OP.FADD .. OP.FSETP)

Init == req = None /\ res = None

Lane == \E f \in Formats : \E c \in Contexts :
  LET w == Encode(f) IN
  /\ Executes(f)
  /\ req' = [unit |-> "lane", f |-> f, c |-> c]
  /\ res' = [w |-> w, rtl |-> RtlLane(w, c), iss |-> IssLane(w, c)]

Codec == \E f \in Formats :
  /\ req' = [unit |-> "codec", f |-> f]
  /\ res' = [w |-> Encode(f), d |-> decode_ref(Encode(f))]

FloatPair == \E p \in Pairs :
  /\ req' = [unit |-> "float", x |-> p[1], y |-> p[2]]
  /\ res' = [mul |-> F!fp_mul_ref(p[1], p[2]), add |-> F!fp_add_ref(p[1], p[2]),
             lt |-> F!fp_cmp_ref("LT", p[1], p[2]), eq |-> F!fp_cmp_ref("EQ", p[1], p[2]),
             min |-> F!fp_min_ref(p[1], p[2]), max |-> F!fp_max_ref(p[1], p[2])]

Integer == \E p \in Registers :
  /\ req' = [unit |-> "integer", a |-> p[1], b |-> p[2]]
  /\ res' = [alu |-> [op \in {OP.MUL, OP.MULH, OP.SHL, OP.SHR, OP.SRA, OP.SUB, OP.XOR,
                              OP.AND, OP.SLT, OP.MIN} |-> alu_ref(op, p[1], p[2])],
             i2f |-> F!fp_i2f_ref(p[1]), f2i |-> F!fp_f2i_ref(Num(p[1])),
             back |-> F!fp_f2i_ref(F!fp_i2f_ref(p[1]))]

Root == \E x \in Roots :
  /\ req' = [unit |-> "root", x |-> x]
  /\ res' = [rcp |-> R!sfu_ref(0, x), rsqrt |-> R!sfu_ref(1, x), sqrt |-> R!sfu_sqrt_ref(x)]

Turn == \E x \in Turns :
  /\ req' = [unit |-> "turn", x |-> x]
  /\ res' = [phase |-> T!sfu_phase16(x), sin |-> T!sfu_ref(2, x), cos |-> T!sfu_ref(3, x),
             minus |-> [sin |-> T!sfu_ref(2, T!Negate(x)), cos |-> T!sfu_ref(3, T!Negate(x))]]

Sample == \E q \in TexRequests :
  LET t == S!build_mips(q.tex)
      l == S!lod_of(t, q.ratio) IN
  /\ req' = [unit |-> "texel", tex |-> t, ratio |-> q.ratio, u |-> q.u, v |-> q.v]
  /\ res' = [lod |-> l, rtlLod |-> S!RtlLod(t.levels, q.ratio),
             index |-> S!TexelIndex(t, l, S!Shift(q.u, 8 + l), S!Shift(q.v, 8 + l)),
             rtlIndex |-> S!RtlIndex(t, l, S!Shift(q.u, 8 + l), S!Shift(q.v, 8 + l)),
             nearest |-> S!sample_nearest(t, l, q.u, q.v),
             bilinear |-> S!sample_bilinear(t, l, q.u, q.v)]

Issue == req = None /\ (Lane \/ Codec \/ FloatPair \/ Integer \/ Root \/ Turn \/ Sample)
Retire == req # None /\ req' = None /\ res' = None

Next == Issue \/ Retire
Spec == Init /\ [][Next]_vars

\* The units are combinational and every lane operation is read in the clock it is given:
\* an answer is always taken.
FairSpec == Spec /\ WF_vars(Retire)
-----------------------------------------------------------------------------
\* The golden model reads an instruction's fields itself and the compute unit works from
\* its decoder: every instruction leaves the same registers and predicates behind in
\* both, the guard false or true, operands and destination the same register or not.
\* Left out are the special registers NCTAID_Y and NCTAID_Z, which read 1 in the golden
\* model and 0 in the compute unit, and constants the host has not set.
LaneAgreement ==
  req.unit = "lane" =>
    \/ req.f.op = OP.RDSR /\ req.f.imm \in {10, 11}
    \/ req.f.op = OP.LDC /\ req.f.imm \notin 0 .. req.c.loaded - 1
    \/ res.rtl = res.iss

\* Every field of an instruction survives its encoding, negative immediates too, and the
\* decoder selects the immediate of the instruction's own format.
RoundTrip ==
  req.unit = "codec" =>
    LET f == req.f
        w == res.w
    IN  /\ res.d.opcode = f.op /\ res.d.gneg = f.g.neg /\ res.d.psel = f.g.psel
        /\ f.fmt \in {"R", "I", "U", "F"} => res.d.rd = f.d
        /\ f.fmt \in {"R", "I", "F"} => res.d.rs1 = f.a
        /\ f.fmt \in {"R", "F"} => res.d.rs2 = f.b
        /\ f.fmt \in {"P", "Q"} => res.d.pd = f.d /\ res.d.cmp = f.cc /\ prs1(w) = f.a
        /\ f.fmt = "P" => prs2(w) = f.b
        /\ f.fmt \in {"I", "U", "B", "Q"} => res.d.imm = f.imm
        /\ w.lo \in 0 .. 2^23 - 1

-----------------------------------------------------------------------------
\* A number in units of the last place of the smallest exponent, and one such place of x.
Exact(x) == IF x.e = 0 THEN 0
            ELSE (IF x.s = 1 THEN -1 ELSE 1) * F!Significand(x) * 2^(x.e - 1)
Place(x) == 2^(x.e - 1)
Size(n)  == IF n < 0 THEN -n ELSE n

Product(x, y, r) ==
  LET e == x.e + y.e - F!Bias
      k == r.e - e
  IN  (x.e # 0 /\ y.e # 0 /\ e >= 1 /\ e + 1 < 2^EW) =>
        /\ r.s = (x.s + y.s) % 2 /\ k \in {0, 1}
        /\ F!Significand(r) * F!One * 2^k <= F!Significand(x) * F!Significand(y)
        /\ F!Significand(x) * F!Significand(y) < (F!Significand(r) + 1) * F!One * 2^k

Sum(x, y, r) ==
  LET exact == Exact(x) + Exact(y)
      high  == IF x.e > y.e THEN x ELSE y
  IN  (x.e # 0 /\ y.e # 0) =>
        /\ (x.s = y.s /\ high.e + 1 < 2^EW) =>
             /\ Size(Exact(r)) <= Size(exact) /\ Size(exact) < Size(Exact(r)) + Place(r)
             /\ r.s = x.s
        /\ (x.s # y.s /\ exact = 0) => r = F!Zero(0)
        /\ (x.s # y.s /\ Size(exact) >= F!One) =>
             /\ r.s = (IF exact < 0 THEN 1 ELSE 0)
             /\ Size(exact) <= Size(Exact(r)) /\ Size(Exact(r)) < Size(exact) + Place(high)

\* Multiplication, and addition of like signs, are the exact result with what lies below
\* the last place dropped, as long as the exponent has room. A difference is off by less
\* than a place of its larger operand, and never too small.
FloatsTruncate ==
  req.unit = "float" => Product(req.x, req.y, res.mul) /\ Sum(req.x, req.y, res.add)

\* isa.hpp:147 and docs/ISA.md:136 say of all of it: round toward zero. So no sum is
\* larger in magnitude than the exact one, where the exponent has room above and below.
RoundTowardZero ==
  req.unit = "float" =>
    LET exact == Exact(req.x) + Exact(req.y)
        high  == IF req.x.e > req.y.e THEN req.x.e ELSE req.y.e
    IN  (req.x.e # 0 /\ req.y.e # 0 /\ high + 1 < 2^EW /\ Size(exact) >= F!One) =>
          Size(Exact(res.add)) <= Size(exact)

\* The comparisons and FMIN and FMAX, which compare keys, order the numbers themselves;
\* both zeros and everything flushed to zero are one number.
OrderIsNumeric ==
  req.unit = "float" =>
    /\ res.lt <=> Exact(req.x) < Exact(req.y)
    /\ res.eq <=> Exact(req.x) = Exact(req.y)
    /\ {res.min, res.max} \subseteq {req.x, req.y}
    /\ Exact(res.min) <= Exact(req.x) /\ Exact(res.min) <= Exact(req.y)
    /\ Exact(res.max) >= Exact(req.x) /\ Exact(res.max) >= Exact(req.y)

\* MUL and MULH are the two halves of the exact signed product; shifts are multiplication
\* and division by a power of two, SRA's toward minus infinity; a sum is its XOR and its
\* carries; I2F and F2I drop what does not fit, and F2I saturates.
IntegersAreExact ==
  req.unit = "integer" =>
    LET sa  == ToSigned(req.a)
        sb  == ToSigned(req.b)
        p   == 2^(req.b % Width)
        y   == res.alu
        x   == Num(req.a)
        n   == ToSigned(res.f2i)
        f   == res.i2f
    IN  /\ ToSigned(y[OP.MULH]) * WordSpace + y[OP.MUL] = sa * sb
        /\ y[OP.SHR] * p <= req.a /\ req.a < (y[OP.SHR] + 1) * p
        /\ ToSigned(y[OP.SRA]) * p <= sa /\ sa < (ToSigned(y[OP.SRA]) + 1) * p
        /\ (y[OP.SHL] - req.a * p) % WordSpace = 0
        /\ y[OP.SUB] = (y[OP.XOR] - 2 * (y[OP.AND] ^^ req.b)) % WordSpace
        /\ (y[OP.SLT] = 1) <=> (sa < sb)
        /\ ToSigned(y[OP.MIN]) <= sa /\ ToSigned(y[OP.MIN]) <= sb
        /\ (sa # 0) =>
             /\ f.s = (IF sa < 0 THEN 1 ELSE 0)
             /\ Size(ToSigned(res.back)) <= Size(sa)
             /\ Size(sa) < Size(ToSigned(res.back)) + 2^F!Msb(Size(sa)) \div F!One + 1
        /\ IF x.e # 0 /\ x.e - F!Bias <= Width - 2
           THEN x.e >= F!Bias =>
                  /\ Size(n) * F!One <= F!Significand(x) * 2^(x.e - F!Bias)
                  /\ F!Significand(x) * 2^(x.e - F!Bias) < (Size(n) + 1) * F!One
                  /\ n # 0 => (n < 0 <=> x.s = 1)
           ELSE x.e # 0 => n = IF x.s = 1 THEN -2^(Width - 1) ELSE 2^(Width - 1) - 1

-----------------------------------------------------------------------------
RootsAreClose ==
  req.unit = "root" =>
    LET x    == req.x
        g    == R!Significand(x) * (1 + ((x.e - R!Bias) % 2))
        inv  == res.rcp
        root == res.sqrt
        one2 == R!One * R!One
        last == 2^(res.rsqrt.e + root.e - (2 * R!Bias - 1))
        back == R!Significand(res.rsqrt) * last
        low  == back - 2 * last
        high == back + 2 * last
    IN  /\ (x.e \in 1 .. 2 * R!Bias - 2 /\ x.m # 0) =>
             /\ inv.s = x.s /\ inv.e + x.e = 2 * R!Bias - 1
             /\ R!Significand(inv) * R!Significand(x) <= 2 * one2
             /\ 2 * one2 < (R!Significand(inv) + 2) * R!Significand(x)
        /\ (x.e \in 1 .. 2 * R!Bias /\ x.s = 0) =>
             /\ R!Significand(root) * R!Significand(root) <= g * R!One
             /\ g * R!One < (R!Significand(root) + 1) * (R!Significand(root) + 1)
             /\ 2 * (root.e - R!Bias) + ((x.e - R!Bias) % 2) = x.e - R!Bias
             /\ res.rsqrt.e + root.e \in {2 * R!Bias - 1, 2 * R!Bias}
             /\ low * low * g <= 4 * one2 * R!One
             /\ 4 * one2 * R!One <= high * high * g

\* A sine or cosine in 1/32768, from the phase.
Q15(q) == IF q.s = 1 THEN -q.v ELSE q.v

TurnIsCircle ==
  req.unit = "turn" =>
    LET sq == T!sfu_sinq15(res.phase)
        cq == T!sfu_sinq15((res.phase + 16384) % 65536)
        sum == sq.v * sq.v + cq.v * cq.v
        next == T!sfu_sinq15((res.phase + 1) % 65536)
    IN  /\ res.minus.cos = res.cos
        /\ res.minus.sin = (IF res.sin.e = 0 THEN res.sin ELSE T!Negate(res.sin))
        /\ Size(sum - 2^30) <= 2^30 \div 3535
        /\ (res.phase < 16384) => Q15(sq) <= Q15(next)
        /\ Size(Q15(sq) - Q15(next)) <= 4
        /\ res.sin.e <= T!Bias /\ (res.sin.e = T!Bias => res.sin.m = 0)

\* isa.hpp:230 promises RCP and RSQRT within about two units of the last place: RCP is less
\* than two below the exact reciprocal and never above it, the square root under RSQRT is
\* exact but for the dropped places, and RSQRT is within two of the exact value. Sine is odd and cosine even,
\* bit for bit; the table and its interpolation stay as near the unit circle as an error
\* of 1/10000 in each, which the source names, allows; and the quarter wave never falls,
\* its joints included.
ApproximationsHold == RootsAreClose /\ TurnIsCircle

\* docs/ISA.md:143 and sfu.sv:4 say more of RCP: an exact truncated reciprocal, within one
\* unit of the last place.
ReciprocalWithinPlace ==
  req.unit = "root" =>
    LET x   == req.x
        inv == res.rcp
        one2 == R!One * R!One
    IN  (x.e \in 1 .. 2 * R!Bias - 2 /\ x.m # 0) =>
          /\ R!Significand(inv) * R!Significand(x) <= 2 * one2
          /\ 2 * one2 <= (R!Significand(inv) + 1) * R!Significand(x)

\* The documents claim both, of every execution: sums round toward zero, and reciprocals
\* are within one unit. Not even one of the two can be relied on: a single execution
\* breaks the first with an FADD and the second with an RCP.
AccuracyAsDocumented == []RoundTowardZero \/ []ReciprocalWithinPlace

\* A texel address never leaves the pyramid and is the one the rasterizer forms from its
\* own tables; the level of detail is a level there is, and the same in both; a filtered
\* colour lies among the colours it is filtered from.
SamplesStayInside ==
  req.unit = "texel" =>
    LET t == req.tex
        base == {t.rgb[i] : i \in 1 .. t.W * t.H}
        Among(c) == (\E a \in base : a <= c) /\ (\E a \in base : c <= a)
    IN  /\ res.lod \in 0 .. t.levels - 1 /\ res.rtlLod = res.lod
        /\ Len(t.rgb) = S!lvl_off(t.W, t.levels)
        /\ res.index \in S!lvl_off(t.W, res.lod) .. S!lvl_off(t.W, res.lod + 1) - 1
        /\ res.rtlIndex = res.index
        /\ Among(res.nearest) /\ Among(res.bilinear)
=============================================================================
