---------------------------- MODULE TextureSampling ----------------------------
(***************************************************************************)
(* Textures (gfx.hpp): the mip pyramid kept as one array, its construction *)
(* by a box filter, the level of detail of a triangle, and nearest and     *)
(* bilinear sampling. A colour is one of its components, 0 .. 255; a       *)
(* texture is [W, H, levels, rgb]; coordinates are 8.8 fixed point. The    *)
(* Rtl operators are raster.sv's, which has the pyramid in texmem.         *)
(***************************************************************************)
EXTENDS Integers, Sequences

LOCAL INSTANCE SequencesExt
LOCAL INSTANCE FiniteSetsExt

\* Right shift of a size or a coordinate.
Shift(n, l) == n \div 2^l

lvl_off(w, l) == MapThenSumSet(LAMBDA i : Shift(w, i) * Shift(w, i), 0 .. l - 1)

checker(w, h, tile, c0, c1) ==
  [W |-> w, H |-> h, levels |-> 1,
   rgb |-> [i \in 1 .. w * h |->
              IF (((i - 1) % w) \div tile + ((i - 1) \div w) \div tile) % 2 = 1 THEN c1 ELSE c0]]

\* Fault: the sum of four texels is stored, in eight bits.
BoxMean_Sum(s) == s % 256
BoxMean(s) == s \div 4

\* One more level: the mean of four texels of the level before it, rounded down.
BoxLevel(t, l) ==
  LET sw == Shift(t.W, l - 1)
      dw == Shift(t.W, l)
      At(x, y) == t.rgb[lvl_off(t.W, l - 1) + y * sw + x + 1]
      Mean(x, y) == BoxMean(At(2 * x, 2 * y) + At(2 * x + 1, 2 * y)
                            + At(2 * x, 2 * y + 1) + At(2 * x + 1, 2 * y + 1))
  IN  [i \in 1 .. dw * dw |-> Mean((i - 1) % dw, (i - 1) \div dw)]

build_mips(t) ==
  LET levels == CHOOSE n \in 1 .. 31 : /\ Shift(t.W, n) = 0 \/ Shift(t.H, n) = 0
                                       /\ Shift(t.W, n - 1) # 0 /\ Shift(t.H, n - 1) # 0
      up[l \in 0 .. levels - 1] ==
        IF l = 0 THEN t ELSE [up[l - 1] EXCEPT !.rgb = @ \o BoxLevel(up[l - 1], l)]
  IN  [up[levels - 1] EXCEPT !.levels = levels]

-----------------------------------------------------------------------------
ClampTo(v, n) == IF v < 0 THEN 0 ELSE IF v >= n THEN n - 1 ELSE v

\* The place of a texel in the array, addresses clamped to the level.
TexelIndex(t, l, tx, ty) ==
  LET lw == Shift(t.W, l)
      lh == Shift(t.H, l)
  IN  lvl_off(t.W, l) + ClampTo(ty, lh) * lw + ClampTo(tx, lw)

sample_lvl(t, l, tx, ty) == t.rgb[TexelIndex(t, l, tx, ty) + 1]

sample_nearest(t, l, u, v) == sample_lvl(t, l, Shift(u, 8 + l), Shift(v, 8 + l))

sample_bilinear(t, l, u88, v88) ==
  LET uu == Shift(u88, l) - 128
      vv == Shift(v88, l) - 128
      tx == uu \div 256
      ty == vv \div 256
      fx == uu % 256
      fy == vv % 256
  IN  (sample_lvl(t, l, tx, ty) * (256 - fx) * (256 - fy)
       + sample_lvl(t, l, tx + 1, ty) * fx * (256 - fy)
       + sample_lvl(t, l, tx, ty + 1) * (256 - fx) * fy
       + sample_lvl(t, l, tx + 1, ty + 1) * fx * fy) \div 65536

\* The level of detail: ratio is texel area over pixel area, and a level covers four
\* texels where the one before it covers one.
lod_of(t, ratio) ==
  CHOOSE l \in 0 .. t.levels - 1 :
    /\ l + 1 >= t.levels \/ ratio \div 4^(l + 1) = 0
    /\ \A k \in 0 .. l - 1 : ratio \div 4^(k + 1) # 0

-----------------------------------------------------------------------------
\* raster.sv. The index is cut to the bits that address twice the base level.
RtlOffset(w, h, l) == MapThenSumSet(LAMBDA i : Shift(w, i) * Shift(h, i), 0 .. l - 1)
RtlIndex(t, l, tx, ty) ==
  LET Clamp(v, hi) == IF v < 0 THEN 0 ELSE IF v > hi THEN hi ELSE v
  IN  (RtlOffset(t.W, t.H, l) + Clamp(ty, Shift(t.H, l) - 1) * Shift(t.W, l)
       + Clamp(tx, Shift(t.W, l) - 1)) % (2 * t.W * t.H)

\* f_lod: one more level a step, as often as there are levels.
RtlLod(levels, ratio) ==
  FoldLeft(LAMBDA l, i : IF l + 1 < levels /\ ratio \div 4^(l + 1) # 0 THEN l + 1 ELSE l,
           0, [i \in 1 .. levels |-> i])
================================================================================
