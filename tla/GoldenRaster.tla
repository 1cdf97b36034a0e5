----------------------------- MODULE GoldenRaster -----------------------------
(***************************************************************************)
(* The golden model of a triangle and of a draw call, as the sequence of   *)
(* writes to the framebuffer it makes: the triangles in order, and the     *)
(* pixels of each row by row.                                              *)
(***************************************************************************)
EXTENDS TriangleMath

\* The pixels of a triangle in the golden model's order.
GoldenBox(t) ==
  {p \in [x : 0 .. W - 1, y : 0 .. H - 1] :
     /\ Least(t[1].x, t[2].x, t[3].x) <= p.x /\ p.x <= Greatest(t[1].x, t[2].x, t[3].x)
     /\ Least(t[1].y, t[2].y, t[3].y) <= p.y /\ p.y <= Greatest(t[1].y, t[2].y, t[3].y)}

\* Whether it draws a pixel, and the pixels it draws among the first k of the target,
\* which are taken row by row.
Covered(t, p) == p \in GoldenBox(t) /\ Area(t) # 0 /\ Inside(t, p) /\ Persp(t, p) # 0

PixelAt(k) == [x |-> k % W, y |-> k \div W]
PixelsBefore(t, k) ==
  LET scan[n \in 0 .. W * H] ==
        IF n = 0 THEN << >>
        ELSE IF Covered(t, PixelAt(n - 1)) THEN Append(scan[n - 1], PixelAt(n - 1))
        ELSE scan[n - 1]
  IN  scan[k]
GoldenPixels(t) == PixelsBefore(t, W * H)

\* The write of one fragment, of a pixel cleared, and of all pixels cleared.
FragmentWrite(p, z, rgb, how) == [pidx |-> p.y * W + p.x, clear |-> FALSE,
                                  z |-> z, rgb |-> rgb, how |-> how]
ClearWrites(colour) ==
  [i \in 1 .. W * H |-> [pidx |-> i - 1, clear |-> TRUE, rgb |-> colour]]

\* raster_triangle_ex: a triangle drawn at once, its colours as they are interpolated.
TriangleWrites(t, cull, how) ==
  IF cull /\ Area(t) < 0 THEN << >>
  ELSE LET px == GoldenPixels(t)
       IN  [i \in 1 .. Len(px) |->
              FragmentWrite(px[i], Depth(t, px[i]), Colour(t, px[i]), how)]

\* The fragments of a triangle of a draw call, each packed into a record and coloured by
\* the fragment shader.
ShadedWrites(t, how) ==
  LET px == GoldenPixels(t)
  IN  [i \in 1 .. Len(px) |->
         FragmentWrite(px[i], Depth(t, px[i]) % ZSpace,
                       Shade(Texture(t, px[i]), Colour(t, px[i]) % ColourSpace), how)]

\* A draw call: the fragments of its triangles, of the first k and of all, up to the
\* number the device has room for.
TrianglesWrites(ts, how, k) ==
  LET first[n \in 0 .. Len(ts)] ==
        IF n = 0 THEN << >> ELSE first[n - 1] \o ShadedWrites(ts[n], how)
  IN  first[k]
Fitting(s) == IF Len(s) <= FragMax THEN s ELSE SubSeq(s, 1, FragMax)
DrawWrites(ts, how) == Fitting(TrianglesWrites(ts, how, Len(ts)))
=============================================================================
