-------------------------------- MODULE Raster --------------------------------
(***************************************************************************)
(* raster: the fixed-function rasterizer, its fragment buffer and the      *)
(* framebuffer with the render output unit in front of it.  The rasterizer *)
(* is a record; RasterNext is its value after a clock, given what it sees  *)
(* on its ports.                                                           *)
(***************************************************************************)
EXTENDS TriangleMath

\* One record of the fragment buffer.
Fragment == [pidx : Pixels, z : 0 .. ZSpace - 1, uv : Int, rgb : 0 .. ColourSpace - 1]

\* The render output unit: depth test, blend, write. It is given a colour of 8 bits, and
\* blends with unsigned arithmetic.
Mix(s, d, alpha) == (s * alpha + d * (MaxAlpha - alpha)) \div MaxAlpha
Rop(dst, z, rgb, how) ==
  IF z < dst.z
  THEN [z   |-> IF how.dwrite THEN z ELSE dst.z,
        rgb |-> IF how.blend THEN Mix(rgb, dst.rgb, how.alpha) ELSE rgb]
  ELSE dst

Clamp(v, low, high) == IF v < low THEN low ELSE IF v > high THEN high ELSE v

\* The bounding box, clamped to the target.
MinX(t) == Clamp(Least(t[1].x, t[2].x, t[3].x), 0, W - 1)
MaxX(t) == Clamp(Greatest(t[1].x, t[2].x, t[3].x), 0, W - 1)
MinY(t) == Clamp(Least(t[1].y, t[2].y, t[3].y), 0, H - 1)
MaxY(t) == Clamp(Greatest(t[1].y, t[2].y, t[3].y), 0, H - 1)

Here(r) == [x |-> r.px, y |-> r.py]
Pidx(r) == r.py * W + r.px

\* IDLE: a clear comes before a triangle; a triangle submitted while the unit is
\* busy is lost.  tri is [t, cull, emit, how], how the output unit's settings.
Accept(r, clear, tri) ==
  CASE clear -> [r EXCEPT !.st = "CLEAR", !.cidx = 0, !.frags = << >>]
    [] ~clear /\ tri.valid ->
         [r EXCEPT !.st = "SCAN", !.tri = tri, !.px = MinX(tri.t), !.py = MinY(tri.t)]
    [] OTHER -> r

ClearPixel(r, colour) ==
  [r EXCEPT !.fb = [r.fb EXCEPT ![r.cidx] = [z |-> Far, rgb |-> colour]],
            !.st = IF r.cidx = W * H - 1 THEN "IDLE" ELSE "CLEAR",
            !.cidx = IF r.cidx = W * H - 1 THEN r.cidx ELSE r.cidx + 1]

Culled(tri) == Area(tri.t) = 0 \/ (tri.cull /\ Area(tri.t) < 0)

\* The pixel under the scan: a record for the fragment buffer, or straight to the
\* framebuffer.
Record(r) ==
  LET t == r.tri.t
  IN  [pidx |-> Pidx(r), z |-> Depth(t, Here(r)) % ZSpace,
       uv |-> Texture(t, Here(r)), rgb |-> Colour(t, Here(r)) % ColourSpace]

\* Fault: the buffer takes one record more than it holds.
Room_Late(r) == Len(r.frags) <= FragMax
Room(r) == Len(r.frags) < FragMax

Plot(r) ==
  LET t == r.tri.t
      drawn == Inside(t, Here(r)) /\ Persp(t, Here(r)) # 0
  IN  CASE drawn /\ r.tri.emit /\ Room(r) -> [r EXCEPT !.frags = Append(r.frags, Record(r))]
        [] drawn /\ ~r.tri.emit ->
             [r EXCEPT !.fb = [r.fb EXCEPT ![Pidx(r)] =
                Rop(r.fb[Pidx(r)], Depth(t, Here(r)), Colour(t, Here(r)) % ColourSpace,
                    r.tri.how)]]
        [] OTHER -> r

\* Fault: the scan leaves out the last row.
Advance_Early(r) ==
  LET t == r.tri.t
  IN  IF r.px # MaxX(t) THEN [r EXCEPT !.px = r.px + 1]
      ELSE IF r.py + 1 >= MaxY(t) THEN [r EXCEPT !.px = MinX(t), !.st = "IDLE"]
      ELSE [r EXCEPT !.px = MinX(t), !.py = r.py + 1]

\* The scan moves along the row, then to the next.
Advance(r) ==
  LET t == r.tri.t
  IN  IF r.px # MaxX(t) THEN [r EXCEPT !.px = r.px + 1]
      ELSE IF r.py = MaxY(t) THEN [r EXCEPT !.px = MinX(t), !.st = "IDLE"]
      ELSE [r EXCEPT !.px = MinX(t), !.py = r.py + 1]

\* A clock of the scan: the pixel it is at, and on to the next.
Scan(r) ==
  IF Culled(r.tri) THEN [r EXCEPT !.st = "IDLE"]
  ELSE [Advance(r) EXCEPT !.frags = Plot(r).frags, !.fb = Plot(r).fb]

\* A fragment shaded elsewhere enters the output unit in any state; a new draw
\* call empties the fragment buffer.
Enter(r, fin) ==
  IF fin.valid
  THEN [r EXCEPT !.fb = [r.fb EXCEPT ![fin.pidx] =
          Rop(r.fb[fin.pidx], fin.z, fin.rgb, fin.how)]]
  ELSE r

RasterNext(r, clear, tri, fragRst, fin) ==
  LET s == CASE r.st = "IDLE"  -> Accept(r, clear.valid, tri)
             [] r.st = "CLEAR" -> ClearPixel(r, clear.rgb)
             [] r.st = "SCAN"  -> Scan(r)
      e == Enter(s, fin)
  IN  IF fragRst THEN [e EXCEPT !.frags = << >>] ELSE e
=============================================================================
