----------------------------- MODULE GfxProofs -----------------------------
(***************************************************************************)
(* The graphics device's registers have their types in every state, and    *)
(* the output unit is handed exactly the fragments the rasterizer left in  *)
(* the buffer, in order and shaded once.  The argument follows a draw call *)
(* through the states of gfx_seq: what each state has sent (Outputs), that *)
(* a grid runs only while it is waited for (GridRuns), for whom the        *)
(* rasterizer works (RasterWorks), and how many words of the records are   *)
(* in memory, raw and then shaded (Records).  Then the device implements   *)
(* Rendering: the pixels of a scan and the fragments of a draw call are    *)
(* those of the golden model, one after another.                           *)
(***************************************************************************)
EXTENDS GfxDevice, RoundRobinProofs, SequenceTheorems

Colours == 0 .. ColourSpace - 1

\* Products of integers, and how they grow.
LEMMA Products ==
  ASSUME NEW a \in Int, NEW b \in Int PROVE a * b \in Int
  OBVIOUS

LEMMA ProductsOrder ==
  ASSUME NEW a \in Nat, NEW b \in Nat, NEW n \in Nat, a <= b
  PROVE  a * n \in Nat /\ b * n \in Nat /\ a * n <= b * n
  <1>1. b - a \in Nat
    OBVIOUS
  <1>2. (b - a) * n >= 0
    BY <1>1
  <1>3. (b - a) * n = b * n - a * n
    OBVIOUS
  <1> QED
    BY <1>2, <1>3

\* A place on the target has an index of its framebuffer.
LEMMA PixelIndex ==
  ASSUME NEW x \in 0 .. W - 1, NEW y \in 0 .. H - 1
  PROVE  y * W + x \in Pixels
  <1>1. /\ W \in Nat /\ H \in Nat /\ x \in Nat /\ y \in Nat /\ y + 1 \in Nat /\ y + 1 <= H
        /\ x < W
    BY TargetAssumption
  <1>2. (y + 1) * W <= H * W /\ H * W \in Nat /\ y * W \in Nat
    BY <1>1, ProductsOrder
  <1>3. (y + 1) * W = y * W + W /\ H * W = W * H
    BY <1>1
  <1> QED
    BY <1>1, <1>2, <1>3 DEF Pixels

\* The words of a vertex, and the least and the greatest of three.
LEMMA VertexFields ==
  ASSUME NEW v \in VertexWords
  PROVE  v.x \in Int /\ v.y \in Int /\ v.z \in Int /\ v.q \in Int /\ v.rgb \in Int /\ v.uv \in Int
  BY DEF VertexWords, Fields

LEMMA LeastOf ==
  ASSUME NEW a \in Int, NEW b \in Int, NEW c \in Int
  PROVE  /\ Least(a, b, c) \in {a, b, c} /\ Least(a, b, c) <= a
         /\ Least(a, b, c) <= b /\ Least(a, b, c) <= c
  <1>1. \E m \in {a, b, c} : \A n \in {a, b, c} : m <= n
    OBVIOUS
  <1> QED
    BY <1>1 DEF Least

LEMMA GreatestOf ==
  ASSUME NEW a \in Int, NEW b \in Int, NEW c \in Int
  PROVE  /\ Greatest(a, b, c) \in {a, b, c} /\ Greatest(a, b, c) >= a
         /\ Greatest(a, b, c) >= b /\ Greatest(a, b, c) >= c
  <1>1. \E m \in {a, b, c} : \A n \in {a, b, c} : m >= n
    OBVIOUS
  <1> QED
    BY <1>1 DEF Greatest

\* The bounding box lies on the target.
LEMMA BoxOnTarget ==
  ASSUME NEW t \in [1 .. 3 -> VertexWords]
  PROVE  /\ MinX(t) \in 0 .. W - 1 /\ MaxX(t) \in 0 .. W - 1 /\ MinX(t) <= MaxX(t)
         /\ MinY(t) \in 0 .. H - 1 /\ MaxY(t) \in 0 .. H - 1 /\ MinY(t) <= MaxY(t)
  <1>1. /\ t[1].x \in Int /\ t[2].x \in Int /\ t[3].x \in Int
        /\ t[1].y \in Int /\ t[2].y \in Int /\ t[3].y \in Int
    BY VertexFields
  <1>2. \A low, high \in Int : low <= high =>
          \A n \in Nat \ {0} : /\ Clamp(low, 0, n - 1) \in 0 .. n - 1
                               /\ Clamp(high, 0, n - 1) \in 0 .. n - 1
                               /\ Clamp(low, 0, n - 1) <= Clamp(high, 0, n - 1)
    BY DEF Clamp
  <1>3. \A a, b, c \in Int : /\ Least(a, b, c) \in Int /\ Greatest(a, b, c) \in Int
                            /\ Least(a, b, c) <= Greatest(a, b, c)
    <2> SUFFICES ASSUME NEW a \in Int, NEW b \in Int, NEW c \in Int
                 PROVE  /\ Least(a, b, c) \in Int /\ Greatest(a, b, c) \in Int
                        /\ Least(a, b, c) <= Greatest(a, b, c)
      OBVIOUS
    <2>1. Least(a, b, c) \in {a, b, c} /\ Least(a, b, c) <= a
      BY LeastOf
    <2>2. Greatest(a, b, c) \in {a, b, c} /\ Greatest(a, b, c) >= a
      BY GreatestOf
    <2> QED
      BY <2>1, <2>2
  <1>4. ASSUME NEW a \in Int, NEW b \in Int, NEW c \in Int, NEW n \in Nat \ {0}
        PROVE  /\ Clamp(Least(a, b, c), 0, n - 1) \in 0 .. n - 1
               /\ Clamp(Greatest(a, b, c), 0, n - 1) \in 0 .. n - 1
               /\ Clamp(Least(a, b, c), 0, n - 1) <= Clamp(Greatest(a, b, c), 0, n - 1)
    BY <1>2, <1>3
  <1> QED
    BY <1>1, <1>4, TargetAssumption DEF MinX, MaxX, MinY, MaxY

\* The arithmetic of a triangle stays among the integers.
LEMMA QuotientType ==
  ASSUME NEW n \in Int, NEW d \in Int, d # 0
  PROVE  Quotient(n, d) \in Int
  <1>1. \A i \in Int : (IF i < 0 THEN -i ELSE i) \in Nat
    OBVIOUS
  <1>2. (IF d < 0 THEN -d ELSE d) \in Nat \ {0}
    OBVIOUS
  <1>3. (IF n < 0 THEN -n ELSE n) \div (IF d < 0 THEN -d ELSE d) \in Int
    BY <1>1, <1>2
  <1> QED
    BY <1>3 DEF Quotient

LEMMA EdgeType ==
  ASSUME NEW ax \in Int, NEW ay \in Int, NEW bx \in Int, NEW by \in Int, NEW px \in Int, NEW py \in Int
  PROVE  (bx - ax) * (py - ay) - (by - ay) * (px - ax) \in Int
  <1>1. bx - ax \in Int /\ py - ay \in Int /\ by - ay \in Int /\ px - ax \in Int
    OBVIOUS
  <1> QED
    BY <1>1, Products

LEMMA WeightTypes ==
  ASSUME NEW t \in [1 .. 3 -> VertexWords], NEW x \in Int, NEW y \in Int
  PROVE  /\ Area(t) \in Int
         /\ Weights(t, [x |-> x, y |-> y])[1] \in Int
         /\ Weights(t, [x |-> x, y |-> y])[2] \in Int
         /\ Weights(t, [x |-> x, y |-> y])[3] \in Int
  <1>1. /\ t[1].x \in Int /\ t[2].x \in Int /\ t[3].x \in Int
        /\ t[1].y \in Int /\ t[2].y \in Int /\ t[3].y \in Int
    BY VertexFields
  <1> QED
    BY <1>1, EdgeType DEF Area, Weights, Edge

LEMMA Blend3Type ==
  ASSUME NEW w1 \in Int, NEW w2 \in Int, NEW w3 \in Int,
         NEW a1 \in Int, NEW a2 \in Int, NEW a3 \in Int
  PROVE  w1 * a1 + w2 * a2 + w3 * a3 \in Int
  BY Products

\* Depths, colours and texture coordinates are numbers wherever the scan divides.
LEMMA FragmentTypes ==
  ASSUME NEW t \in [1 .. 3 -> VertexWords], NEW x \in Int, NEW y \in Int, Area(t) # 0
  PROVE  /\ Depth(t, [x |-> x, y |-> y]) \in Int
         /\ Persp(t, [x |-> x, y |-> y]) # 0 =>
              Colour(t, [x |-> x, y |-> y]) \in Int /\ Texture(t, [x |-> x, y |-> y]) \in Int
  <1> DEFINE p == [x |-> x, y |-> y]
             w == Weights(t, p)
  <1>1. /\ t[1] \in VertexWords /\ t[2] \in VertexWords /\ t[3] \in VertexWords
        /\ Area(t) \in Int /\ w[1] \in Int /\ w[2] \in Int /\ w[3] \in Int
    BY WeightTypes
  <1> HIDE DEF w, p
  <1>2. \A a \in [1 .. 3 -> Int] : Blend3(w, a) \in Int
    BY <1>1, Blend3Type DEF Blend3
  <1>3. /\ [i \in 1 .. 3 |-> t[i].z] \in [1 .. 3 -> Int] /\ [i \in 1 .. 3 |-> t[i].q] \in [1 .. 3 -> Int]
        /\ [i \in 1 .. 3 |-> t[i].rgb] \in [1 .. 3 -> Int] /\ [i \in 1 .. 3 |-> t[i].uv] \in [1 .. 3 -> Int]
        /\ \A i \in 1 .. 3 : t[i].q \in Int
    BY VertexFields
  <1>4. Depth(t, p) \in Int
    BY <1>1, <1>2, <1>3, QuotientType DEF Depth, w
  <1>5. Persp(t, p) \in Int
    BY <1>2, <1>3 DEF Persp, w
  <1>6. ASSUME NEW a \in [1 .. 3 -> Int], Persp(t, p) # 0 PROVE Attribute(t, p, a) \in Int
    <2>1. \A i \in 1 .. 3 : a[i] * t[i].q \in Int
      BY <1>3, Products
    <2>2. Blend3(w, [i \in 1 .. 3 |-> a[i] * t[i].q]) \in Int
      BY <2>1, <1>2
    <2> QED
      BY <2>2, <1>5, <1>6, QuotientType DEF Attribute, w
  <1>7. Persp(t, p) # 0 => Colour(t, p) \in Int /\ Texture(t, p) \in Int
    BY <1>3, <1>6 DEF Colour, Texture
  <1> QED
    BY <1>4, <1>7 DEF p

\* A blend of colours is a colour, a mean with positive weights.
LEMMA MixType ==
  ASSUME NEW rgb \in Colours, NEW d \in Colours, NEW a \in 0 .. MaxAlpha
  PROVE  rgb * a + d * (MaxAlpha - a) \in Nat /\ Mix(rgb, d, a) \in Colours
  <1> DEFINE m == ColourSpace - 1
  <1>1. /\ a \in Nat /\ MaxAlpha - a \in Nat /\ MaxAlpha \in Nat \ {0} /\ m \in Nat
        /\ d \in Nat /\ d <= m /\ rgb \in Nat /\ rgb <= m
    BY TargetAssumption DEF Colours
  <1> HIDE DEF m
  <1>2. /\ rgb * a \in Nat /\ d * (MaxAlpha - a) \in Nat
        /\ rgb * a <= m * a /\ d * (MaxAlpha - a) <= m * (MaxAlpha - a)
        /\ m * a \in Nat /\ m * (MaxAlpha - a) \in Nat
    BY <1>1, ProductsOrder
  <1>3. m * a + m * (MaxAlpha - a) = m * MaxAlpha
    BY <1>1
  <1>4. rgb * a + d * (MaxAlpha - a) \in Nat /\ rgb * a + d * (MaxAlpha - a) <= m * MaxAlpha
    BY <1>2, <1>3
  <1>5. \A n \in Nat : n <= m * MaxAlpha => n \div MaxAlpha \in 0 .. m
    <2> SUFFICES ASSUME NEW n \in Nat, n <= m * MaxAlpha PROVE n \div MaxAlpha \in 0 .. m
      OBVIOUS
    <2>1. n \div MaxAlpha \in Nat /\ MaxAlpha * (n \div MaxAlpha) <= n
      BY <1>1
    <2>2. ASSUME n \div MaxAlpha >= m + 1 PROVE FALSE
      <3>1. (m + 1) * MaxAlpha <= (n \div MaxAlpha) * MaxAlpha
        BY <1>1, <2>1, <2>2, ProductsOrder
      <3>2. (m + 1) * MaxAlpha = m * MaxAlpha + MaxAlpha /\ m * MaxAlpha \in Nat
        BY <1>1
      <3>3. (n \div MaxAlpha) * MaxAlpha = MaxAlpha * (n \div MaxAlpha)
        BY <1>1, <2>1
      <3>4. (n \div MaxAlpha) * MaxAlpha \in Nat
        BY <1>1, <2>1
      <3> QED
        BY <3>1, <3>2, <3>3, <3>4, <2>1, <1>1
    <2> QED
      BY <2>1, <2>2, <1>1
  <1>6. Mix(rgb, d, a) \in 0 .. m
    BY <1>4, <1>5 DEF Mix
  <1> QED
    BY <1>4, <1>6 DEF Colours, m

\* The output unit writes texels.
LEMMA RopType ==
  ASSUME NEW dst \in Texel, NEW z \in Int, NEW rgb \in Colours, NEW how \in Settings
  PROVE  Rop(dst, z, rgb, how) \in Texel
  <1>1. dst.rgb \in Colours /\ how.alpha \in 0 .. MaxAlpha
    BY DEF Texel, Colours, Settings
  <1>2. Mix(rgb, dst.rgb, how.alpha) \in Colours
    BY <1>1, MixType
  <1> QED
    BY <1>2 DEF Rop, Texel, Colours, Settings

RasterRecords ==
  [st : {"IDLE", "CLEAR", "SCAN"}, cidx : Pixels, px : 0 .. W - 1, py : 0 .. H - 1,
   tri : {Low} \cup Submission, frags : Seq(Fragment), fb : [Pixels -> Texel]]

\* The rasterizer is well formed and scans inside the box of its triangle.
RasterOK(r) ==
  /\ r \in RasterRecords
  /\ Len(r.frags) <= FragMax
  /\ r.st = "SCAN" => /\ r.tri \in Submission
                      /\ r.px >= MinX(r.tri.t) /\ r.px <= MaxX(r.tri.t)
                      /\ r.py >= MinY(r.tri.t) /\ r.py <= MaxY(r.tri.t)

Cleared(r) == [r EXCEPT !.st = "CLEAR", !.cidx = 0, !.frags = << >>]
Submitted(r, tri) ==
  [r EXCEPT !.st = "SCAN", !.tri = tri, !.px = MinX(tri.t), !.py = MinY(tri.t)]

\* Each step of the rasterizer keeps it well formed.
LEMMA ClearStarts ==
  ASSUME NEW r, RasterOK(r)
  PROVE  RasterOK(Cleared(r))
  <1>1. 0 \in Pixels
    <2>1. W * H >= 1
      <3>1. W \in Nat /\ H \in Nat /\ 1 <= W /\ 1 <= H
        BY TargetAssumption
      <3>2. 1 * H <= W * H /\ W * H \in Nat
        BY <3>1, ProductsOrder
      <3> QED
        BY <3>1, <3>2
    <2>2. W * H \in Nat
      BY TargetAssumption
    <2> QED
      BY <2>1, <2>2 DEF Pixels
  <1>2. << >> \in Seq(Fragment) /\ Len(<< >>) = 0
    OBVIOUS
  <1>3. Cleared(r) \in RasterRecords
    BY <1>1, <1>2 DEF RasterOK, RasterRecords, Cleared
  <1>4. Cleared(r).frags = << >> /\ Cleared(r).st = "CLEAR"
    BY DEF RasterOK, RasterRecords, Cleared
  <1> QED
    BY <1>2, <1>3, <1>4, TargetAssumption DEF RasterOK

LEMMA ClearGoesOn ==
  ASSUME NEW r, RasterOK(r), r.st = "CLEAR", NEW colour \in Colours
  PROVE  RasterOK(ClearPixel(r, colour)) /\ ClearPixel(r, colour).st # "SCAN"
  <1>1. r \in RasterRecords /\ r.fb \in [Pixels -> Texel] /\ r.cidx \in Pixels
    BY DEF RasterOK, RasterRecords
  <1>2. [z |-> Far, rgb |-> colour] \in Texel
    BY TargetAssumption DEF Texel, Colours
  <1>3. [r.fb EXCEPT ![r.cidx] = [z |-> Far, rgb |-> colour]] \in [Pixels -> Texel]
    BY <1>1, <1>2
  <1>4. r.cidx # W * H - 1 => r.cidx + 1 \in Pixels
    <2>1. W * H \in Int
      BY TargetAssumption, Products
    <2> DEFINE n == W * H
    <2> HIDE DEF n
    <2>2. n \in Int /\ Pixels = 0 .. n - 1
      BY <2>1 DEF n, Pixels
    <2> QED
      BY <1>1, <2>2 DEF n
  <1> QED
    BY <1>1, <1>3, <1>4 DEF RasterOK, RasterRecords, ClearPixel

LEMMA SubmitStarts ==
  ASSUME NEW r, RasterOK(r), NEW tri \in Submission
  PROVE  RasterOK(Submitted(r, tri))
  <1>1. tri.t \in [1 .. 3 -> VertexWords]
    BY DEF Submission
  <1>2. /\ MinX(tri.t) \in 0 .. W - 1 /\ MaxX(tri.t) \in 0 .. W - 1 /\ MinX(tri.t) <= MaxX(tri.t)
        /\ MinY(tri.t) \in 0 .. H - 1 /\ MaxY(tri.t) \in 0 .. H - 1 /\ MinY(tri.t) <= MaxY(tri.t)
    BY <1>1, BoxOnTarget
  <1> DEFINE s == Submitted(r, tri)
  <1>3. /\ s \in RasterRecords /\ s.frags = r.frags /\ s.tri = tri
        /\ s.px = MinX(tri.t) /\ s.py = MinY(tri.t)
    BY <1>2 DEF RasterOK, RasterRecords, Submitted
  <1> HIDE DEF s
  <1>4. \A n \in 0 .. W - 1 : n >= n
    BY TargetAssumption
  <1>5. \A n \in 0 .. H - 1 : n >= n
    BY TargetAssumption
  <1>6. RasterOK(s)
    BY <1>2, <1>3, <1>4, <1>5 DEF RasterOK
  <1> QED
    BY <1>6 DEF s

\* The pixel under the scan: a record of the buffer, if it has room, or a texel.
LEMMA PlotKeeps ==
  ASSUME NEW r, RasterOK(r), r.st = "SCAN", ~Culled(r.tri)
  PROVE  RasterOK(Plot(r)) /\ Plot(r).st = "SCAN" /\ Plot(r).tri = r.tri
  <1> DEFINE t == r.tri.t
             drawn == Inside(t, Here(r)) /\ Persp(t, Here(r)) # 0
             c == Colour(t, Here(r)) % ColourSpace
  <1>1. /\ r \in RasterRecords /\ r.fb \in [Pixels -> Texel] /\ r.frags \in Seq(Fragment)
        /\ r.px \in 0 .. W - 1 /\ r.py \in 0 .. H - 1 /\ r.tri \in Submission
        /\ t \in [1 .. 3 -> VertexWords] /\ r.tri.how \in Settings
    BY DEF RasterOK, RasterRecords, Submission
  <1>2. Pidx(r) \in Pixels
    BY <1>1, PixelIndex DEF Pidx
  <1>3. Area(t) # 0
    BY DEF Culled
  <1>4. r.px \in Int /\ r.py \in Int
    BY <1>1, TargetAssumption
  <1>5. /\ Depth(t, Here(r)) \in Int
        /\ drawn => Colour(t, Here(r)) \in Int /\ Texture(t, Here(r)) \in Int
    BY <1>1, <1>3, <1>4, FragmentTypes DEF Here
  <1>6. drawn => c \in Colours
    BY <1>5, TargetAssumption DEF Colours
  <1> HIDE DEF t, drawn, c
  <1>7. CASE drawn /\ r.tri.emit /\ Room(r)
    <2>1. Plot(r) = [r EXCEPT !.frags = Append(r.frags, Record(r))]
      BY <1>7 DEF Plot, drawn, t
    <2>2. Record(r) \in Fragment
      <3>1. Depth(t, Here(r)) % ZSpace \in 0 .. ZSpace - 1
        BY <1>5, TargetAssumption
      <3> QED
        BY <3>1, <1>2, <1>5, <1>6, <1>7 DEF Record, Fragment, t, c, Colours
    <2> HIDE DEF Fragment, Record
    <2>3. /\ Append(r.frags, Record(r)) \in Seq(Fragment)
          /\ Len(Append(r.frags, Record(r))) <= FragMax
      BY <1>1, <1>7, <2>2, TargetAssumption DEF Room
    <2> QED
      BY <1>1, <2>1, <2>3 DEF RasterOK, RasterRecords
  <1>8. CASE drawn /\ ~r.tri.emit
    <2> DEFINE texel == Rop(r.fb[Pidx(r)], Depth(t, Here(r)), c, r.tri.how)
    <2>1. Plot(r) = [r EXCEPT !.fb = [r.fb EXCEPT ![Pidx(r)] = texel]]
      BY <1>8 DEF Plot, drawn, t, c
    <2>2. texel \in Texel
      BY <1>1, <1>2, <1>5, <1>6, <1>8, RopType
    <2> HIDE DEF texel
    <2>3. [r.fb EXCEPT ![Pidx(r)] = texel] \in [Pixels -> Texel]
      BY <1>1, <2>2
    <2> QED
      BY <1>1, <2>1, <2>3 DEF RasterOK, RasterRecords
  <1>9. CASE ~(drawn /\ r.tri.emit /\ Room(r)) /\ ~(drawn /\ ~r.tri.emit)
    <2>1. Plot(r) = r
      BY <1>9 DEF Plot, drawn, t
    <2> QED
      BY <2>1
  <1> QED
    BY <1>7, <1>8, <1>9

\* A scan that is not at its bound stays below it.
LEMMA StepInBox ==
  ASSUME NEW n \in Nat \ {0}, NEW low \in 0 .. n - 1, NEW high \in 0 .. n - 1,
         NEW i \in 0 .. n - 1, low <= i, i <= high, i # high
  PROVE  i + 1 \in 0 .. n - 1 /\ low <= i + 1 /\ i + 1 <= high
  OBVIOUS

LEMMA AdvanceKeeps ==
  ASSUME NEW r, RasterOK(r), r.st = "SCAN"
  PROVE  RasterOK(Advance(r)) /\ Advance(r).st \in {"SCAN", "IDLE"}
  <1> DEFINE t == r.tri.t
  <1>1. /\ r \in RasterRecords /\ r.tri \in Submission /\ t \in [1 .. 3 -> VertexWords]
        /\ r.px \in 0 .. W - 1 /\ r.py \in 0 .. H - 1
    BY DEF RasterOK, RasterRecords, Submission
  <1>2. /\ MinX(t) \in 0 .. W - 1 /\ MaxX(t) \in 0 .. W - 1 /\ MinX(t) <= MaxX(t)
        /\ MinY(t) \in 0 .. H - 1 /\ MaxY(t) \in 0 .. H - 1
    BY <1>1, BoxOnTarget
  <1>3. /\ MinX(t) <= r.px /\ r.px <= MaxX(t)
        /\ MinY(t) <= r.py /\ r.py <= MaxY(t) /\ Len(r.frags) <= FragMax
    <2>1. /\ r.px >= MinX(t) /\ r.px <= MaxX(t)
          /\ r.py >= MinY(t) /\ r.py <= MaxY(t) /\ Len(r.frags) <= FragMax
      BY DEF RasterOK
    <2> QED
      BY <1>1, <1>2, <2>1, TargetAssumption
  <1>4. W \in Nat \ {0} /\ H \in Nat \ {0}
    BY TargetAssumption
  <1>5. r.px # MaxX(t) => r.px + 1 \in 0 .. W - 1 /\ MinX(t) <= r.px + 1 /\ r.px + 1 <= MaxX(t)
    BY <1>1, <1>2, <1>3, <1>4, StepInBox
  <1>6. r.py # MaxY(t) => r.py + 1 \in 0 .. H - 1 /\ MinY(t) <= r.py + 1 /\ r.py + 1 <= MaxY(t)
    BY <1>1, <1>2, <1>3, <1>4, StepInBox
  <1>7. \E a : /\ a = Advance(r)
               /\ \/ a = [r EXCEPT !.px = r.px + 1] /\ r.px # MaxX(t)
                  \/ a = [r EXCEPT !.px = MinX(t), !.st = "IDLE"]
                  \/ a = [r EXCEPT !.px = MinX(t), !.py = r.py + 1] /\ r.py # MaxY(t)
    BY DEF Advance
  <1> SUFFICES ASSUME NEW a,
                      \/ a = [r EXCEPT !.px = r.px + 1] /\ r.px # MaxX(t)
                      \/ a = [r EXCEPT !.px = MinX(t), !.st = "IDLE"]
                      \/ a = [r EXCEPT !.px = MinX(t), !.py = r.py + 1] /\ r.py # MaxY(t)
               PROVE  RasterOK(a) /\ a.st \in {"SCAN", "IDLE"}
    BY <1>7
  <1>8. CASE a = [r EXCEPT !.px = r.px + 1] /\ r.px # MaxX(t)
    <2>1. /\ a \in RasterRecords /\ a.tri = r.tri /\ a.frags = r.frags
          /\ a.px = r.px + 1 /\ a.py = r.py /\ a.st = "SCAN"
      BY <1>1, <1>5, <1>8 DEF RasterRecords
    <2>2. /\ a.px >= MinX(t) /\ a.px <= MaxX(t) /\ a.py >= MinY(t) /\ a.py <= MaxY(t)
      BY <1>1, <1>2, <1>3, <1>4, <1>5, <1>8, <2>1
    <2> QED
      BY <1>1, <1>3, <2>1, <2>2 DEF RasterOK
  <1>9. CASE a = [r EXCEPT !.px = MinX(t), !.st = "IDLE"]
    <2>1. a \in RasterRecords /\ a.frags = r.frags /\ a.st = "IDLE"
      BY <1>1, <1>2, <1>9 DEF RasterRecords
    <2> QED
      BY <1>3, <2>1 DEF RasterOK
  <1>10. CASE a = [r EXCEPT !.px = MinX(t), !.py = r.py + 1] /\ r.py # MaxY(t)
    <2>1. /\ a \in RasterRecords /\ a.tri = r.tri /\ a.frags = r.frags
          /\ a.px = MinX(t) /\ a.py = r.py + 1 /\ a.st = "SCAN"
      BY <1>1, <1>2, <1>6, <1>10 DEF RasterRecords
    <2>2. /\ a.px >= MinX(t) /\ a.px <= MaxX(t) /\ a.py >= MinY(t) /\ a.py <= MaxY(t)
      BY <1>1, <1>2, <1>3, <1>4, <1>6, <1>10, <2>1
    <2> QED
      BY <1>1, <1>3, <2>1, <2>2 DEF RasterOK
  <1> QED
    BY <1>8, <1>9, <1>10

\* The pixel under the scan does not decide where the scan goes, so it can be plotted first.
LEMMA ScanIs ==
  ASSUME NEW r \in RasterRecords, ~Culled(r.tri)
  PROVE  Scan(r) = Advance(Plot(r))
  <1> DEFINE f == Append(r.frags, Record(r))
             b == [r.fb EXCEPT ![Pidx(r)] =
                     Rop(r.fb[Pidx(r)], Depth(r.tri.t, Here(r)),
                         Colour(r.tri.t, Here(r)) % ColourSpace, r.tri.how)]
  <1>1. \/ Plot(r) = r
        \/ Plot(r) = [r EXCEPT !.frags = f]
        \/ Plot(r) = [r EXCEPT !.fb = b]
    BY DEF Plot
  <1> HIDE DEF f, b
  <1>2. Plot(r) = [r EXCEPT !.frags = Plot(r).frags, !.fb = Plot(r).fb]
    BY <1>1 DEF RasterRecords
  <1>3. ASSUME NEW x, NEW y
        PROVE  Advance([r EXCEPT !.frags = x, !.fb = y]) = [Advance(r) EXCEPT !.frags = x, !.fb = y]
    <2> DEFINE p == [r EXCEPT !.frags = x, !.fb = y]
    <2>1. /\ p.st = r.st /\ p.px = r.px /\ p.py = r.py /\ p.tri = r.tri
          /\ \A k : [p EXCEPT !.px = k] = [[r EXCEPT !.px = k] EXCEPT !.frags = x, !.fb = y]
          /\ \A k, l : [p EXCEPT !.px = k, !.st = l]
                       = [[r EXCEPT !.px = k, !.st = l] EXCEPT !.frags = x, !.fb = y]
          /\ \A k, l : [p EXCEPT !.px = k, !.py = l]
                       = [[r EXCEPT !.px = k, !.py = l] EXCEPT !.frags = x, !.fb = y]
      BY DEF RasterRecords
    <2> HIDE DEF p
    <2>2. Advance(p) = [Advance(r) EXCEPT !.frags = x, !.fb = y]
      BY <2>1 DEF Advance
    <2> QED
      BY <2>2 DEF p
  <1> QED
    BY <1>2, <1>3 DEF Scan

\* A clock of the scan: the pixel, and then the next one.
LEMMA ScanKeeps ==
  ASSUME NEW r, RasterOK(r), r.st = "SCAN"
  PROVE  RasterOK(Scan(r)) /\ Scan(r).st \in {"SCAN", "IDLE"}
  <1>1. CASE Culled(r.tri)
    BY <1>1 DEF Scan, RasterOK, RasterRecords
  <1>2. CASE ~Culled(r.tri)
    <2>1. RasterOK(Plot(r)) /\ Plot(r).st = "SCAN"
      BY <1>2, PlotKeeps
    <2>2. RasterOK(Advance(Plot(r))) /\ Advance(Plot(r)).st \in {"SCAN", "IDLE"}
      BY <2>1, AdvanceKeeps
    <2> QED
      BY <1>2, <2>2, ScanIs DEF RasterOK
  <1> QED
    BY <1>1, <1>2

\* What the output unit is handed.
Handover == [valid : {TRUE}, pidx : Pixels, z : Int, rgb : Colours, how : Settings]
Blended(r, f) ==
  [r EXCEPT !.fb = [r.fb EXCEPT ![f.pidx] = Rop(r.fb[f.pidx], f.z, f.rgb, f.how)]]

\* A blend, and the buffer emptied for a draw call.
LEMMA HandoverKeeps ==
  ASSUME NEW r, RasterOK(r), NEW f \in Handover
  PROVE  RasterOK(Blended(r, f))
  <1>1. /\ f.pidx \in Pixels /\ f.z \in Int /\ f.rgb \in Colours /\ f.how \in Settings
    BY DEF Handover
  <1>2. r \in RasterRecords /\ r.fb \in [Pixels -> Texel]
    BY DEF RasterOK, RasterRecords
  <1> DEFINE texel == Rop(r.fb[f.pidx], f.z, f.rgb, f.how)
  <1>3. texel \in Texel
    BY <1>1, <1>2, RopType
  <1> HIDE DEF texel
  <1>4. [r.fb EXCEPT ![f.pidx] = texel] \in [Pixels -> Texel]
    BY <1>1, <1>2, <1>3
  <1>5. Blended(r, f) = [r EXCEPT !.fb = [r.fb EXCEPT ![f.pidx] = texel]]
    BY DEF Blended, texel
  <1> QED
    BY <1>2, <1>4, <1>5 DEF RasterOK, RasterRecords

LEMMA ResetKeeps ==
  ASSUME NEW r, RasterOK(r)
  PROVE  RasterOK([r EXCEPT !.frags = << >>])
  <1>1. << >> \in Seq(Fragment) /\ Len(<< >>) = 0
    OBVIOUS
  <1> DEFINE s == [r EXCEPT !.frags = << >>]
  <1>2. /\ s \in RasterRecords /\ s.frags = << >> /\ s.st = r.st /\ s.tri = r.tri
        /\ s.px = r.px /\ s.py = r.py
    BY <1>1 DEF RasterOK, RasterRecords
  <1> HIDE DEF s
  <1>3. RasterOK(s)
    BY <1>1, <1>2, TargetAssumption DEF RasterOK
  <1> QED
    BY <1>3 DEF s

-----------------------------------------------------------------------------
\* The device's registers.
Heads == [pidx : Pixels, z : 0 .. ZSpace - 1]
Slots == [w0 : Heads, w1 : Int, w2 : Colours]
States == {"IDLE", "VS_GO", "VS_WAIT", "TRI_IDX", "TRI_VTX", "TRI_GO", "TRI_WAIT", "DMA",
           "FS_CB", "FS_GO", "FS_WAIT", "ROP_R0", "ROP_R2", "ROP_GO", "DONE"}
Thirds      == 0 .. 2
Sixths      == 0 .. 5
TriNumbers  == 0 .. MaxTris - 1
Indices     == [0 .. 2 -> 0 .. MaxVerts - 1]
Fetched     == [0 .. 2 -> VertexWords]
WordCounts  == 0 .. 3 * FragMax
Counts      == 0 .. FragMax
SeqRecords ==
  [state : States, q : Meshes, tri_i : TriNumbers, vsel : Thirds, wsel : Sixths, idx : Indices,
   vw : Fetched, dma_k : WordCounts, cb_k : Thirds, rop_k : Counts, rop_w0 : Heads]
Buffers ==
  [vout : [0 .. MaxVerts - 1 -> VertexWords], ibuf : [0 .. 3 * MaxTris - 1 -> 0 .. MaxVerts - 1],
   fbuf : [0 .. FragMax - 1 -> Slots]]
Parameters == {HostParam, FbufAddr, TexAddr} \cup 0 .. FragMax

Types ==
  /\ seq \in SeqRecords /\ mem \in Buffers /\ cbank \in [0 .. 2 -> Parameters]
  /\ clear_color \in Colours /\ draw_done \in BOOLEAN /\ RasterOK(ras)

\* What each state of the sequencer has sent.
NoneRuns == [st |-> "idle", done |-> FALSE]
HasEnded == [st |-> "idle", done |-> TRUE]
Runs(n, t, k) ==
  [st |-> "runs", done |-> FALSE, run |-> [valid |-> TRUE, grid |-> n, tpb |-> t, kernel |-> k]]

Launched(n, t, k) ==
  [Quiet EXCEPT !.launch = [valid |-> TRUE, grid |-> n, tpb |-> t, kernel |-> k]]
Reset == [Quiet EXCEPT !.fragRst = TRUE]
Given == [Quiet EXCEPT !.tri = TRUE]
Moved(k) ==
  [Quiet EXCEPT !.we = [valid |-> TRUE, rec |-> k \div 3, sel |-> k % 3,
                        word |-> RecordWord(ras.frags[k \div 3 + 1], k % 3)]]
Constant(k) == CASE k = 0 -> FbufAddr [] k = 1 -> Count [] k = 2 -> TexAddr
Told(k) == [Quiet EXCEPT !.cb = [valid |-> TRUE, addr |-> k, word |-> Constant(k)]]
Fin(k) ==
  [valid |-> TRUE, pidx |-> ras.frags[k + 1].pidx, z |-> ras.frags[k + 1].z,
   rgb |-> Shade(ras.frags[k + 1].uv, ras.frags[k + 1].rgb), how |-> seq.q.how]
Handed(k) == [Quiet EXCEPT !.fin = Fin(k)]

Outputs ==
  /\ seq.state = "VS_GO" => out = Reset
  /\ seq.state = "VS_WAIT" => out = Quiet \/ out = Launched(1, Len(seq.q.verts), "VS")
  /\ seq.state = "TRI_WAIT" => out = Quiet \/ out = Given
  /\ seq.state = "DMA" => IF seq.dma_k = 0 THEN out = Quiet ELSE out = Moved(seq.dma_k - 1)
  /\ seq.state = "FS_CB" => IF seq.cb_k = 0 THEN out = Quiet ELSE out = Told(seq.cb_k - 1)
  /\ seq.state = "FS_GO" => out = Told(2)
  /\ seq.state = "FS_WAIT" => out = Quiet \/ out = Launched(Blocks, BlockThreads, "FS")
  /\ seq.state = "ROP_GO" => out = Handed(seq.rop_k)
  /\ seq.state \in {"IDLE", "TRI_IDX", "TRI_VTX", "TRI_GO", "ROP_R0", "ROP_R2", "DONE"} => out = Quiet

\* A grid runs only while the sequencer waits for it.
GridRuns ==
  /\ seq.state = "VS_WAIT" =>
       IF out = Quiet THEN grid \in {HasEnded, Runs(1, Len(seq.q.verts), "VS")}
       ELSE grid = NoneRuns
  /\ seq.state = "FS_WAIT" =>
       IF out = Quiet THEN grid \in {HasEnded, Runs(Blocks, BlockThreads, "FS")}
       ELSE grid = NoneRuns
  /\ seq.state \notin {"VS_WAIT", "FS_WAIT"} => grid = NoneRuns

\* The rasterizer works for the host, or for the triangle the sequencer waits for.
RasterWorks ==
  /\ seq.state \notin {"IDLE", "TRI_WAIT"} => ras.st = "IDLE"
  /\ seq.state = "TRI_WAIT" => IF out = Quiet THEN ras.st # "CLEAR" ELSE ras.st = "IDLE"

\* The records of the fragment buffer, in memory and when shaded.
Raw(f)    == [w0 |-> [pidx |-> f.pidx, z |-> f.z], w1 |-> f.uv, w2 |-> f.rgb]
Toned(f)  == [w0 |-> [pidx |-> f.pidx, z |-> f.z], w1 |-> f.uv, w2 |-> Shade(f.uv, f.rgb)]
RawAll    == \A k \in 0 .. Count - 1 : mem.fbuf[k] = Raw(ras.frags[k + 1])
TonedAll  == \A k \in 0 .. Count - 1 : mem.fbuf[k] = Toned(ras.frags[k + 1])
Constants3 == cbank[0] = FbufAddr /\ cbank[1] = Count /\ cbank[2] = TexAddr

Records ==
  /\ seq.state = "DMA" =>
       /\ seq.dma_k <= 3 * Count
       /\ \A k \in 0 .. Count - 1 :
            /\ 3 * k + 1 < seq.dma_k => mem.fbuf[k].w0 = Raw(ras.frags[k + 1]).w0
            /\ 3 * k + 2 < seq.dma_k => mem.fbuf[k].w1 = Raw(ras.frags[k + 1]).w1
            /\ 3 * k + 3 < seq.dma_k => mem.fbuf[k].w2 = Raw(ras.frags[k + 1]).w2
  /\ seq.state \in {"FS_CB", "FS_GO"} => RawAll
  /\ seq.state = "FS_CB" => /\ seq.cb_k = 2 => cbank[0] = FbufAddr
  /\ seq.state = "FS_GO" => cbank[0] = FbufAddr /\ cbank[1] = Count
  /\ seq.state = "FS_WAIT" => Constants3 /\ IF grid = HasEnded THEN TonedAll ELSE RawAll
  /\ seq.state \in {"ROP_R0", "ROP_R2", "ROP_GO", "DONE"} => TonedAll /\ seq.rop_k <= Count
  /\ seq.state \in {"ROP_R2", "ROP_GO"} => seq.rop_k < Count
  /\ seq.state = "ROP_R2" => seq.rop_w0 = Raw(ras.frags[seq.rop_k + 1]).w0
  /\ seq.state = "DONE" => seq.rop_k = Count

GfxInv == Types /\ Outputs /\ GridRuns /\ RasterWorks /\ Records

\* What the output unit takes (gfx_seq's ROP states): the fragment under rop_k, shaded, and
\* no draw call ends before it has taken all of them.
HandedOver ==
  /\ out.fin.valid => seq.rop_k < Count /\ out.fin = Fin(seq.rop_k)
  /\ seq.state = "DONE" => seq.rop_k = Count

\* The sequencer's registers one by one.
LEMMA SeqFacts ==
  ASSUME Types
  PROVE  /\ seq \in SeqRecords /\ seq.q \in Meshes /\ seq.rop_w0 \in Heads
         /\ seq.state \in {"IDLE", "VS_GO", "VS_WAIT", "TRI_IDX", "TRI_VTX", "TRI_GO", "TRI_WAIT",
                          "DMA", "FS_CB", "FS_GO", "FS_WAIT", "ROP_R0", "ROP_R2", "ROP_GO", "DONE"}
         /\ seq.tri_i \in 0 .. MaxTris - 1 /\ seq.vsel \in 0 .. 2 /\ seq.wsel \in 0 .. 5
         /\ seq.idx \in [0 .. 2 -> 0 .. MaxVerts - 1] /\ seq.vw \in [0 .. 2 -> VertexWords]
         /\ seq.dma_k \in 0 .. 3 * FragMax /\ seq.cb_k \in 0 .. 2 /\ seq.rop_k \in 0 .. FragMax
  <1>1. seq \in SeqRecords
    BY DEF Types
  <1>2. /\ seq.q \in Meshes /\ seq.rop_w0 \in Heads /\ seq.state \in States
        /\ seq.tri_i \in TriNumbers /\ seq.vsel \in Thirds /\ seq.wsel \in Sixths
        /\ seq.idx \in Indices /\ seq.vw \in Fetched
        /\ seq.dma_k \in WordCounts /\ seq.cb_k \in Thirds /\ seq.rop_k \in Counts
    BY <1>1 DEF SeqRecords
  <1> QED
    BY <1>1, <1>2 DEF States, Thirds, Sixths, TriNumbers, Indices, Fetched, WordCounts, Counts

Silence == ~out.launch.valid /\ ~out.we.valid /\ ~out.cb.valid
ToRaster == out.fragRst \/ out.tri \/ out.fin.valid

\* What each value of the outputs says to the others.
LEMMA QuietSignals ==
  ASSUME out = Quiet
  PROVE  Silence /\ ~ToRaster
  BY DEF Quiet, Low, Silence, ToRaster

LEMMA ResetSignals ==
  ASSUME out = Reset
  PROVE  Silence /\ out.fragRst /\ ~out.tri /\ ~out.fin.valid
  BY DEF Quiet, Low, Reset, Silence

LEMMA GivenSignals ==
  ASSUME out = Given
  PROVE  Silence /\ ~out.fragRst /\ out.tri /\ ~out.fin.valid
  BY DEF Quiet, Low, Given, Silence

LEMMA LaunchedSignals ==
  ASSUME NEW n, NEW t, NEW k, out = Launched(n, t, k)
  PROVE  /\ ~ToRaster /\ ~out.we.valid /\ ~out.cb.valid /\ out.launch.valid
         /\ out.launch = [valid |-> TRUE, grid |-> n, tpb |-> t, kernel |-> k]
         /\ out # Quiet
  BY DEF Quiet, Low, Launched, ToRaster

LEMMA MovedSignals ==
  ASSUME NEW k, out = Moved(k)
  PROVE  /\ ~ToRaster /\ ~out.launch.valid /\ ~out.cb.valid /\ out.we.valid
         /\ out.we.rec = k \div 3 /\ out.we.sel = k % 3
         /\ out.we.word = RecordWord(ras.frags[k \div 3 + 1], k % 3)
  BY DEF Quiet, Low, Moved, ToRaster

LEMMA ToldSignals ==
  ASSUME NEW k, out = Told(k)
  PROVE  /\ ~ToRaster /\ ~out.launch.valid /\ ~out.we.valid /\ out.cb.valid
         /\ out.cb.addr = k /\ out.cb.word = Constant(k)
  BY DEF Quiet, Low, Told, ToRaster

LEMMA HandedSignals ==
  ASSUME NEW k, out = Handed(k)
  PROVE  Silence /\ ~out.fragRst /\ ~out.tri /\ out.fin = Fin(k) /\ out.fin.valid
  BY DEF Quiet, Low, Handed, Fin, Silence

\* A clock of the rasterizer while the sequencer works.
LEMMA RasterDuring ==
  ASSUME Types, Outputs, RasterWorks, seq.state # "IDLE", Rasterize(FALSE, Low)
  PROVE  /\ seq.state = "VS_GO" => ras' = [ras EXCEPT !.frags = << >>]
         /\ seq.state = "TRI_WAIT" => \/ out = Given /\ ras.st = "IDLE" /\ ras' = Submitted(ras, SeqTriangle)
                                      \/ out = Quiet /\ ras.st = "IDLE" /\ ras' = ras
                                      \/ out = Quiet /\ ras.st = "SCAN" /\ ras' = Scan(ras)
         /\ seq.state = "ROP_GO" => ras' = Blended(ras, Fin(seq.rop_k))
         /\ seq.state \notin {"VS_GO", "TRI_WAIT", "ROP_GO"} => ras' = ras
  <1>1. seq.state \in {"VS_GO", "VS_WAIT", "TRI_IDX", "TRI_VTX", "TRI_GO", "TRI_WAIT", "DMA",
                       "FS_CB", "FS_GO", "FS_WAIT", "ROP_R0", "ROP_R2", "ROP_GO", "DONE"}
    BY SeqFacts
  <1>2. CASE seq.state = "VS_GO"
    <2>1. out = Reset /\ ras.st = "IDLE"
      BY <1>2 DEF Outputs, RasterWorks
    <2>2. out.fragRst /\ ~out.tri /\ ~out.fin.valid
      BY <2>1, ResetSignals
    <2>3. ras' = [ras EXCEPT !.frags = << >>]
      BY <1>2, <2>1, <2>2 DEF Rasterize, RasterNext, Accept, Enter, Low
    <2> QED
      BY <1>2, <2>3
  <1>3. CASE seq.state = "TRI_WAIT"
    <2>1. CASE out = Given
      <3>1. ras.st = "IDLE"
        BY <1>3, <2>1, GivenSignals, QuietSignals DEF Outputs, RasterWorks, ToRaster
      <3>2. ras' = Submitted(ras, SeqTriangle)
        BY <1>3, <2>1, <3>1, GivenSignals DEF Rasterize, RasterNext, Accept, Enter, Submitted, SeqTriangle
      <3> QED
        BY <1>3, <2>1, <3>1, <3>2
    <2>2. CASE out = Quiet
      <3>1. ras.st \in {"IDLE", "SCAN"}
        BY <1>3, <2>2 DEF RasterWorks, Types, RasterOK, RasterRecords
      <3>2. ~out.fragRst /\ ~out.tri /\ ~out.fin.valid
        BY <2>2, QuietSignals DEF ToRaster
      <3>3. CASE ras.st = "IDLE"
        <4>1. ras' = ras
          BY <1>3, <3>2, <3>3 DEF Rasterize, RasterNext, Accept, Enter, Low
        <4> QED
          BY <1>3, <2>2, <3>3, <4>1
      <3>4. CASE ras.st = "SCAN"
        <4>1. ras' = Scan(ras)
          BY <1>3, <3>2, <3>4 DEF Rasterize, RasterNext, Enter
        <4> QED
          BY <1>3, <2>2, <3>4, <4>1
      <3> QED
        BY <3>1, <3>3, <3>4
    <2>3. out = Quiet \/ out = Given
      BY <1>3 DEF Outputs
    <2> QED
      BY <2>1, <2>2, <2>3
  <1>4. CASE seq.state = "ROP_GO"
    <2>1. out = Handed(seq.rop_k) /\ ras.st = "IDLE"
      BY <1>4 DEF Outputs, RasterWorks
    <2>2. ~out.fragRst /\ ~out.tri /\ out.fin.valid /\ out.fin = Fin(seq.rop_k)
      BY <2>1, HandedSignals
    <2>3. ras' = Blended(ras, Fin(seq.rop_k))
      <3>1. ras' = Blended(ras, out.fin)
        BY <1>4, <2>1, <2>2 DEF Rasterize, RasterNext, Accept, Enter, Low, Blended
      <3> QED
        BY <2>2, <3>1
    <2> QED
      BY <1>4, <2>3
  <1>5. CASE seq.state \notin {"VS_GO", "TRI_WAIT", "ROP_GO"}
    <2>1. ~ToRaster /\ ras.st = "IDLE"
      <3>1. ras.st = "IDLE"
        BY <1>5 DEF RasterWorks
      <3>2. \/ out = Quiet \/ out = Launched(1, Len(seq.q.verts), "VS")
            \/ out = Moved(seq.dma_k - 1) \/ out = Told(seq.cb_k - 1) \/ out = Told(2)
            \/ out = Launched(Blocks, BlockThreads, "FS")
        BY <1>1, <1>5 DEF Outputs
      <3> QED
        BY <3>1, <3>2, QuietSignals, LaunchedSignals, MovedSignals, ToldSignals
    <2>2. ~out.fragRst /\ ~out.tri /\ ~out.fin.valid
      BY <2>1 DEF ToRaster
    <2>3. ras' = ras
      BY <2>1, <2>2 DEF Rasterize, RasterNext, Accept, Enter, Low
    <2> QED
      BY <1>5, <2>3
  <1> QED
    BY <1>2, <1>3, <1>4, <1>5

\* The thread grid in wait.
LEMMA SubRuns ==
  ASSUME NEW n, NEW t, NEW k
  PROVE  /\ Runs(n, t, k).st = "runs" /\ Runs(n, t, k) # HasEnded /\ Runs(n, t, k) # NoneRuns
         /\ HasEnded # NoneRuns /\ NoneRuns.st = "idle" /\ HasEnded.st = "idle"
         /\ ~NoneRuns.done /\ HasEnded.done /\ ~Runs(n, t, k).done
         /\ Runs(n, t, k).run = [valid |-> TRUE, grid |-> n, tpb |-> t, kernel |-> k]
  BY DEF Runs, HasEnded, NoneRuns

\* A clock of the compute side while the sequencer works: the grid in wait starts, or
\* ends with its stores.
ComputeSteps(n, t, k) ==
  \/ out = Launched(n, t, k) /\ n # 0 /\ grid' = Runs(n, t, k) /\ mem' = mem
  \/ out = Launched(n, t, k) /\ n = 0 /\ grid' = HasEnded /\ mem' = mem
  \/ out = Quiet /\ grid = HasEnded /\ grid' = NoneRuns /\ mem' = mem
  \/ out = Quiet /\ grid = Runs(n, t, k) /\ grid' = grid /\ mem' = mem
  \/ out = Quiet /\ grid = Runs(n, t, k) /\ grid' = HasEnded /\ mem' = Stores(mem)

LEMMA ComputeWaits ==
  ASSUME NEW n, NEW t, NEW k, NEW ends \in BOOLEAN, Grid(ends), Memory(ends),
         out = Quiet \/ out = Launched(n, t, k),
         IF out = Quiet THEN grid \in {HasEnded, Runs(n, t, k)} ELSE grid = NoneRuns
  PROVE  ComputeSteps(n, t, k)
  <1>1. CASE out = Launched(n, t, k)
    <2>1. /\ out.launch.valid /\ ~out.we.valid /\ out # Quiet
          /\ out.launch = [valid |-> TRUE, grid |-> n, tpb |-> t, kernel |-> k]
      BY <1>1, LaunchedSignals
    <2>2. grid.st = "idle"
      BY <1>1, <2>1, SubRuns
    <2>3. mem' = mem
      BY <2>1, <2>2 DEF Memory
    <2>4. n # 0 => grid' = Runs(n, t, k)
      BY <2>1 DEF Grid, Runs
    <2>5. n = 0 => grid' = HasEnded
      BY <2>1 DEF Grid, NoGrid, HasEnded
    <2> QED
      BY <1>1, <2>3, <2>4, <2>5 DEF ComputeSteps
  <1>2. CASE out = Quiet
    <2>1. ~out.launch.valid /\ ~out.we.valid
      BY <1>2, QuietSignals DEF Silence
    <2>2. CASE grid = HasEnded
      <3>1. grid.st = "idle"
        BY <2>2, SubRuns
      <3>2. mem' = mem
        BY <2>1, <3>1 DEF Memory
      <3>3. grid' = NoneRuns
        BY <2>1, <3>1 DEF Grid, NoGrid, NoneRuns
      <3> QED
        BY <1>2, <2>2, <3>2, <3>3 DEF ComputeSteps
    <2>3. CASE grid = Runs(n, t, k)
      <3>0. Runs(n, t, k).st = "runs"
        BY DEF Runs
      <3>1. grid.st = "runs"
        BY <2>3, <3>0
      <3>2. CASE ends
        <4>1. mem' = Stores(mem)
          BY <2>1, <3>1, <3>2 DEF Memory
        <4>2. grid' = HasEnded
          BY <2>1, <3>1, <3>2 DEF Grid, NoGrid, HasEnded
        <4> QED
          BY <1>2, <2>3, <4>1, <4>2 DEF ComputeSteps
      <3>3. CASE ~ends
        <4>1. mem' = mem
          BY <2>1, <3>1, <3>3 DEF Memory
        <4>2. grid' = grid
          BY <2>1, <3>1, <3>3 DEF Grid
        <4> QED
          BY <1>2, <2>3, <4>1, <4>2 DEF ComputeSteps
      <3> QED
        BY <3>2, <3>3
    <2> QED
      BY <1>2, <2>2, <2>3
  <1> QED
    BY <1>1, <1>2

WrittenMem(m) ==
  [m EXCEPT !.fbuf = [m.fbuf EXCEPT ![out.we.rec] =
     [m.fbuf[out.we.rec] EXCEPT ![Words[out.we.sel + 1]] = out.we.word]]]

LEMMA ComputeDuring ==
  ASSUME Types, Outputs, GridRuns, seq.state # "IDLE",
         NEW ends \in BOOLEAN, Grid(ends), Memory(ends), Constants
  PROVE  /\ seq.state = "VS_WAIT" => ComputeSteps(1, Len(seq.q.verts), "VS")
         /\ seq.state = "FS_WAIT" => ComputeSteps(Blocks, BlockThreads, "FS")
         /\ seq.state \notin {"VS_WAIT", "FS_WAIT"} => grid' = NoneRuns
         /\ seq.state \notin {"VS_WAIT", "FS_WAIT", "DMA"} => mem' = mem
         /\ seq.state = "DMA" => mem' = IF seq.dma_k = 0 THEN mem ELSE WrittenMem(mem)
         /\ seq.state \notin {"FS_CB", "FS_GO"} => cbank' = cbank
         /\ seq.state = "FS_CB" =>
              cbank' = IF seq.cb_k = 0 THEN cbank
                       ELSE [cbank EXCEPT ![seq.cb_k - 1] = Constant(seq.cb_k - 1)]
         /\ seq.state = "FS_GO" => cbank' = [cbank EXCEPT ![2] = Constant(2)]
  <1>1. seq.state \in {"VS_GO", "VS_WAIT", "TRI_IDX", "TRI_VTX", "TRI_GO", "TRI_WAIT", "DMA",
                       "FS_CB", "FS_GO", "FS_WAIT", "ROP_R0", "ROP_R2", "ROP_GO", "DONE"}
    BY SeqFacts
  <1>2. seq.state = "VS_WAIT" => ComputeSteps(1, Len(seq.q.verts), "VS")
    BY ComputeWaits DEF Outputs, GridRuns
  <1>3. seq.state = "FS_WAIT" => ComputeSteps(Blocks, BlockThreads, "FS")
    BY ComputeWaits DEF Outputs, GridRuns
  <1>4. ASSUME seq.state \notin {"VS_WAIT", "FS_WAIT"} PROVE ~out.launch.valid /\ grid.st = "idle"
    <2>1. \/ out = Quiet \/ out = Reset \/ out = Given \/ out = Moved(seq.dma_k - 1)
          \/ out = Told(seq.cb_k - 1) \/ out = Told(2) \/ out = Handed(seq.rop_k)
      BY <1>1, <1>4 DEF Outputs
    <2>2. grid.st = "idle"
      BY <1>4, SubRuns DEF GridRuns
    <2> QED
      BY <2>1, <2>2, QuietSignals, ResetSignals, GivenSignals, MovedSignals, ToldSignals, HandedSignals
         DEF Silence
  <1>5. seq.state \notin {"VS_WAIT", "FS_WAIT"} => grid' = NoneRuns
    BY <1>4 DEF Grid, NoGrid, NoneRuns
  <1>6. ASSUME seq.state \notin {"VS_WAIT", "FS_WAIT", "DMA"} PROVE mem' = mem
    <2>1. \/ out = Quiet \/ out = Reset \/ out = Given
          \/ out = Told(seq.cb_k - 1) \/ out = Told(2) \/ out = Handed(seq.rop_k)
      BY <1>1, <1>6 DEF Outputs
    <2>2. ~out.we.valid
      BY <2>1, QuietSignals, ResetSignals, GivenSignals, ToldSignals, HandedSignals DEF Silence
    <2> QED
      BY <2>2, <1>4, <1>6 DEF Memory
  <1>7. ASSUME seq.state = "DMA" PROVE mem' = IF seq.dma_k = 0 THEN mem ELSE WrittenMem(mem)
    <2>1. CASE seq.dma_k = 0
      <3>1. ~out.we.valid
        BY <1>7, <2>1, QuietSignals DEF Outputs, Silence
      <3> QED
        BY <3>1, <2>1, <1>4, <1>7 DEF Memory
    <2>2. CASE seq.dma_k # 0
      <3>1. out.we.valid
        BY <1>7, <2>2, MovedSignals DEF Outputs
      <3> QED
        BY <3>1, <2>2 DEF Memory, WrittenMem
    <2> QED
      BY <2>1, <2>2
  <1>8. ASSUME seq.state \notin {"FS_CB", "FS_GO"} PROVE cbank' = cbank
    <2>1. \/ out = Quiet \/ out = Reset \/ out = Given \/ out = Moved(seq.dma_k - 1)
          \/ out = Launched(1, Len(seq.q.verts), "VS") \/ out = Launched(Blocks, BlockThreads, "FS")
          \/ out = Handed(seq.rop_k)
      BY <1>1, <1>8 DEF Outputs
    <2>2. ~out.cb.valid
      BY <2>1, QuietSignals, ResetSignals, GivenSignals, MovedSignals, LaunchedSignals, HandedSignals
         DEF Silence
    <2> QED
      BY <2>2 DEF Constants
  <1>9. ASSUME seq.state = "FS_CB"
        PROVE  cbank' = IF seq.cb_k = 0 THEN cbank
                        ELSE [cbank EXCEPT ![seq.cb_k - 1] = Constant(seq.cb_k - 1)]
    <2>1. CASE seq.cb_k = 0
      <3>1. ~out.cb.valid
        BY <1>9, <2>1, QuietSignals DEF Outputs, Silence
      <3> QED
        BY <3>1, <2>1 DEF Constants
    <2>2. CASE seq.cb_k # 0
      <3>1. out.cb.valid /\ out.cb.addr = seq.cb_k - 1 /\ out.cb.word = Constant(seq.cb_k - 1)
        BY <1>9, <2>2, ToldSignals DEF Outputs
      <3> QED
        BY <3>1, <2>2 DEF Constants
    <2> QED
      BY <2>1, <2>2
  <1>10. ASSUME seq.state = "FS_GO" PROVE cbank' = [cbank EXCEPT ![2] = Constant(2)]
    <2>1. out.cb.valid /\ out.cb.addr = 2 /\ out.cb.word = Constant(2)
      BY <1>10, ToldSignals DEF Outputs
    <2> QED
      BY <2>1 DEF Constants
  <1> QED
    BY <1>2, <1>3, <1>5, <1>6, <1>7, <1>8, <1>9, <1>10

\* A clock of a draw call, around the sequencer's own step.
During ==
  /\ clear_color' = clear_color /\ draw_done' \in BOOLEAN
  /\ seq.state = "VS_GO" => ras' = [ras EXCEPT !.frags = << >>]
  /\ seq.state = "TRI_WAIT" => \/ out = Given /\ ras.st = "IDLE" /\ ras' = Submitted(ras, SeqTriangle)
                               \/ out = Quiet /\ ras.st = "IDLE" /\ ras' = ras
                               \/ out = Quiet /\ ras.st = "SCAN" /\ ras' = Scan(ras)
  /\ seq.state = "ROP_GO" => ras' = Blended(ras, Fin(seq.rop_k))
  /\ seq.state \notin {"VS_GO", "TRI_WAIT", "ROP_GO"} => ras' = ras
  /\ seq.state = "VS_WAIT" => ComputeSteps(1, Len(seq.q.verts), "VS")
  /\ seq.state = "FS_WAIT" => ComputeSteps(Blocks, BlockThreads, "FS")
  /\ seq.state \notin {"VS_WAIT", "FS_WAIT"} => grid' = NoneRuns
  /\ seq.state \notin {"VS_WAIT", "FS_WAIT", "DMA"} => mem' = mem
  /\ seq.state = "DMA" => mem' = IF seq.dma_k = 0 THEN mem ELSE WrittenMem(mem)
  /\ seq.state \notin {"FS_CB", "FS_GO"} => cbank' = cbank
  /\ seq.state = "FS_CB" =>
       cbank' = IF seq.cb_k = 0 THEN cbank
                ELSE [cbank EXCEPT ![seq.cb_k - 1] = Constant(seq.cb_k - 1)]
  /\ seq.state = "FS_GO" => cbank' = [cbank EXCEPT ![2] = Constant(2)]

LEMMA DrawClock ==
  ASSUME GfxInv, NEW ends \in BOOLEAN, DrawRuns(ends)
  PROVE  During /\ Busy /\ seq.state # "IDLE"
  <1>1. Busy /\ seq.state # "IDLE"
    BY DEF DrawRuns, Busy, VsGo, VsWait, TriIdx, TriVtx, TriGo, TriWait, Dma, FsCb, FsGo, FsWait,
           RopR0, RopR2, RopGo, Done
  <1>2. /\ Rasterize(FALSE, Low) /\ Grid(ends) /\ Memory(ends) /\ Constants
        /\ draw_done' = (seq.state = "DONE") /\ clear_color' = clear_color
    BY DEF DrawRuns, Clock
  <1>3. Types /\ Outputs /\ GridRuns /\ RasterWorks
    BY DEF GfxInv
  <1> QED
    BY <1>1, <1>2, <1>3, RasterDuring, ComputeDuring DEF During

\* What the sequencer reads from a mesh and from the buffer has its type.
LEMMA MeshFacts ==
  ASSUME Types
  PROVE  /\ seq.q \in Meshes /\ seq.q.verts \in Seq(VertexWords) /\ seq.q.how \in Settings
         /\ seq.q.tris \in Seq([1 .. 3 -> 0 .. MaxVerts - 1]) /\ Len(seq.q.tris) <= MaxTris
  BY CommandsAssumption, SeqFacts

LEMMA RecordFacts ==
  ASSUME Types, NEW k \in 0 .. Count - 1
  PROVE  /\ ras.frags[k + 1] \in Fragment /\ Count \in Nat /\ Count <= FragMax
         /\ Raw(ras.frags[k + 1]) \in Slots
         /\ Shade(ras.frags[k + 1].uv, ras.frags[k + 1].rgb) \in Colours
  <1>1. ras.frags \in Seq(Fragment) /\ Count <= FragMax /\ Count \in Nat
    BY DEF Types, RasterOK, RasterRecords, Count
  <1>2. ras.frags[k + 1] \in Fragment
    BY <1>1 DEF Count
  <1> DEFINE f == ras.frags[k + 1]
  <1> HIDE DEF f
  <1>3. f \in Fragment
    BY <1>2 DEF f
  <1>4. f.pidx \in Pixels /\ f.z \in 0 .. ZSpace - 1 /\ f.uv \in Int /\ f.rgb \in Colours
    BY <1>3 DEF Fragment, Colours
  <1>5. Raw(f) \in Slots
    BY <1>4 DEF Raw, Slots, Heads
  <1>6. Shade(f.uv, f.rgb) \in Colours
    BY <1>4, TargetAssumption DEF Shade, Colours
  <1> QED
    BY <1>1, <1>3, <1>5, <1>6 DEF f

\* The rasterizer stays well formed, whatever the sequencer has sent.
LEMMA RasterTyped ==
  ASSUME Types, Records, During, seq.state # "IDLE"
  PROVE  RasterOK(ras')
  <1>0. RasterOK(ras)
    BY DEF Types
  <1>1. CASE seq.state = "VS_GO"
    BY <1>0, <1>1, ResetKeeps DEF During
  <1>2. CASE seq.state = "TRI_WAIT"
    <2>1. SeqTriangle \in Submission
      <3>1. [i \in 1 .. 3 |-> seq.vw[i - 1]] \in [1 .. 3 -> VertexWords]
        BY SeqFacts
      <3> QED
        BY <3>1, MeshFacts DEF SeqTriangle, Submission
    <2> QED
      BY <1>0, <1>2, <2>1, SubmitStarts, ScanKeeps DEF During
  <1>3. CASE seq.state = "ROP_GO"
    <2>1. seq.rop_k \in 0 .. Count - 1
      BY <1>3, SeqFacts DEF Records, Types, RasterOK, RasterRecords, Count
    <2>2. /\ ras.frags[seq.rop_k + 1] \in Fragment
          /\ Shade(ras.frags[seq.rop_k + 1].uv, ras.frags[seq.rop_k + 1].rgb) \in Colours
      BY <2>1, RecordFacts
    <2>3. ras.frags[seq.rop_k + 1].pidx \in Pixels /\ ras.frags[seq.rop_k + 1].z \in Int
      BY <2>2, TargetAssumption DEF Fragment
    <2>4. Fin(seq.rop_k) \in Handover
      BY <2>2, <2>3, MeshFacts DEF Fin, Handover
    <2> QED
      BY <1>0, <1>3, <2>4, HandoverKeeps DEF During
  <1>4. CASE seq.state \notin {"VS_GO", "TRI_WAIT", "ROP_GO"}
    BY <1>0, <1>4 DEF During
  <1> QED
    BY <1>1, <1>2, <1>3, <1>4

\* A word of a record moved to memory.
LEMMA WordMoved ==
  ASSUME Types, Outputs, Records, seq.state = "DMA", seq.dma_k # 0
  PROVE  \E r \in 0 .. Count - 1, s \in 0 .. 2 :
           /\ seq.dma_k - 1 = 3 * r + s /\ out.we.rec = r
           /\ \/ s = 0 /\ WrittenMem(mem) = [mem EXCEPT !.fbuf[r].w0 = Raw(ras.frags[r + 1]).w0]
              \/ s = 1 /\ WrittenMem(mem) = [mem EXCEPT !.fbuf[r].w1 = Raw(ras.frags[r + 1]).w1]
              \/ s = 2 /\ WrittenMem(mem) = [mem EXCEPT !.fbuf[r].w2 = Raw(ras.frags[r + 1]).w2]
  <1> DEFINE k == seq.dma_k - 1
             r == k \div 3
             s == k % 3
  <1>1. k \in Nat /\ k + 1 <= 3 * Count /\ Count \in Nat
    <2>1. seq.dma_k \in 0 .. 3 * FragMax
      BY SeqFacts
    <2>2. k \in Nat
      BY <2>1, TargetAssumption
    <2>3. Count \in Nat
      BY DEF Types, RasterOK, RasterRecords, Count
    <2>4. seq.dma_k <= 3 * Count
      BY DEF Records
    <2> QED
      BY <2>1, <2>2, <2>3, <2>4, TargetAssumption
  <1>2. out.we.rec = r /\ out.we.sel = s /\ out.we.word = RecordWord(ras.frags[r + 1], s)
    BY MovedSignals DEF Outputs
  <1>3. \A i \in Nat : \A n \in Nat : i + 1 <= 3 * n =>
          i \div 3 \in 0 .. n - 1 /\ i % 3 \in 0 .. 2 /\ i = 3 * (i \div 3) + (i % 3)
    OBVIOUS
  <1>4. r \in 0 .. Count - 1 /\ s \in 0 .. 2 /\ k = 3 * r + s
    BY <1>1, <1>3
  <1>5. /\ s = 0 => WrittenMem(mem) = [mem EXCEPT !.fbuf[r].w0 = Raw(ras.frags[r + 1]).w0]
        /\ s = 1 => WrittenMem(mem) = [mem EXCEPT !.fbuf[r].w1 = Raw(ras.frags[r + 1]).w1]
        /\ s = 2 => WrittenMem(mem) = [mem EXCEPT !.fbuf[r].w2 = Raw(ras.frags[r + 1]).w2]
    <2> HIDE DEF r, s
    <2> QED
      BY <1>2 DEF WrittenMem, Words, RecordWord, Raw
  <1> HIDE DEF r, s
  <1> QED
    BY <1>2, <1>4, <1>5

\* What the kernels leave: the vertex shader its vertices, and the fragment shader, which
\* has a thread for each record of the buffer, every record shaded.
LEMMA VertexStores ==
  ASSUME Types, grid = Runs(1, Len(seq.q.verts), "VS")
  PROVE  Stores(mem) \in Buffers /\ Stores(mem).fbuf = mem.fbuf
  <1> DEFINE n == Len(seq.q.verts)
  <1>1. /\ grid.run.grid = 1 /\ grid.run.tpb = n /\ grid.run.kernel = "VS"
    BY DEF Runs
  <1>2. n \in Nat /\ seq.q.verts \in Seq(VertexWords) /\ 1 * n = n
    BY MeshFacts
  <1>3. mem \in Buffers /\ mem.vout \in [0 .. MaxVerts - 1 -> VertexWords]
    BY DEF Types, Buffers
  <1> DEFINE v2 == [v \in DOMAIN mem.vout |-> IF v < n THEN seq.q.verts[v + 1] ELSE mem.vout[v]]
  <1>4. Stores(mem) = [mem EXCEPT !.vout = v2]
    BY <1>1, <1>2 DEF Stores
  <1>5. v2 \in [0 .. MaxVerts - 1 -> VertexWords]
    <2>1. ASSUME NEW v \in 0 .. MaxVerts - 1, v < n PROVE seq.q.verts[v + 1] \in VertexWords
      <3>1. v + 1 \in 1 .. n
        BY <1>2, <2>1, DeviceAssumption
      <3> QED
        BY <1>2, <3>1
    <2> HIDE DEF n
    <2> QED
      BY <1>3, <2>1
  <1> HIDE DEF v2
  <1> QED
    BY <1>3, <1>4, <1>5 DEF Buffers

\* The blocks of the fragment shader have a thread for every fragment.
LEMMA ThreadsEnough ==
  ASSUME Types
  PROVE  /\ Blocks \in Nat /\ Count <= Blocks * BlockThreads
         /\ Blocks = 0 => Count = 0
  <1> DEFINE b == BlockThreads
             n == Count + b - 1
  <1>1. Count \in Nat /\ b \in Nat \ {0} /\ n \in Nat
    BY DeviceAssumption DEF Types, RasterOK, RasterRecords, Count
  <1> HIDE DEF b
  <1>2. /\ n \div b \in Nat /\ n % b \in 0 .. b - 1
        /\ n = b * (n \div b) + (n % b)
    BY <1>1
  <1>3. (n \div b) * b = b * (n \div b) /\ (n \div b) * b \in Nat
    BY <1>1, <1>2
  <1> DEFINE m == (n \div b) * b
  <1>4. n = m + (n % b) /\ m \in Nat
    BY <1>2, <1>3
  <1>5. n = Count + b - 1
    OBVIOUS
  <1> HIDE DEF m, n
  <1>6. Count <= m
    BY <1>1, <1>2, <1>4, <1>5
  <1>7. ASSUME n \div b = 0 PROVE Count = 0
    <2>1. m = 0
      BY <1>1, <1>7 DEF m
    <2> QED
      BY <1>1, <1>6, <2>1
  <1> QED
    BY <1>2, <1>6, <1>7 DEF Blocks, b, m, n

LEMMA FragmentStores ==
  ASSUME Types, Constants3, RawAll, grid = Runs(Blocks, BlockThreads, "FS")
  PROVE  /\ Stores(mem) \in Buffers
         /\ \A k \in 0 .. Count - 1 : Stores(mem).fbuf[k] = Toned(ras.frags[k + 1])
  <1> DEFINE n == Blocks * BlockThreads
  <1>1. /\ grid.run.grid = Blocks /\ grid.run.tpb = BlockThreads /\ grid.run.kernel = "FS"
    BY DEF Runs
  <1>2. n \in Nat /\ Count <= n /\ Count \in Nat /\ Count <= FragMax
    BY ThreadsEnough, DeviceAssumption DEF Types, RasterOK, RasterRecords, Count
  <1>3. mem \in Buffers /\ mem.fbuf \in [0 .. FragMax - 1 -> Slots]
    BY DEF Types, Buffers
  <1> DEFINE f2 == [k \in DOMAIN mem.fbuf |->
                      IF k \in {i \in DOMAIN mem.fbuf : i < cbank[1] /\ i < n}
                      THEN [mem.fbuf[k] EXCEPT !.w2 = Shade(mem.fbuf[k].w1, mem.fbuf[k].w2)]
                      ELSE mem.fbuf[k]]
  <1>4. Stores(mem) = [mem EXCEPT !.fbuf = f2]
    BY <1>1 DEF Stores, Constants3
  <1> HIDE DEF n
  <1>5. ASSUME NEW k \in 0 .. FragMax - 1
        PROVE  f2[k] = IF k < Count THEN [mem.fbuf[k] EXCEPT !.w2 = Shade(mem.fbuf[k].w1, mem.fbuf[k].w2)]
                       ELSE mem.fbuf[k]
    BY <1>2, <1>3, TargetAssumption DEF Constants3
  <1>6. DOMAIN f2 = 0 .. FragMax - 1 /\ f2 = [k \in 0 .. FragMax - 1 |-> f2[k]]
    BY <1>3
  <1> HIDE DEF f2
  <1>7. ASSUME NEW k \in 0 .. Count - 1
        PROVE  f2[k] = Toned(ras.frags[k + 1]) /\ f2[k] \in Slots
    <2>1. k \in 0 .. FragMax - 1 /\ k < Count
      BY <1>2, TargetAssumption
    <2>2. mem.fbuf[k] = Raw(ras.frags[k + 1])
      BY DEF RawAll
    <2>3. /\ Raw(ras.frags[k + 1]) \in Slots
          /\ Shade(ras.frags[k + 1].uv, ras.frags[k + 1].rgb) \in Colours
      BY RecordFacts
    <2>4. f2[k] = Toned(ras.frags[k + 1])
      BY <1>5, <2>1, <2>2 DEF Raw, Toned
    <2>5. Toned(ras.frags[k + 1]) \in Slots
      BY <2>3 DEF Raw, Toned, Slots
    <2> QED
      BY <2>4, <2>5
  <1>8. ASSUME NEW k \in 0 .. FragMax - 1 PROVE f2[k] \in Slots
    <2>1. CASE k < Count
      BY <1>2, <1>7, <2>1, TargetAssumption
    <2>2. CASE ~(k < Count)
      BY <1>3, <1>5, <2>2
    <2> QED
      BY <2>1, <2>2
  <1>9. f2 \in [0 .. FragMax - 1 -> Slots]
    BY <1>6, <1>8
  <1>10. Stores(mem) \in Buffers /\ Stores(mem).fbuf = f2
    BY <1>3, <1>4, <1>9 DEF Buffers
  <1> QED
    BY <1>7, <1>10

\* Memory and the constants keep their types.
LEMMA SlotWords ==
  ASSUME NEW m \in Buffers, NEW r \in 0 .. FragMax - 1, NEW w \in Slots
  PROVE  /\ [m EXCEPT !.fbuf[r].w0 = w.w0] \in Buffers
         /\ [m EXCEPT !.fbuf[r].w1 = w.w1] \in Buffers
         /\ [m EXCEPT !.fbuf[r].w2 = w.w2] \in Buffers
  <1>1. m.fbuf \in [0 .. FragMax - 1 -> Slots] /\ m.fbuf[r] \in Slots
    BY DEF Buffers
  <1>2. /\ [m.fbuf[r] EXCEPT !.w0 = w.w0] \in Slots /\ [m.fbuf[r] EXCEPT !.w1 = w.w1] \in Slots
        /\ [m.fbuf[r] EXCEPT !.w2 = w.w2] \in Slots
    BY <1>1 DEF Slots
  <1>3. \A x \in Slots : [m.fbuf EXCEPT ![r] = x] \in [0 .. FragMax - 1 -> Slots]
    BY <1>1
  <1>4. \A f \in [0 .. FragMax - 1 -> Slots] : [m EXCEPT !.fbuf = f] \in Buffers
    BY DEF Buffers
  <1>5. /\ [m EXCEPT !.fbuf[r].w0 = w.w0]
           = [m EXCEPT !.fbuf = [m.fbuf EXCEPT ![r] = [m.fbuf[r] EXCEPT !.w0 = w.w0]]]
        /\ [m EXCEPT !.fbuf[r].w1 = w.w1]
           = [m EXCEPT !.fbuf = [m.fbuf EXCEPT ![r] = [m.fbuf[r] EXCEPT !.w1 = w.w1]]]
        /\ [m EXCEPT !.fbuf[r].w2 = w.w2]
           = [m EXCEPT !.fbuf = [m.fbuf EXCEPT ![r] = [m.fbuf[r] EXCEPT !.w2 = w.w2]]]
    OBVIOUS
  <1> QED
    BY <1>2, <1>3, <1>4, <1>5

LEMMA MemoryTyped ==
  ASSUME Types, Outputs, Records, During, seq.state # "IDLE"
  PROVE  mem' \in Buffers
  <1>0. mem \in Buffers
    BY DEF Types
  <1>1. CASE seq.state = "VS_WAIT"
    BY <1>0, <1>1, VertexStores DEF During, ComputeSteps
  <1>2. CASE seq.state = "FS_WAIT"
    <2>1. grid = Runs(Blocks, BlockThreads, "FS") => Constants3 /\ RawAll
      <3>1. Runs(Blocks, BlockThreads, "FS") # HasEnded
        BY DEF Runs, HasEnded
      <3> QED
        BY <1>2, <3>1 DEF Records
    <2> QED
      BY <1>0, <1>2, <2>1, FragmentStores DEF During, ComputeSteps
  <1>3. CASE seq.state = "DMA"
    <2>1. CASE seq.dma_k = 0
      BY <1>0, <1>3, <2>1 DEF During
    <2>2. CASE seq.dma_k # 0
      <3>1. mem' = WrittenMem(mem)
        BY <1>3, <2>2 DEF During
      <3>2. PICK r \in 0 .. Count - 1, s \in 0 .. 2 :
              \/ s = 0 /\ WrittenMem(mem) = [mem EXCEPT !.fbuf[r].w0 = Raw(ras.frags[r + 1]).w0]
              \/ s = 1 /\ WrittenMem(mem) = [mem EXCEPT !.fbuf[r].w1 = Raw(ras.frags[r + 1]).w1]
              \/ s = 2 /\ WrittenMem(mem) = [mem EXCEPT !.fbuf[r].w2 = Raw(ras.frags[r + 1]).w2]
        BY <1>3, <2>2, WordMoved
      <3>3. Raw(ras.frags[r + 1]) \in Slots /\ Count \in Nat /\ Count <= FragMax
        BY RecordFacts
      <3>4. r \in 0 .. FragMax - 1
        BY <3>3, TargetAssumption
      <3> DEFINE w == Raw(ras.frags[r + 1])
      <3>5. w \in Slots
        BY <3>3
      <3> HIDE DEF w
      <3>6. /\ [mem EXCEPT !.fbuf[r].w0 = w.w0] \in Buffers
            /\ [mem EXCEPT !.fbuf[r].w1 = w.w1] \in Buffers
            /\ [mem EXCEPT !.fbuf[r].w2 = w.w2] \in Buffers
        BY <1>0, <3>4, <3>5, SlotWords
      <3> QED
        BY <3>1, <3>2, <3>6, Zenon DEF w
    <2> QED
      BY <2>1, <2>2
  <1>4. CASE seq.state \notin {"VS_WAIT", "FS_WAIT", "DMA"}
    BY <1>0, <1>4 DEF During
  <1> QED
    BY <1>1, <1>2, <1>3, <1>4

LEMMA ConstantsTyped ==
  ASSUME Types, During, seq.state # "IDLE"
  PROVE  cbank' \in [0 .. 2 -> Parameters]
  <1>1. Count \in 0 .. FragMax /\ cbank \in [0 .. 2 -> Parameters] /\ seq.cb_k \in 0 .. 2
    BY TargetAssumption, SeqFacts DEF Types, RasterOK, RasterRecords, Count
  <1>2. \A k \in 0 .. 2 : Constant(k) \in Parameters
    BY <1>1 DEF Constant, Parameters
  <1> QED
    BY <1>1, <1>2 DEF During

\* The values a state begins with, and the types of a step.
LEMMA Zeros ==
  /\ 0 \in Thirds /\ 0 \in Sixths /\ 0 \in TriNumbers /\ 0 \in WordCounts /\ 0 \in Counts
  /\ States = {"IDLE", "VS_GO", "VS_WAIT", "TRI_IDX", "TRI_VTX", "TRI_GO", "TRI_WAIT", "DMA",
               "FS_CB", "FS_GO", "FS_WAIT", "ROP_R0", "ROP_R2", "ROP_GO", "DONE"}
  BY DeviceAssumption, TargetAssumption
     DEF States, Thirds, Sixths, TriNumbers, Indices, Fetched, WordCounts, Counts

LEMMA TypesKept ==
  ASSUME GfxInv, During, seq.state # "IDLE", seq' \in SeqRecords
  PROVE  Types'
  BY RasterTyped, MemoryTyped, ConstantsTyped DEF GfxInv, Types, During

\* The states in which the sequencer works alone.
LEMMA Alone ==
  ASSUME seq.state' \in {"TRI_IDX", "TRI_VTX", "TRI_GO"}, Silent, grid' = NoneRuns, ras.st' = "IDLE"
  PROVE  (Outputs /\ GridRuns /\ RasterWorks /\ Records)'
  BY DEF Silent, Outputs, GridRuns, RasterWorks, Records

\* One lemma for each state of the sequencer: its step keeps the invariant.
LEMMA VsGoKeeps ==
  ASSUME GfxInv, During, VsGo
  PROVE  GfxInv'
  <1>1. /\ seq.state = "VS_GO" /\ seq' = [seq EXCEPT !.state = "VS_WAIT"] /\ seq \in SeqRecords
        /\ out' = Launched(1, Len(seq.q.verts), "VS")
    BY DEF VsGo, Goto, Launch, Launched, GfxInv, Types
  <1>2. /\ seq' \in SeqRecords /\ seq'.state = "VS_WAIT" /\ seq'.q = seq.q
    BY <1>1, Zeros DEF SeqRecords
  <1>3. out' # Quiet
    BY <1>1 DEF Launched, Quiet, Low
  <1>4. ras'.st = "IDLE" /\ grid' = NoneRuns
    BY <1>1 DEF During, GfxInv, RasterWorks, Types, RasterOK, RasterRecords
  <1>5. (Outputs /\ GridRuns /\ RasterWorks /\ Records)'
    BY <1>1, <1>2, <1>3, <1>4 DEF Outputs, GridRuns, RasterWorks, Records, Launched
  <1> QED
    BY <1>1, <1>2, <1>5, TypesKept DEF GfxInv

LEMMA VsWaitKeeps ==
  ASSUME GfxInv, During, VsWait
  PROVE  GfxInv'
  <1>1. seq.state = "VS_WAIT" /\ out' = Quiet /\ seq \in SeqRecords /\ ras.st = "IDLE" /\ ras' = ras
    BY DEF VsWait, Silent, GfxInv, Types, RasterWorks, During
  <1>2. CASE grid = HasEnded
    <2>1. grid.done
      BY <1>2 DEF HasEnded
    <2>2. seq' = [seq EXCEPT !.tri_i = 0, !.vsel = 0, !.state = "TRI_IDX"]
      BY <2>1 DEF VsWait
    <2>3. seq' \in SeqRecords /\ seq'.state = "TRI_IDX"
      BY <1>1, <2>2, Zeros DEF SeqRecords
    <2>4. grid' = NoneRuns
      <3>1. grid # Runs(1, Len(seq.q.verts), "VS")
        BY <1>2 DEF Runs, HasEnded
      <3>2. ~(out = Launched(1, Len(seq.q.verts), "VS"))
        <4>1. grid # NoneRuns
          BY <1>2 DEF NoneRuns, HasEnded
        <4>2. out = Launched(1, Len(seq.q.verts), "VS") => out # Quiet
          BY DEF Launched, Quiet, Low
        <4> QED
          BY <1>1, <4>1, <4>2 DEF GfxInv, GridRuns
      <3> QED
        BY <1>1, <3>1, <3>2 DEF During, ComputeSteps
    <2>5. (Outputs /\ GridRuns /\ RasterWorks /\ Records)'
      BY <1>1, <2>3, <2>4, Alone DEF Silent
    <2> QED
      BY <1>1, <2>3, <2>5, TypesKept DEF GfxInv
  <1>3. CASE grid # HasEnded
    <2>1. ~grid.done
      <3>1. grid = NoneRuns \/ grid = Runs(1, Len(seq.q.verts), "VS")
        BY <1>1, <1>3 DEF GfxInv, GridRuns
      <3> QED
        BY <3>1 DEF NoneRuns, Runs
    <2>2. seq' = seq
      BY <2>1 DEF VsWait
    <2>3. grid' = HasEnded \/ grid' = Runs(1, Len(seq.q.verts), "VS")
      BY <1>1, <1>3 DEF During, ComputeSteps
    <2>4. (Outputs /\ GridRuns /\ RasterWorks /\ Records)'
      BY <1>1, <2>2, <2>3 DEF Outputs, GridRuns, RasterWorks, Records
    <2> QED
      BY <1>1, <2>2, <2>4, TypesKept DEF GfxInv
  <1> QED
    BY <1>2, <1>3

LEMMA TriIdxKeeps ==
  ASSUME GfxInv, During, TriIdx
  PROVE  GfxInv'
  <1>1. /\ seq.state = "TRI_IDX" /\ Silent /\ seq \in SeqRecords /\ ras.st = "IDLE" /\ ras' = ras
        /\ grid' = NoneRuns /\ mem \in Buffers
    BY DEF TriIdx, GfxInv, Types, RasterWorks, During
  <1> DEFINE i == mem.ibuf[seq.tri_i * 3 + seq.vsel]
             idx2 == [seq.idx EXCEPT ![seq.vsel] = i]
  <1>2. i \in 0 .. MaxVerts - 1
    <2>1. seq.tri_i * 3 + seq.vsel \in 0 .. 3 * MaxTris - 1
      BY <1>1, SeqFacts, DeviceAssumption DEF GfxInv
    <2> QED
      BY <1>1, <2>1 DEF Buffers
  <1>3. \/ seq' = [seq EXCEPT !.idx = idx2, !.vsel = 0, !.wsel = 0, !.state = "TRI_VTX"]
        \/ seq.vsel # 2 /\ seq' = [seq EXCEPT !.idx = idx2, !.vsel = seq.vsel + 1]
    BY DEF TriIdx
  <1> HIDE DEF i
  <1>4. idx2 \in Indices /\ (seq.vsel # 2 => seq.vsel + 1 \in Thirds)
    BY <1>1, <1>2, SeqFacts DEF GfxInv, Indices, Thirds
  <1> HIDE DEF idx2
  <1>5. seq' \in SeqRecords /\ seq'.state \in {"TRI_IDX", "TRI_VTX"}
    BY <1>1, <1>3, <1>4, Zeros DEF SeqRecords
  <1>6. (Outputs /\ GridRuns /\ RasterWorks /\ Records)'
    BY <1>1, <1>5, Alone
  <1> QED
    BY <1>1, <1>5, <1>6, TypesKept DEF GfxInv

LEMMA TriVtxKeeps ==
  ASSUME GfxInv, During, TriVtx
  PROVE  GfxInv'
  <1>1. /\ seq.state = "TRI_VTX" /\ Silent /\ seq \in SeqRecords /\ ras.st = "IDLE" /\ ras' = ras
        /\ grid' = NoneRuns /\ mem \in Buffers
    BY DEF TriVtx, GfxInv, Types, RasterWorks, During
  <1> DEFINE f == Fields[seq.wsel + 1]
             word == mem.vout[seq.idx[seq.vsel]][f]
             vertex == [seq.vw[seq.vsel] EXCEPT ![f] = word]
             vw2 == [seq.vw EXCEPT ![seq.vsel] = vertex]
  <1>2. word \in Int
    <2>1. seq.idx[seq.vsel] \in 0 .. MaxVerts - 1 /\ seq.wsel + 1 \in 1 .. 6
      BY <1>1, SeqFacts DEF GfxInv
    <2>2. mem.vout[seq.idx[seq.vsel]] \in VertexWords
      BY <1>1, <2>1 DEF Buffers
    <2> QED
      BY <2>1, <2>2 DEF VertexWords
  <1>3. \/ seq.wsel < 5 /\ seq' = [seq EXCEPT !.vw = vw2, !.wsel = seq.wsel + 1]
        \/ seq.vsel < 2 /\ seq' = [seq EXCEPT !.vw = vw2, !.wsel = 0, !.vsel = seq.vsel + 1]
        \/ seq' = [seq EXCEPT !.vw = vw2, !.wsel = 0, !.state = "TRI_GO"]
    BY DEF TriVtx
  <1> HIDE DEF word
  <1>4. vertex \in VertexWords
    <2>1. seq.vw[seq.vsel] \in VertexWords
      BY <1>1, SeqFacts DEF GfxInv
    <2> HIDE DEF f
    <2> QED
      BY <1>2, <2>1 DEF VertexWords
  <1> HIDE DEF vertex
  <1>5. /\ vw2 \in Fetched /\ (seq.wsel < 5 => seq.wsel + 1 \in Sixths)
        /\ (seq.vsel < 2 => seq.vsel + 1 \in Thirds)
    BY <1>1, <1>4, SeqFacts DEF GfxInv, Fetched, Thirds, Sixths
  <1> HIDE DEF vw2
  <1>6. seq' \in SeqRecords /\ seq'.state \in {"TRI_VTX", "TRI_GO"}
    BY <1>1, <1>3, <1>5, Zeros DEF SeqRecords
  <1>7. (Outputs /\ GridRuns /\ RasterWorks /\ Records)'
    BY <1>1, <1>6, Alone
  <1> QED
    BY <1>1, <1>6, <1>7, TypesKept DEF GfxInv

LEMMA TriGoKeeps ==
  ASSUME GfxInv, During, TriGo
  PROVE  GfxInv'
  <1>1. /\ seq.state = "TRI_GO" /\ seq \in SeqRecords /\ ras.st = "IDLE" /\ ras' = ras
        /\ grid' = NoneRuns /\ out' = Given /\ seq' = [seq EXCEPT !.state = "TRI_WAIT"]
    BY DEF TriGo, Goto, Pulse, Given, GfxInv, Types, RasterWorks, During
  <1>2. seq' \in SeqRecords /\ seq'.state = "TRI_WAIT"
    BY <1>1, Zeros DEF SeqRecords
  <1>3. (Outputs /\ GridRuns /\ RasterWorks /\ Records)'
    BY <1>1, <1>2 DEF Outputs, GridRuns, RasterWorks, Records, Given
  <1> QED
    BY <1>1, <1>2, <1>3, TypesKept DEF GfxInv

LEMMA TriWaitKeeps ==
  ASSUME GfxInv, During, TriWait
  PROVE  GfxInv'
  <1>1. /\ seq.state = "TRI_WAIT" /\ seq \in SeqRecords /\ grid' = NoneRuns /\ out' = Quiet
        /\ RasterOK(ras)
    BY DEF TriWait, Silent, GfxInv, Types, During
  <1>2. CASE RasterFree
    <2>1. out = Quiet /\ ras.st = "IDLE" /\ ras' = ras
      BY <1>1, <1>2, GivenSignals DEF During, RasterFree
    <2>2. CASE seq.tri_i + 1 >= Len(seq.q.tris)
      <3>1. seq' = [seq EXCEPT !.dma_k = 0, !.state = "DMA"]
        BY <1>2, <2>2 DEF TriWait
      <3>2. seq' \in SeqRecords /\ seq'.state = "DMA" /\ seq'.dma_k = 0
        BY <1>1, <3>1, Zeros DEF SeqRecords
      <3>3. Count' \in Nat
        BY <2>1, <1>1 DEF Count, RasterOK, RasterRecords
      <3>4. Records'
        <4>1. \A k \in 0 .. Count' - 1 : ~(3 * k + 1 < 0) /\ ~(3 * k + 2 < 0) /\ ~(3 * k + 3 < 0)
          BY <3>3
        <4>2. 0 <= 3 * Count'
          <5>1. \A n \in Nat : 0 <= 3 * n
            OBVIOUS
          <5> QED
            BY <3>3, <5>1
        <4> QED
          BY <3>2, <4>1, <4>2 DEF Records
      <3>5. (Outputs /\ GridRuns /\ RasterWorks)'
        BY <1>1, <2>1, <3>2 DEF Outputs, GridRuns, RasterWorks
      <3> QED
        BY <1>1, <3>2, <3>4, <3>5, TypesKept DEF GfxInv
    <2>3. CASE ~(seq.tri_i + 1 >= Len(seq.q.tris))
      <3>1. seq' = [seq EXCEPT !.tri_i = seq.tri_i + 1, !.vsel = 0, !.state = "TRI_IDX"]
        BY <1>2, <2>3 DEF TriWait
      <3>2. seq.tri_i + 1 \in TriNumbers
        <4>1. Len(seq.q.tris) <= MaxTris /\ Len(seq.q.tris) \in Nat
          BY MeshFacts DEF GfxInv
        <4> QED
          <5>1. seq.tri_i \in 0 .. MaxTris - 1
            BY SeqFacts DEF GfxInv
          <5> QED
            BY <2>3, <4>1, <5>1, DeviceAssumption DEF TriNumbers
      <3>3. seq' \in SeqRecords /\ seq'.state = "TRI_IDX"
        BY <1>1, <3>1, <3>2, Zeros DEF SeqRecords
      <3>4. (Outputs /\ GridRuns /\ RasterWorks /\ Records)'
        BY <1>1, <2>1, <3>3, Alone DEF Silent
      <3> QED
        BY <1>1, <3>3, <3>4, TypesKept DEF GfxInv
    <2> QED
      BY <2>2, <2>3
  <1>3. CASE ~RasterFree
    <2>1. seq' = seq
      BY <1>3 DEF TriWait
    <2>2. ras'.st # "CLEAR"
      <3>1. out = Given => ras'.st = "SCAN"
        BY <1>1, QuietSignals, GivenSignals DEF During, Submitted, RasterOK, RasterRecords, ToRaster
      <3>2. out = Quiet => ras'.st \in {"IDLE", "SCAN"}
        BY <1>1, ScanKeeps, QuietSignals, GivenSignals DEF During, ToRaster
      <3> QED
        BY <1>1, <3>1, <3>2 DEF GfxInv, Outputs
    <2>3. (Outputs /\ GridRuns /\ RasterWorks /\ Records)'
      BY <1>1, <2>1, <2>2 DEF Outputs, GridRuns, RasterWorks, Records
    <2> QED
      BY <1>1, <2>1, <2>3, TypesKept DEF GfxInv
  <1> QED
    BY <1>2, <1>3

\* The word that was on its way arrives, so one more word of the records is in memory.
LEMMA DmaWords ==
  ASSUME Types, Outputs, Records, seq.state = "DMA",
         mem' = IF seq.dma_k = 0 THEN mem ELSE WrittenMem(mem)
  PROVE  \A k \in 0 .. Count - 1 :
           /\ 3 * k < seq.dma_k => mem'.fbuf[k].w0 = Raw(ras.frags[k + 1]).w0
           /\ 3 * k + 1 < seq.dma_k => mem'.fbuf[k].w1 = Raw(ras.frags[k + 1]).w1
           /\ 3 * k + 2 < seq.dma_k => mem'.fbuf[k].w2 = Raw(ras.frags[k + 1]).w2
  <1>0. Count \in Nat /\ Count <= FragMax /\ seq.dma_k \in Nat
    <2>1. seq.dma_k \in 0 .. 3 * FragMax
      BY SeqFacts
    <2>2. Count \in Nat /\ Count <= FragMax
      BY DEF Types, RasterOK, RasterRecords, Count
    <2> QED
      BY <2>1, <2>2, TargetAssumption
  <1>1. CASE seq.dma_k = 0
    <2>1. \A k \in 0 .. Count - 1 : ~(3 * k < 0) /\ ~(3 * k + 1 < 0) /\ ~(3 * k + 2 < 0)
      BY <1>0
    <2> QED
      BY <1>1, <2>1
  <1>2. CASE seq.dma_k # 0
    <2>1. PICK r \in 0 .. Count - 1, s \in 0 .. 2 :
            /\ seq.dma_k - 1 = 3 * r + s
            /\ \/ s = 0 /\ WrittenMem(mem) = [mem EXCEPT !.fbuf[r].w0 = Raw(ras.frags[r + 1]).w0]
               \/ s = 1 /\ WrittenMem(mem) = [mem EXCEPT !.fbuf[r].w1 = Raw(ras.frags[r + 1]).w1]
               \/ s = 2 /\ WrittenMem(mem) = [mem EXCEPT !.fbuf[r].w2 = Raw(ras.frags[r + 1]).w2]
      BY <1>2, WordMoved
    <2>2. mem' = WrittenMem(mem)
      BY <1>2
    <2>3. mem \in Buffers /\ mem.fbuf \in [0 .. FragMax - 1 -> Slots] /\ r \in 0 .. FragMax - 1
      BY <1>0, TargetAssumption DEF Types, Buffers
    <2>4. \A k \in 0 .. Count - 1 :
            /\ 3 * k + 1 < seq.dma_k => mem.fbuf[k].w0 = Raw(ras.frags[k + 1]).w0
            /\ 3 * k + 2 < seq.dma_k => mem.fbuf[k].w1 = Raw(ras.frags[k + 1]).w1
            /\ 3 * k + 3 < seq.dma_k => mem.fbuf[k].w2 = Raw(ras.frags[k + 1]).w2
      BY DEF Records
    <2>5. ASSUME NEW k \in 0 .. Count - 1
          PROVE  k \in 0 .. FragMax - 1 /\ mem.fbuf[k] \in Slots
      BY <1>0, <2>3, TargetAssumption
    <2>6. ASSUME NEW k \in 0 .. Count - 1
          PROVE  /\ 3 * k < seq.dma_k => 3 * k + 1 < seq.dma_k \/ (k = r /\ s = 0)
                 /\ 3 * k + 1 < seq.dma_k => 3 * k + 2 < seq.dma_k \/ (k = r /\ s = 1)
                 /\ 3 * k + 2 < seq.dma_k => 3 * k + 3 < seq.dma_k \/ (k = r /\ s = 2)
      BY <1>0, <2>1
    <2>7. ASSUME NEW k \in 0 .. Count - 1
          PROVE  /\ mem'.fbuf[k].w0 = IF k = r /\ s = 0 THEN Raw(ras.frags[k + 1]).w0 ELSE mem.fbuf[k].w0
                 /\ mem'.fbuf[k].w1 = IF k = r /\ s = 1 THEN Raw(ras.frags[k + 1]).w1 ELSE mem.fbuf[k].w1
                 /\ mem'.fbuf[k].w2 = IF k = r /\ s = 2 THEN Raw(ras.frags[k + 1]).w2 ELSE mem.fbuf[k].w2
      <3>1. mem.fbuf[k] \in Slots /\ k \in 0 .. FragMax - 1
        BY <2>5
      <3>2. CASE s = 0
        <4> DEFINE w == Raw(ras.frags[r + 1]).w0
        <4>1. mem' = [mem EXCEPT !.fbuf[r].w0 = w]
          BY <2>1, <2>2, <3>2
        <4>2. k = r => w = Raw(ras.frags[k + 1]).w0
          OBVIOUS
        <4> HIDE DEF w
        <4>3. [mem EXCEPT !.fbuf[r].w0 = w].fbuf[k] =
                IF k = r THEN [mem.fbuf[k] EXCEPT !.w0 = w] ELSE mem.fbuf[k]
          BY <2>3, <3>1 DEF Buffers
        <4>4. mem'.fbuf[k] = IF k = r THEN [mem.fbuf[k] EXCEPT !.w0 = w] ELSE mem.fbuf[k]
          BY <4>1, <4>3
        <4> QED
          BY <3>1, <3>2, <4>2, <4>4 DEF Slots
      <3>3. CASE s = 1
        <4> DEFINE w == Raw(ras.frags[r + 1]).w1
        <4>1. mem' = [mem EXCEPT !.fbuf[r].w1 = w]
          BY <2>1, <2>2, <3>3
        <4>2. k = r => w = Raw(ras.frags[k + 1]).w1
          OBVIOUS
        <4> HIDE DEF w
        <4>3. [mem EXCEPT !.fbuf[r].w1 = w].fbuf[k] =
                IF k = r THEN [mem.fbuf[k] EXCEPT !.w1 = w] ELSE mem.fbuf[k]
          BY <2>3, <3>1 DEF Buffers
        <4>4. mem'.fbuf[k] = IF k = r THEN [mem.fbuf[k] EXCEPT !.w1 = w] ELSE mem.fbuf[k]
          BY <4>1, <4>3
        <4> QED
          BY <3>1, <3>3, <4>2, <4>4 DEF Slots
      <3>4. CASE s = 2
        <4> DEFINE w == Raw(ras.frags[r + 1]).w2
        <4>1. mem' = [mem EXCEPT !.fbuf[r].w2 = w]
          BY <2>1, <2>2, <3>4
        <4>2. k = r => w = Raw(ras.frags[k + 1]).w2
          OBVIOUS
        <4> HIDE DEF w
        <4>3. [mem EXCEPT !.fbuf[r].w2 = w].fbuf[k] =
                IF k = r THEN [mem.fbuf[k] EXCEPT !.w2 = w] ELSE mem.fbuf[k]
          BY <2>3, <3>1 DEF Buffers
        <4>4. mem'.fbuf[k] = IF k = r THEN [mem.fbuf[k] EXCEPT !.w2 = w] ELSE mem.fbuf[k]
          BY <4>1, <4>3
        <4> QED
          BY <3>1, <3>4, <4>2, <4>4 DEF Slots
      <3> QED
        BY <3>2, <3>3, <3>4
    <2> QED
      BY <2>4, <2>6, <2>7
  <1> QED
    BY <1>1, <1>2

\* A record is its three words.
LEMMA SlotWhole ==
  ASSUME NEW w \in Slots, NEW f, w.w0 = Raw(f).w0, w.w1 = Raw(f).w1, w.w2 = Raw(f).w2
  PROVE  w = Raw(f)
  BY DEF Slots, Raw

LEMMA DmaKeeps ==
  ASSUME GfxInv, During, Dma
  PROVE  GfxInv'
  <1>1. /\ seq.state = "DMA" /\ seq \in SeqRecords /\ ras.st = "IDLE" /\ ras' = ras
        /\ grid' = NoneRuns /\ mem' = IF seq.dma_k = 0 THEN mem ELSE WrittenMem(mem)
        /\ RasterOK(ras)
    BY DEF Dma, GfxInv, Types, RasterWorks, During
  <1>2. \A k \in 0 .. Count - 1 :
           /\ 3 * k < seq.dma_k => mem'.fbuf[k].w0 = Raw(ras.frags[k + 1]).w0
           /\ 3 * k + 1 < seq.dma_k => mem'.fbuf[k].w1 = Raw(ras.frags[k + 1]).w1
           /\ 3 * k + 2 < seq.dma_k => mem'.fbuf[k].w2 = Raw(ras.frags[k + 1]).w2
    BY <1>1, DmaWords DEF GfxInv
  <1>3. Count' = Count /\ Count \in Nat /\ Count <= FragMax
    BY <1>1 DEF Count, RasterOK, RasterRecords
  <1>4. seq.dma_k \in Nat /\ seq.dma_k <= 3 * Count
    <2>1. seq.dma_k \in 0 .. 3 * FragMax
      BY SeqFacts DEF GfxInv
    <2> QED
      BY <1>1, <2>1, TargetAssumption DEF GfxInv, Records
  <1>5. CASE seq.dma_k >= Count * 3
    <2>1. seq' = [seq EXCEPT !.cb_k = 0, !.state = "FS_CB"] /\ out' = Quiet
      BY <1>5 DEF Dma, Silent
    <2>2. seq' \in SeqRecords /\ seq'.state = "FS_CB" /\ seq'.cb_k = 0
      BY <1>1, <2>1, Zeros DEF SeqRecords
    <2>3. Types'
      BY <1>1, <2>2, TypesKept
    <2>4. RawAll'
      <3>1. ASSUME NEW k \in 0 .. Count - 1
            PROVE  3 * k < seq.dma_k /\ 3 * k + 1 < seq.dma_k /\ 3 * k + 2 < seq.dma_k
        BY <1>3, <1>4, <1>5
      <3>2. ASSUME NEW k \in 0 .. Count - 1 PROVE mem'.fbuf[k] = Raw(ras.frags[k + 1])
        <4>1. k \in 0 .. FragMax - 1
          BY <1>3, TargetAssumption
        <4>2. mem'.fbuf[k] \in Slots
          BY <2>3, <4>1 DEF Types, Buffers
        <4> QED
          BY <1>2, <3>1, <4>2, SlotWhole
      <3> QED
        BY <1>1, <1>3, <3>2 DEF RawAll
    <2>5. (Outputs /\ GridRuns /\ RasterWorks /\ Records)'
      BY <1>1, <2>1, <2>2, <2>4 DEF Outputs, GridRuns, RasterWorks, Records
    <2> QED
      BY <2>3, <2>5 DEF GfxInv
  <1>6. CASE ~(seq.dma_k >= Count * 3)
    <2>1. seq' = [seq EXCEPT !.dma_k = seq.dma_k + 1] /\ out' = Moved(seq.dma_k)
      BY <1>6 DEF Dma, Moved
    <2>2. seq.dma_k + 1 \in WordCounts /\ seq.dma_k + 1 <= 3 * Count /\ seq.dma_k + 1 # 0
      BY <1>3, <1>4, <1>6, TargetAssumption DEF WordCounts
    <2>3. seq' \in SeqRecords /\ seq'.state = "DMA" /\ seq'.dma_k = seq.dma_k + 1
      BY <1>1, <2>1, <2>2 DEF SeqRecords
    <2>4. Types'
      BY <1>1, <2>3, TypesKept
    <2>5. out' = Moved(seq.dma_k - 1)'
      <3>1. seq'.dma_k - 1 = seq.dma_k
        BY <1>4, <2>3
      <3> QED
        BY <1>1, <2>1, <3>1 DEF Moved
    <2>6. Records'
      <3>1. ASSUME NEW k \in 0 .. Count - 1
            PROVE  /\ 3 * k + 1 < seq.dma_k + 1 => 3 * k < seq.dma_k
                   /\ 3 * k + 2 < seq.dma_k + 1 => 3 * k + 1 < seq.dma_k
                   /\ 3 * k + 3 < seq.dma_k + 1 => 3 * k + 2 < seq.dma_k
        BY <1>3, <1>4
      <3> QED
        BY <1>1, <1>2, <1>3, <2>2, <2>3, <3>1 DEF Records
    <2>7. (Outputs /\ GridRuns /\ RasterWorks)'
      BY <1>1, <2>2, <2>3, <2>5 DEF Outputs, GridRuns, RasterWorks
    <2> QED
      BY <2>4, <2>6, <2>7 DEF GfxInv
  <1> QED
    BY <1>5, <1>6

LEMMA FsCbKeeps ==
  ASSUME GfxInv, During, FsCb
  PROVE  GfxInv'
  <1>1. /\ seq.state = "FS_CB" /\ seq \in SeqRecords /\ ras.st = "IDLE" /\ ras' = ras
        /\ grid' = NoneRuns /\ mem' = mem
        /\ cbank' = IF seq.cb_k = 0 THEN cbank
                    ELSE [cbank EXCEPT ![seq.cb_k - 1] = Constant(seq.cb_k - 1)]
        /\ cbank \in [0 .. 2 -> Parameters] /\ RawAll /\ (seq.cb_k = 2 => cbank[0] = FbufAddr)
    BY DEF FsCb, GfxInv, Types, RasterWorks, During, Records
  <1>2. seq.cb_k \in {0, 1, 2}
    BY SeqFacts DEF GfxInv
  <1>3. out' = Told(seq.cb_k)
    BY DEF FsCb, Told, Constant
  <1>4. Count' = Count /\ RawAll'
    BY <1>1 DEF RawAll, Count
  <1>5. CASE seq.cb_k = 2
    <2>1. seq' = [seq EXCEPT !.state = "FS_GO"]
      BY <1>5 DEF FsCb
    <2>2. seq' \in SeqRecords /\ seq'.state = "FS_GO"
      BY <1>1, <2>1, Zeros DEF SeqRecords
    <2>3. cbank' = [cbank EXCEPT ![1] = Count]
      BY <1>1, <1>5 DEF Constant
    <2>4. cbank'[0] = FbufAddr /\ cbank'[1] = Count
      BY <1>1, <1>5, <2>3
    <2>5. out' = Told(2)'
      BY <1>3, <1>4, <1>5 DEF Told, Constant
    <2>6. (Outputs /\ GridRuns /\ RasterWorks /\ Records)'
      BY <1>1, <1>4, <2>2, <2>4, <2>5 DEF Outputs, GridRuns, RasterWorks, Records
    <2> QED
      BY <1>1, <2>2, <2>6, TypesKept DEF GfxInv
  <1>6. CASE seq.cb_k # 2
    <2>1. seq' = [seq EXCEPT !.cb_k = seq.cb_k + 1] /\ seq.cb_k + 1 \in Thirds /\ seq.cb_k + 1 # 0
      BY <1>2, <1>6 DEF FsCb, Thirds
    <2>2. seq' \in SeqRecords /\ seq'.state = "FS_CB" /\ seq'.cb_k = seq.cb_k + 1
      BY <1>1, <2>1 DEF SeqRecords
    <2>3. seq'.cb_k = 2 => cbank'[0] = FbufAddr
      <3>1. ASSUME seq.cb_k = 1 PROVE cbank'[0] = FbufAddr
        BY <1>1, <3>1 DEF Constant
      <3> QED
        BY <1>2, <2>2, <3>1
    <2>4. out' = Told(seq.cb_k - 1)'
      <3>1. seq'.cb_k - 1 = seq.cb_k
        BY <1>2, <2>2
      <3> QED
        BY <1>3, <1>4, <3>1 DEF Told, Constant
    <2>5. (Outputs /\ GridRuns /\ RasterWorks /\ Records)'
      BY <1>1, <1>4, <2>1, <2>2, <2>3, <2>4 DEF Outputs, GridRuns, RasterWorks, Records
    <2> QED
      BY <1>1, <2>2, <2>5, TypesKept DEF GfxInv
  <1> QED
    BY <1>5, <1>6

LEMMA FsGoKeeps ==
  ASSUME GfxInv, During, FsGo
  PROVE  GfxInv'
  <1>1. /\ seq.state = "FS_GO" /\ seq \in SeqRecords /\ ras.st = "IDLE" /\ ras' = ras
        /\ grid' = NoneRuns /\ mem' = mem /\ cbank' = [cbank EXCEPT ![2] = Constant(2)]
        /\ cbank \in [0 .. 2 -> Parameters] /\ RawAll /\ cbank[0] = FbufAddr /\ cbank[1] = Count
        /\ seq' = [seq EXCEPT !.state = "FS_WAIT"] /\ out' = Launched(Blocks, BlockThreads, "FS")
    BY DEF FsGo, Goto, Launch, Launched, GfxInv, Types, RasterWorks, During, Records
  <1>2. seq' \in SeqRecords /\ seq'.state = "FS_WAIT"
    BY <1>1, Zeros DEF SeqRecords
  <1>3. Count' = Count /\ Blocks' = Blocks /\ RawAll'
    BY <1>1 DEF RawAll, Count, Blocks
  <1>4. Constants3'
    BY <1>1, <1>3 DEF Constants3, Constant
  <1>5. grid' # HasEnded
    BY <1>1 DEF NoneRuns, HasEnded
  <1>6. out' # Quiet /\ out' = Launched(Blocks', BlockThreads, "FS")
    BY <1>1, <1>3 DEF Launched, Quiet, Low
  <1>7. (Outputs /\ GridRuns /\ RasterWorks /\ Records)'
    BY <1>1, <1>2, <1>3, <1>4, <1>5, <1>6 DEF Outputs, GridRuns, RasterWorks, Records, Launched
  <1> QED
    BY <1>1, <1>2, <1>7, TypesKept DEF GfxInv

LEMMA FsWaitKeeps ==
  ASSUME GfxInv, During, FsWait
  PROVE  GfxInv'
  <1>1. /\ seq.state = "FS_WAIT" /\ out' = Quiet /\ seq \in SeqRecords /\ ras.st = "IDLE"
        /\ ras' = ras /\ cbank' = cbank /\ ComputeSteps(Blocks, BlockThreads, "FS") /\ Constants3
        /\ (IF grid = HasEnded THEN TonedAll ELSE RawAll)
    BY DEF FsWait, Silent, GfxInv, Types, RasterWorks, During, Records
  <1>2. Count' = Count /\ Blocks' = Blocks /\ Constants3' /\ Count \in Nat
    BY <1>1 DEF Count, Blocks, Constants3, GfxInv, Types, RasterOK, RasterRecords
  <1>3. CASE grid = HasEnded
    <2>1. grid.done
      BY <1>3 DEF HasEnded
    <2>2. seq' = [seq EXCEPT !.rop_k = 0, !.state = "ROP_R0"]
      BY <2>1 DEF FsWait
    <2>3. seq' \in SeqRecords /\ seq'.state = "ROP_R0" /\ seq'.rop_k = 0
      BY <1>1, <2>2, Zeros DEF SeqRecords
    <2>4. grid' = NoneRuns /\ mem' = mem
      <3>1. grid # Runs(Blocks, BlockThreads, "FS") /\ grid # NoneRuns
        BY <1>3 DEF Runs, HasEnded, NoneRuns
      <3>2. out = Launched(Blocks, BlockThreads, "FS") => out # Quiet
        BY DEF Launched, Quiet, Low
      <3> QED
        BY <1>1, <3>1, <3>2 DEF ComputeSteps, GfxInv, GridRuns
    <2>5. TonedAll'
      BY <1>1, <1>2, <1>3, <2>4 DEF TonedAll
    <2>6. (Outputs /\ GridRuns /\ RasterWorks /\ Records)'
      BY <1>1, <1>2, <2>3, <2>4, <2>5 DEF Outputs, GridRuns, RasterWorks, Records
    <2> QED
      BY <1>1, <2>3, <2>6, TypesKept DEF GfxInv
  <1>4. CASE grid # HasEnded
    <2>1. ~grid.done
      <3>1. grid = NoneRuns \/ grid = Runs(Blocks, BlockThreads, "FS")
        BY <1>1, <1>4 DEF GfxInv, GridRuns
      <3> QED
        BY <3>1 DEF NoneRuns, Runs
    <2>2. seq' = seq
      BY <2>1 DEF FsWait
    <2>3. grid' = HasEnded \/ grid' = Runs(Blocks, BlockThreads, "FS")
      BY <1>1, <1>4 DEF ComputeSteps
    <2>4. IF grid' = HasEnded THEN TonedAll' ELSE RawAll'
      <3>1. Runs(Blocks, BlockThreads, "FS") # HasEnded
        BY DEF Runs, HasEnded
      <3>2. CASE mem' = mem /\ grid' # HasEnded
        BY <1>1, <1>2, <1>4, <3>2 DEF RawAll
      <3>3. CASE grid = Runs(Blocks, BlockThreads, "FS") /\ grid' = HasEnded /\ mem' = Stores(mem)
        <4>1. \A k \in 0 .. Count - 1 : Stores(mem).fbuf[k] = Toned(ras.frags[k + 1])
          BY <1>1, <1>4, <3>3, FragmentStores DEF GfxInv
        <4> QED
          BY <1>1, <1>2, <3>3, <4>1 DEF TonedAll
      <3>4. CASE Blocks = 0 /\ mem' = mem /\ grid' = HasEnded
        <4>1. Count = 0
          BY <3>4, ThreadsEnough DEF GfxInv
        <4>2. Count' = 0 /\ 0 .. 0 - 1 = {}
          BY <1>2, <4>1
        <4> QED
          BY <3>4, <4>2 DEF TonedAll
      <3> QED
        BY <1>1, <1>4, <3>1, <3>2, <3>3, <3>4 DEF ComputeSteps
    <2>5. (Outputs /\ GridRuns /\ RasterWorks /\ Records)'
      BY <1>1, <1>2, <2>2, <2>3, <2>4 DEF Outputs, GridRuns, RasterWorks, Records
    <2> QED
      BY <1>1, <2>2, <2>5, TypesKept DEF GfxInv
  <1> QED
    BY <1>3, <1>4

LEMMA RopR0Keeps ==
  ASSUME GfxInv, During, RopR0
  PROVE  GfxInv'
  <1>1. /\ seq.state = "ROP_R0" /\ out' = Quiet /\ seq \in SeqRecords /\ ras.st = "IDLE"
        /\ ras' = ras /\ mem' = mem /\ grid' = NoneRuns /\ TonedAll /\ seq.rop_k <= Count
    BY DEF RopR0, Silent, GfxInv, Types, RasterWorks, During, Records
  <1>2. /\ Count' = Count /\ Count \in Nat /\ Count <= FragMax /\ TonedAll'
        /\ seq.rop_k \in Nat
    <2>1. seq.rop_k \in 0 .. FragMax
      BY SeqFacts DEF GfxInv
    <2> QED
      BY <1>1, <2>1, TargetAssumption DEF Count, TonedAll, GfxInv, Types, RasterOK, RasterRecords
  <1>3. CASE seq.rop_k >= Count
    <2>1. seq' = [seq EXCEPT !.state = "DONE"]
      BY <1>3 DEF RopR0
    <2>2. seq' \in SeqRecords /\ seq'.state = "DONE" /\ seq'.rop_k = Count
      BY <1>1, <1>2, <1>3, <2>1, Zeros DEF SeqRecords
    <2>3. seq'.rop_k <= Count
      BY <1>2, <2>2
    <2>4. (Outputs /\ GridRuns /\ RasterWorks /\ Records)'
      BY <1>1, <1>2, <2>2, <2>3 DEF Outputs, GridRuns, RasterWorks, Records
    <2> QED
      BY <1>1, <2>2, <2>4, TypesKept DEF GfxInv
  <1>4. CASE ~(seq.rop_k >= Count)
    <2> DEFINE w == mem.fbuf[seq.rop_k].w0
    <2>1. seq' = [seq EXCEPT !.rop_w0 = w, !.state = "ROP_R2"]
      BY <1>4 DEF RopR0
    <2>2. seq.rop_k \in 0 .. Count - 1 /\ seq.rop_k < Count
      BY <1>2, <1>4
    <2>3. w = Raw(ras.frags[seq.rop_k + 1]).w0
      <3>1. mem.fbuf[seq.rop_k] = Toned(ras.frags[seq.rop_k + 1])
        BY <1>1, <2>2 DEF TonedAll
      <3> QED
        BY <3>1 DEF Toned, Raw
    <2>4. w \in Heads
      <3>1. Raw(ras.frags[seq.rop_k + 1]) \in Slots
        BY <2>2, RecordFacts DEF GfxInv
      <3> QED
        BY <2>3, <3>1 DEF Slots
    <2> HIDE DEF w
    <2>5. /\ seq' \in SeqRecords /\ seq'.state = "ROP_R2" /\ seq'.rop_k = seq.rop_k
          /\ seq'.rop_w0 = w
      BY <1>1, <2>1, <2>4, Zeros DEF SeqRecords
    <2>6. (Outputs /\ GridRuns /\ RasterWorks /\ Records)'
      BY <1>1, <1>2, <2>2, <2>3, <2>5 DEF Outputs, GridRuns, RasterWorks, Records
    <2> QED
      BY <1>1, <2>5, <2>6, TypesKept DEF GfxInv
  <1> QED
    BY <1>3, <1>4

LEMMA RopR2Keeps ==
  ASSUME GfxInv, During, RopR2
  PROVE  GfxInv'
  <1>1. /\ seq.state = "ROP_R2" /\ seq \in SeqRecords /\ ras.st = "IDLE"
        /\ ras' = ras /\ mem' = mem /\ grid' = NoneRuns /\ TonedAll /\ seq.rop_k <= Count
        /\ seq.rop_k < Count /\ seq.rop_w0 = Raw(ras.frags[seq.rop_k + 1]).w0
        /\ seq' = [seq EXCEPT !.state = "ROP_GO"]
    BY DEF RopR2, Goto, GfxInv, Types, RasterWorks, During, Records
  <1>2. seq' \in SeqRecords /\ seq'.state = "ROP_GO" /\ seq'.rop_k = seq.rop_k /\ seq'.q = seq.q
    BY <1>1, Zeros DEF SeqRecords
  <1>3. Count' = Count /\ TonedAll' /\ seq.rop_k \in 0 .. Count - 1
    <2>1. seq.rop_k \in 0 .. FragMax
      BY SeqFacts DEF GfxInv
    <2>2. Count \in Nat
      BY DEF Count, GfxInv, Types, RasterOK, RasterRecords
    <2> QED
      BY <1>1, <2>1, <2>2, TargetAssumption DEF Count, TonedAll
  <1>4. /\ mem.fbuf[seq.rop_k].w2 = Shade(ras.frags[seq.rop_k + 1].uv, ras.frags[seq.rop_k + 1].rgb)
        /\ seq.rop_w0.pidx = ras.frags[seq.rop_k + 1].pidx
        /\ seq.rop_w0.z = ras.frags[seq.rop_k + 1].z
    <2>1. mem.fbuf[seq.rop_k] = Toned(ras.frags[seq.rop_k + 1])
      BY <1>1, <1>3 DEF TonedAll
    <2>2. seq.rop_w0 = [pidx |-> ras.frags[seq.rop_k + 1].pidx, z |-> ras.frags[seq.rop_k + 1].z]
      BY <1>1 DEF Raw
    <2> QED
      BY <2>1, <2>2 DEF Toned, Raw
  <1>5. out' = Handed(seq.rop_k)
    BY <1>4 DEF RopR2, Handed, Fin
  <1>6. out' = Handed(seq.rop_k)'
    BY <1>1, <1>2, <1>5 DEF Handed, Fin
  <1>7. (Outputs /\ GridRuns /\ RasterWorks /\ Records)'
    BY <1>1, <1>2, <1>3, <1>6 DEF Outputs, GridRuns, RasterWorks, Records
  <1> QED
    BY <1>1, <1>2, <1>7, TypesKept DEF GfxInv

LEMMA RopGoKeeps ==
  ASSUME GfxInv, During, RopGo
  PROVE  GfxInv'
  <1>1. /\ seq.state = "ROP_GO" /\ seq \in SeqRecords /\ ras.st = "IDLE" /\ out' = Quiet
        /\ ras' = Blended(ras, Fin(seq.rop_k)) /\ mem' = mem /\ grid' = NoneRuns
        /\ TonedAll /\ seq.rop_k < Count /\ RasterOK(ras)
        /\ seq' = [seq EXCEPT !.rop_k = seq.rop_k + 1, !.state = "ROP_R0"]
    BY DEF RopGo, RopNext, Silent, GfxInv, Types, RasterWorks, During, Records
  <1>2. ras'.frags = ras.frags /\ ras'.st = "IDLE"
    BY <1>1 DEF Blended, RasterOK, RasterRecords
  <1>3. Count' = Count /\ TonedAll'
    BY <1>1, <1>2 DEF Count, TonedAll
  <1>4. seq.rop_k + 1 \in Counts /\ seq.rop_k + 1 <= Count
    <2>1. seq.rop_k \in 0 .. FragMax
      BY SeqFacts DEF GfxInv
    <2>2. Count \in Nat /\ Count <= FragMax
      BY DEF Count, GfxInv, Types, RasterOK, RasterRecords
    <2> QED
      BY <1>1, <2>1, <2>2, TargetAssumption DEF Counts
  <1>5. seq' \in SeqRecords /\ seq'.state = "ROP_R0" /\ seq'.rop_k = seq.rop_k + 1
    BY <1>1, <1>4, Zeros DEF SeqRecords
  <1>6. (Outputs /\ GridRuns /\ RasterWorks /\ Records)'
    BY <1>1, <1>2, <1>3, <1>4, <1>5 DEF Outputs, GridRuns, RasterWorks, Records
  <1> QED
    BY <1>1, <1>5, <1>6, TypesKept DEF GfxInv

LEMMA DoneKeeps ==
  ASSUME GfxInv, During, Done
  PROVE  GfxInv'
  <1>1. /\ seq.state = "DONE" /\ seq \in SeqRecords /\ ras.st = "IDLE" /\ out' = Quiet
        /\ ras' = ras /\ grid' = NoneRuns /\ seq' = [seq EXCEPT !.state = "IDLE"]
    BY DEF Done, Goto, Silent, GfxInv, Types, RasterWorks, During
  <1>2. seq' \in SeqRecords /\ seq'.state = "IDLE"
    BY <1>1, Zeros DEF SeqRecords
  <1>3. (Outputs /\ GridRuns /\ RasterWorks /\ Records)'
    BY <1>1, <1>2 DEF Outputs, GridRuns, RasterWorks, Records
  <1> QED
    BY <1>1, <1>2, <1>3, TypesKept DEF GfxInv

\* Every clock of a draw call keeps the invariant.
LEMMA DrawKeeps ==
  ASSUME GfxInv, NEW ends \in BOOLEAN, DrawRuns(ends)
  PROVE  GfxInv'
  <1>1. During /\ Busy
    BY DrawClock
  <1> QED
    BY <1>1, VsGoKeeps, VsWaitKeeps, TriIdxKeeps, TriVtxKeeps, TriGoKeeps, TriWaitKeeps, DmaKeeps,
       FsCbKeeps, FsGoKeeps, FsWaitKeeps, RopR0Keeps, RopR2Keeps, RopGoKeeps, DoneKeeps DEF Busy

-----------------------------------------------------------------------------
\* The host's clocks: the sequencer is idle, has sent nothing, and no grid runs.
LEMMA HostClock ==
  ASSUME GfxInv, seq.state = "IDLE"
  PROVE  /\ ~out.launch.valid /\ ~out.fragRst /\ ~out.tri /\ ~out.fin.valid /\ grid = NoneRuns
         /\ RasterOK(ras) /\ seq \in SeqRecords
  BY QuietSignals DEF GfxInv, Types, Outputs, GridRuns, Silence, ToRaster

LEMMA RestKeeps ==
  ASSUME GfxInv, seq.state = "IDLE", Rest, grid' = NoneRuns, RasterOK(ras'),
         mem' = mem, cbank' = cbank, clear_color' \in Colours, draw_done' \in BOOLEAN
  PROVE  GfxInv'
  <1>1. seq' = seq /\ out' = Quiet
    BY DEF Rest, Silent
  <1>2. Types'
    BY <1>1 DEF GfxInv, Types
  <1>3. (Outputs /\ GridRuns /\ RasterWorks /\ Records)'
    BY <1>1 DEF Outputs, GridRuns, RasterWorks, Records
  <1> QED
    BY <1>2, <1>3 DEF GfxInv

LEMMA HostClearKeeps ==
  ASSUME GfxInv, HostClear
  PROVE  GfxInv'
  <1>1. /\ seq.state = "IDLE" /\ ras.st = "IDLE" /\ Rest /\ mem' = mem /\ cbank' = cbank
        /\ clear_color' \in ClearColours /\ draw_done' = (seq.state = "DONE")
        /\ Rasterize(TRUE, Low) /\ Grid(FALSE)
    BY DEF HostClear, Free, Clock
  <1>2. /\ ~out.launch.valid /\ ~out.fragRst /\ ~out.tri /\ ~out.fin.valid /\ grid = NoneRuns
        /\ RasterOK(ras)
    BY <1>1, HostClock
  <1>3. ras' = Cleared(ras)
    BY <1>1, <1>2 DEF Rasterize, RasterNext, Accept, Enter, Cleared, Low
  <1>4. grid' = NoneRuns
    BY <1>2, <1>1 DEF Grid, NoGrid, NoneRuns
  <1>5. RasterOK(ras')
    BY <1>2, <1>3, ClearStarts
  <1>6. clear_color' \in Colours
    BY <1>1, CommandsAssumption DEF Colours
  <1> QED
    BY <1>1, <1>4, <1>5, <1>6, RestKeeps

LEMMA HostTriangleKeeps ==
  ASSUME GfxInv, HostTriangle
  PROVE  GfxInv'
  <1>1. /\ seq.state = "IDLE" /\ ras.st = "IDLE" /\ Rest /\ mem' = mem /\ cbank' = cbank
        /\ clear_color' = clear_color
        /\ \E tri \in HostTriangles : Clock(FALSE, FALSE, tri)
    BY DEF HostTriangle, Free
  <1>2. PICK tri \in HostTriangles : Clock(FALSE, FALSE, tri)
    BY <1>1
  <1>3. Rasterize(FALSE, tri) /\ Grid(FALSE) /\ draw_done' = (seq.state = "DONE")
    BY <1>2 DEF Clock
  <1>4. /\ ~out.launch.valid /\ ~out.fragRst /\ ~out.tri /\ ~out.fin.valid /\ grid = NoneRuns
        /\ RasterOK(ras)
    BY <1>1, HostClock
  <1>5. tri \in Submission /\ tri.valid
    BY CommandsAssumption DEF Submission
  <1>6. ras' = Submitted(ras, tri)
    BY <1>1, <1>3, <1>4, <1>5 DEF Rasterize, RasterNext, Accept, Enter, Submitted
  <1>7. grid' = NoneRuns
    BY <1>3, <1>4 DEF Grid, NoGrid, NoneRuns
  <1>8. RasterOK(ras')
    BY <1>4, <1>5, <1>6, SubmitStarts
  <1> QED
    BY <1>1, <1>3, <1>7, <1>8, RestKeeps DEF GfxInv, Types

LEMMA HostDrawKeeps ==
  ASSUME GfxInv, HostDraw
  PROVE  GfxInv'
  <1>1. PICK mesh \in Meshes :
          /\ Draw(mesh)
          /\ mem' = [mem EXCEPT !.ibuf = [i \in DOMAIN mem.ibuf |->
                       IF i < 3 * Len(mesh.tris) THEN mesh.tris[(i \div 3) + 1][(i % 3) + 1]
                       ELSE mem.ibuf[i]]]
    BY DEF HostDraw
  <1>2. /\ seq.state = "IDLE" /\ ras.st = "IDLE" /\ cbank' = [k \in 0 .. 2 |-> HostParam]
        /\ clear_color' = clear_color /\ draw_done' = (seq.state = "DONE")
        /\ Rasterize(FALSE, Low) /\ Grid(FALSE)
    BY DEF HostDraw, Free, Clock
  <1>3. /\ ~out.launch.valid /\ ~out.fragRst /\ ~out.tri /\ ~out.fin.valid /\ grid = NoneRuns
        /\ RasterOK(ras) /\ seq \in SeqRecords
    BY <1>2, HostClock
  <1>4. ras' = ras
    BY <1>2, <1>3 DEF Rasterize, RasterNext, Accept, Enter, Low
  <1>5. grid' = NoneRuns
    BY <1>2, <1>3 DEF Grid, NoGrid, NoneRuns
  <1>6. seq' = [seq EXCEPT !.state = "VS_GO", !.q = mesh] /\ out' = Reset
    BY <1>1 DEF Draw, Pulse, Reset
  <1>7. seq' \in SeqRecords /\ seq'.state = "VS_GO"
    BY <1>3, <1>6, Zeros DEF SeqRecords
  <1>8. mem' \in Buffers
    <2> DEFINE n == 3 * Len(mesh.tris)
               i2 == [i \in DOMAIN mem.ibuf |->
                        IF i < n THEN mesh.tris[(i \div 3) + 1][(i % 3) + 1] ELSE mem.ibuf[i]]
    <2>1. mem \in Buffers /\ mem.ibuf \in [0 .. 3 * MaxTris - 1 -> 0 .. MaxVerts - 1]
      BY DEF GfxInv, Types, Buffers
    <2>2. mesh.tris \in Seq([1 .. 3 -> 0 .. MaxVerts - 1]) /\ Len(mesh.tris) \in Nat
      BY CommandsAssumption
    <2>3. ASSUME NEW i \in 0 .. 3 * MaxTris - 1, i < n
          PROVE  mesh.tris[(i \div 3) + 1][(i % 3) + 1] \in 0 .. MaxVerts - 1
      <3>1. i \in Nat
        BY DeviceAssumption
      <3>2. \A j, m \in Nat : j < 3 * m => (j \div 3) + 1 \in 1 .. m /\ (j % 3) + 1 \in 1 .. 3
        OBVIOUS
      <3>3. (i \div 3) + 1 \in 1 .. Len(mesh.tris) /\ (i % 3) + 1 \in 1 .. 3
        BY <2>2, <2>3, <3>1, <3>2
      <3>4. mesh.tris[(i \div 3) + 1] \in [1 .. 3 -> 0 .. MaxVerts - 1]
        BY <2>2, <3>3
      <3> QED
        BY <3>3, <3>4
    <2> HIDE DEF n
    <2>4. i2 \in [0 .. 3 * MaxTris - 1 -> 0 .. MaxVerts - 1]
      BY <2>1, <2>3
    <2>5. mem' = [mem EXCEPT !.ibuf = i2]
      BY <1>1 DEF n
    <2> HIDE DEF i2
    <2> QED
      BY <2>1, <2>4, <2>5 DEF Buffers
  <1>9. Types'
    BY <1>2, <1>3, <1>4, <1>7, <1>8 DEF GfxInv, Types, Parameters
  <1>10. (Outputs /\ GridRuns /\ RasterWorks /\ Records)'
    BY <1>2, <1>4, <1>5, <1>6, <1>7 DEF Outputs, GridRuns, RasterWorks, Records
  <1> QED
    BY <1>9, <1>10 DEF GfxInv

LEMMA RasterRunsKeeps ==
  ASSUME GfxInv, RasterRuns
  PROVE  GfxInv'
  <1>1. /\ seq.state = "IDLE" /\ ras.st # "IDLE" /\ Rest /\ mem' = mem /\ cbank' = cbank
        /\ clear_color' = clear_color /\ draw_done' = (seq.state = "DONE")
        /\ Rasterize(FALSE, Low) /\ Grid(FALSE)
    BY DEF RasterRuns, Clock
  <1>2. /\ ~out.launch.valid /\ ~out.fragRst /\ ~out.tri /\ ~out.fin.valid /\ grid = NoneRuns
        /\ RasterOK(ras)
    BY <1>1, HostClock
  <1>3. ras.st \in {"CLEAR", "SCAN"} /\ clear_color \in Colours
    BY <1>1, <1>2 DEF RasterOK, RasterRecords, GfxInv, Types
  <1>4. CASE ras.st = "CLEAR"
    <2>1. ras' = ClearPixel(ras, clear_color)
      BY <1>1, <1>2, <1>4 DEF Rasterize, RasterNext, Enter
    <2> QED
      BY <1>1, <1>2, <1>3, <1>4, <2>1, ClearGoesOn, RestKeeps DEF Grid, NoGrid, NoneRuns
  <1>5. CASE ras.st = "SCAN"
    <2>1. ras' = Scan(ras)
      BY <1>1, <1>2, <1>5 DEF Rasterize, RasterNext, Enter
    <2> QED
      BY <1>1, <1>2, <1>3, <1>5, <2>1, ScanKeeps, RestKeeps DEF Grid, NoGrid, NoneRuns
  <1> QED
    BY <1>3, <1>4, <1>5

LEMMA SleepKeeps ==
  ASSUME GfxInv, Sleep
  PROVE  GfxInv'
  <1>1. /\ seq.state = "IDLE" /\ ras.st = "IDLE" /\ Rest /\ mem' = mem /\ cbank' = cbank
        /\ clear_color' = clear_color /\ draw_done' = (seq.state = "DONE")
        /\ Rasterize(FALSE, Low) /\ Grid(FALSE)
    BY DEF Sleep, Clock
  <1>2. /\ ~out.launch.valid /\ ~out.fragRst /\ ~out.tri /\ ~out.fin.valid /\ grid = NoneRuns
        /\ RasterOK(ras)
    BY <1>1, HostClock
  <1>3. ras' = ras
    BY <1>1, <1>2 DEF Rasterize, RasterNext, Accept, Enter, Low
  <1>4. grid' = NoneRuns
    BY <1>1, <1>2 DEF Grid, NoGrid, NoneRuns
  <1> QED
    BY <1>1, <1>2, <1>3, <1>4, RestKeeps DEF GfxInv, Types

-----------------------------------------------------------------------------
\* The invariant holds at reset, and so in every state.
LEMMA GfxInitially == ASSUME Init PROVE GfxInv
  <1>1. /\ seq.state = "IDLE" /\ out = Quiet /\ grid = NoneRuns
    BY DEF Init, NoGrid, NoneRuns
  <1>2. 0 \in Pixels /\ W * H \in Nat
    <2>1. W \in Nat /\ H \in Nat /\ 1 <= W /\ 1 <= H
      BY TargetAssumption
    <2>2. 1 * H <= W * H /\ W * H \in Nat
      BY <2>1, ProductsOrder
    <2> QED
      BY <2>1, <2>2 DEF Pixels
  <1>3. [pidx |-> 0, z |-> 0] \in Heads
    BY <1>2, TargetAssumption DEF Heads
  <1>4. NoVertex \in VertexWords
    BY DEF NoVertex, VertexWords
  <1>5. seq \in SeqRecords
    <2>1. (CHOOSE m \in Meshes : TRUE) \in Meshes
      BY CommandsAssumption
    <2>2. [i \in 0 .. 2 |-> 0] \in Indices /\ [i \in 0 .. 2 |-> NoVertex] \in Fetched
      BY <1>4, DeviceAssumption DEF Indices, Fetched
    <2> HIDE DEF NoVertex
    <2> QED
      BY <1>3, <2>1, <2>2, Zeros DEF Init, SeqRecords
  <1>6. mem \in Buffers
    <2>1. [w0 |-> [pidx |-> 0, z |-> 0], w1 |-> 0, w2 |-> 0] \in Slots
      BY <1>3, TargetAssumption DEF Slots, Colours
    <2>2. 0 \in 0 .. MaxVerts - 1
      BY DeviceAssumption
    <2> HIDE DEF NoVertex
    <2> QED
      BY <1>4, <2>1, <2>2 DEF Init, Buffers
  <1>7. RasterOK(ras)
    <2>1. clear_color \in Colours
      BY CommandsAssumption DEF Init, Colours
    <2>2. [p \in Pixels |-> [z |-> Far, rgb |-> clear_color]] \in [Pixels -> Texel]
      BY <2>1, TargetAssumption DEF Texel, Colours
    <2>3. /\ 0 \in 0 .. W - 1 /\ 0 \in 0 .. H - 1
          /\ << >> \in Seq(Fragment) /\ Len(<< >>) = 0 /\ 0 <= FragMax
      BY TargetAssumption
    <2>4. ras \in RasterRecords
      BY <1>2, <2>2, <2>3 DEF Init, RasterRecords
    <2>5. ras.st = "IDLE" /\ ras.frags = << >>
      BY DEF Init
    <2> QED
      BY <2>3, <2>4, <2>5 DEF RasterOK
  <1>8. cbank \in [0 .. 2 -> Parameters] /\ clear_color \in Colours /\ draw_done \in BOOLEAN
    BY CommandsAssumption DEF Init, Parameters, Colours
  <1>9. Outputs /\ GridRuns /\ RasterWorks /\ Records
    BY <1>1 DEF Outputs, GridRuns, RasterWorks, Records
  <1> QED
    BY <1>5, <1>6, <1>7, <1>8, <1>9 DEF GfxInv, Types

LEMMA GfxStep ==
  ASSUME GfxInv, [Next]_vars
  PROVE  GfxInv'
  <1>1. CASE UNCHANGED vars
    <2>1. /\ seq' = seq /\ out' = out /\ draw_done' = draw_done /\ ras' = ras /\ mem' = mem
          /\ cbank' = cbank /\ grid' = grid /\ clear_color' = clear_color
      BY <1>1 DEF vars
    <2>2. Count' = Count /\ Blocks' = Blocks /\ RawAll' = RawAll /\ TonedAll' = TonedAll
          /\ (Constants3' <=> Constants3)
      BY <2>1 DEF Count, Blocks, RawAll, TonedAll, Constants3
    <2>3. Types'
      BY <2>1 DEF GfxInv, Types
    <2>4. Outputs'
      <3>1. Outputs' = Outputs
        BY <2>1, <2>2 DEF Outputs, Moved, Told, Constant, Handed, Fin
      <3> QED
        BY <3>1 DEF GfxInv
    <2>5. GridRuns' /\ RasterWorks'
      BY <2>1, <2>2 DEF GfxInv, GridRuns, RasterWorks
    <2>6. Records'
      <3>1. Records' = Records
        BY <2>1, <2>2 DEF Records
      <3> QED
        BY <3>1 DEF GfxInv
    <2> QED
      BY <2>3, <2>4, <2>5, <2>6 DEF GfxInv
  <1>2. CASE Next
    BY <1>2, HostClearKeeps, HostTriangleKeeps, HostDrawKeeps, RasterRunsKeeps, SleepKeeps, DrawKeeps
       DEF Next
  <1> QED
    BY <1>1, <1>2

LEMMA GfxInvariant == Spec => []GfxInv
  <1>1. GfxInv /\ [Next]_vars => GfxInv'
    BY GfxStep
  <1> QED
    BY <1>1, GfxInitially, PTL DEF Spec

\* The device's registers have their types in every state: the fragment buffer never holds
\* more than FRAG_MAX records, no counter passes what it counts, and the scan and the output
\* unit stay on the target.
THEOREM DeviceTypes == Spec => []TypeOK
  <1>1. GfxInv => TypeOK
    <2> SUFFICES ASSUME GfxInv PROVE TypeOK
      OBVIOUS
    <2>1. Types /\ RasterOK(ras) /\ ras \in RasterRecords
      BY DEF GfxInv, Types, RasterOK
    <2>2. /\ ras.st \in {"IDLE", "CLEAR", "SCAN"} /\ ras.cidx \in Pixels
          /\ ras.px \in 0 .. W - 1 /\ ras.py \in 0 .. H - 1
          /\ ras.frags \in Seq(Fragment) /\ Len(ras.frags) <= FragMax
          /\ ras.fb \in [Pixels -> Texel]
      BY <2>1 DEF RasterOK, RasterRecords
    <2>3. \A k \in 0 .. 2 : cbank[k] \in {HostParam, FbufAddr, TexAddr} \cup 0 .. FragMax
      BY <2>1 DEF Types, Parameters
    <2>4. grid.st \in {"idle", "runs"}
      <3>1. \/ grid = NoneRuns \/ grid = HasEnded \/ grid = Runs(1, Len(seq.q.verts), "VS")
            \/ grid = Runs(Blocks, BlockThreads, "FS")
        BY DEF GfxInv, GridRuns
      <3> QED
        BY <3>1 DEF NoneRuns, HasEnded, Runs
    <2> QED
      BY <2>1, <2>2, <2>3, <2>4, SeqFacts DEF TypeOK, Types
  <1> QED
    BY <1>1, GfxInvariant, PTL

\* The output unit is handed the fragments of the buffer in order, each with its own place
\* and depth and shaded once, and a draw call ends when it has been handed all of them: no
\* record is lost, repeated or read before the fragment shader has written it back.
THEOREM FragmentsHandedOver == Spec => []HandedOver
  <1>1. GfxInv => HandedOver
    <2> SUFFICES ASSUME GfxInv PROVE HandedOver
      OBVIOUS
    <2>1. ASSUME out.fin.valid PROVE seq.rop_k < Count /\ out.fin = Fin(seq.rop_k)
      <3>1. seq.state = "ROP_GO"
        <4>1. \/ out = Quiet \/ out = Reset \/ out = Given \/ out = Moved(seq.dma_k - 1)
              \/ out = Told(seq.cb_k - 1) \/ out = Told(2)
              \/ out = Launched(1, Len(seq.q.verts), "VS") \/ out = Launched(Blocks, BlockThreads, "FS")
              \/ seq.state = "ROP_GO"
          BY SeqFacts DEF GfxInv, Outputs
        <4> QED
          BY <2>1, <4>1, QuietSignals, ResetSignals, GivenSignals, MovedSignals, ToldSignals,
             LaunchedSignals DEF ToRaster
      <3>2. out = Handed(seq.rop_k) /\ seq.rop_k < Count
        BY <3>1 DEF GfxInv, Outputs, Records
      <3> QED
        BY <3>2, HandedSignals
    <2>2. seq.state = "DONE" => seq.rop_k = Count
      BY DEF GfxInv, Records
    <2> QED
      BY <2>1, <2>2 DEF HandedOver
  <1> QED
    BY <1>1, GfxInvariant, PTL

-----------------------------------------------------------------------------
\* The pixels of a triangle in the golden model's order: a recursion over the target.

\* The places of the target, and the recursion that the pixels of a triangle are found by.
Places == [x : 0 .. W - 1, y : 0 .. H - 1]

ScanOf(f, t) ==
  f = [n \in 0 .. W * H |->
         IF n = 0 THEN << >>
         ELSE IF Covered(t, PixelAt(n - 1)) THEN Append(f[n - 1], PixelAt(n - 1))
         ELSE f[n - 1]]

LEMMA TargetSize == W * H \in Nat \ {0} /\ W \in Nat \ {0} /\ H \in Nat \ {0}
  <1>1. W \in Nat /\ H \in Nat /\ 1 <= W /\ 1 <= H
    BY TargetAssumption
  <1>2. 1 * H <= W * H /\ W * H \in Nat
    BY <1>1, ProductsOrder
  <1> QED
    BY <1>1, <1>2

\* A sequence of values in which each follows from the one before, to any length.
Found(f, t, k) ==
  /\ f = [n \in 0 .. k |-> f[n]] /\ f[0] = << >>
  /\ \A n \in 1 .. k : f[n] = IF Covered(t, PixelAt(n - 1)) THEN Append(f[n - 1], PixelAt(n - 1))
                              ELSE f[n - 1]

LEMMA FoundExists ==
  ASSUME NEW t, NEW k \in Nat
  PROVE  \E f : Found(f, t, k)
  <1> DEFINE T == {n \in Nat : \E f : Found(f, t, n)}
  <1>1. 0 \in T
    <2> DEFINE f == [n \in 0 .. 0 |-> << >>]
    <2>1. f = [n \in 0 .. 0 |-> f[n]] /\ f[0] = << >> /\ 1 .. 0 = {}
      OBVIOUS
    <2>2. Found(f, t, 0)
      BY <2>1 DEF Found
    <2> QED
      BY <2>2
  <1>2. ASSUME NEW n \in T PROVE n + 1 \in T
    <2>1. PICK f : Found(f, t, n)
      OBVIOUS
    <2> DEFINE v == IF Covered(t, PixelAt(n)) THEN Append(f[n], PixelAt(n)) ELSE f[n]
               g == [i \in 0 .. n + 1 |-> IF i = n + 1 THEN v ELSE f[i]]
    <2>2. n \in Nat
      OBVIOUS
    <2>3. g = [i \in 0 .. n + 1 |-> g[i]]
      OBVIOUS
    <2>4. g[n + 1] = v /\ \A i \in 0 .. n : g[i] = f[i]
      BY <2>2
    <2> HIDE DEF g
    <2>5. \A i \in 1 .. n + 1 : \/ i = n + 1 /\ i - 1 = n
                                \/ i \in 1 .. n /\ i - 1 \in 0 .. n /\ i \in 0 .. n
      BY <2>2
    <2>6. g[0] = << >> /\ n \in 0 .. n
      BY <2>1, <2>2, <2>4 DEF Found
    <2>7. \A i \in 1 .. n + 1 : g[i] = IF Covered(t, PixelAt(i - 1)) THEN Append(g[i - 1], PixelAt(i - 1))
                                       ELSE g[i - 1]
      <3> SUFFICES ASSUME NEW i \in 1 .. n + 1
                   PROVE  g[i] = IF Covered(t, PixelAt(i - 1)) THEN Append(g[i - 1], PixelAt(i - 1))
                                 ELSE g[i - 1]
        OBVIOUS
      <3>1. CASE i = n + 1 /\ i - 1 = n
        BY <3>1, <2>4, <2>6, Zenon
      <3>2. CASE i \in 1 .. n /\ i - 1 \in 0 .. n /\ i \in 0 .. n
        BY <3>2, <2>1, <2>4, Zenon DEF Found
      <3> QED
        BY <3>1, <3>2, <2>5
    <2>8. Found(g, t, n + 1)
      BY <2>3, <2>6, <2>7, Zenon DEF Found
    <2> QED
      BY <2>2, <2>8
  <1>3. T \in SUBSET Nat
    OBVIOUS
  <1> HIDE DEF T
  <1>4. T = Nat
    BY <1>1, <1>2, <1>3, Induction
  <1> QED
    BY <1>4 DEF T

\* The pixels among the first k + 1 are those among the first k, and the next if it is
\* covered.
LEMMA PixelsRecur ==
  ASSUME NEW t
  PROVE  /\ PixelsBefore(t, 0) = << >>
         /\ \A k \in 0 .. W * H - 1 :
              PixelsBefore(t, k + 1) = IF Covered(t, PixelAt(k)) THEN Append(PixelsBefore(t, k), PixelAt(k))
                                       ELSE PixelsBefore(t, k)
  <1> DEFINE c == CHOOSE f : ScanOf(f, t)
  <1>1. \A k : PixelsBefore(t, k) = c[k]
    BY Zenon DEF PixelsBefore, ScanOf
  <1>2. \E f : ScanOf(f, t)
    <2>1. W * H \in Nat
      BY TargetSize
    <2>2. PICK f : Found(f, t, W * H)
      BY <2>1, FoundExists
    <2> DEFINE m == W * H
    <2>3. f = [n \in 0 .. m |-> f[n]] /\ f[0] = << >> /\ m \in Nat
      BY <2>1, <2>2 DEF Found
    <2>4. \A n \in 1 .. m : f[n] = IF Covered(t, PixelAt(n - 1)) THEN Append(f[n - 1], PixelAt(n - 1))
                              ELSE f[n - 1]
      BY <2>2 DEF Found
    <2> HIDE DEF m
    <2>5. \A n \in 0 .. m : n = 0 \/ (n \in 1 .. m /\ n # 0)
      BY <2>3
    <2>6. \A n \in 0 .. m : f[n] = IF n = 0 THEN << >>
                 ELSE IF Covered(t, PixelAt(n - 1)) THEN Append(f[n - 1], PixelAt(n - 1))
                 ELSE f[n - 1]
      BY <2>3, <2>4, <2>5, Zenon
    <2>7. f = [n \in 0 .. m |-> IF n = 0 THEN << >>
                 ELSE IF Covered(t, PixelAt(n - 1)) THEN Append(f[n - 1], PixelAt(n - 1))
                 ELSE f[n - 1]]
      BY <2>3, <2>6
    <2>8. ScanOf(f, t)
      BY <2>7 DEF ScanOf, m
    <2> QED
      BY <2>8
  <1>3. ScanOf(c, t)
    BY <1>2, Zenon
  <1> HIDE DEF c
  <1>4. \A n \in 0 .. W * H : c[n] = IF n = 0 THEN << >>
                 ELSE IF Covered(t, PixelAt(n - 1)) THEN Append(c[n - 1], PixelAt(n - 1))
                 ELSE c[n - 1]
    BY <1>3 DEF ScanOf
  <1> DEFINE m == W * H
  <1>5. m \in Nat
    BY TargetSize
  <1>6. 0 \in 0 .. m /\ \A k \in 0 .. m - 1 : k + 1 \in 0 .. m /\ k + 1 # 0 /\ k + 1 - 1 = k
    <2> HIDE DEF m
    <2> QED
      BY <1>5
  <1>7. c[0] = << >>
    <2>1. 0 \in 0 .. W * H
      BY <1>6
    <2> HIDE DEF m
    <2> QED
      BY <1>4, <2>1, Zenon
  <1>8. ASSUME NEW k \in 0 .. W * H - 1
        PROVE  c[k + 1] = IF Covered(t, PixelAt(k)) THEN Append(c[k], PixelAt(k)) ELSE c[k]
    <2>1. k + 1 \in 0 .. W * H /\ k + 1 # 0 /\ k + 1 - 1 = k
      BY <1>6
    <2> HIDE DEF m
    <2> DEFINE n == k + 1
               i == n - 1
    <2>2. n \in 0 .. W * H /\ n # 0 /\ i = k
      BY <2>1
    <2>3. c[n] = IF n = 0 THEN << >>
                 ELSE IF Covered(t, PixelAt(i)) THEN Append(c[i], PixelAt(i)) ELSE c[i]
      BY <2>1, <1>4, Zenon
    <2> HIDE DEF n, i
    <2>4. c[n] = IF Covered(t, PixelAt(k)) THEN Append(c[k], PixelAt(k)) ELSE c[k]
      BY <2>2, <2>3, Zenon
    <2> QED
      BY <2>4 DEF n
  <1> QED
    BY <1>1, <1>7, <1>8

\* The places of the target are numbered row by row.
LEMMA PlaceAt ==
  ASSUME NEW k \in 0 .. W * H - 1
  PROVE  /\ PixelAt(k) \in Places /\ PixelAt(k).x = k % W /\ PixelAt(k).y = k \div W
         /\ k = (k \div W) * W + (k % W)
  <1>1. W \in Nat \ {0} /\ H \in Nat \ {0} /\ W * H \in Nat
    BY TargetSize
  <1>2. k \in Nat /\ k < W * H
    BY <1>1
  <1>3. k % W \in 0 .. W - 1 /\ k \div W \in Nat /\ k = W * (k \div W) + (k % W)
    BY <1>1, <1>2
  <1> DEFINE y == k \div W
             x == k % W
  <1>4. y \in Nat /\ x \in 0 .. W - 1 /\ k = W * y + x
    BY <1>3
  <1> HIDE DEF x, y
  <1>5. y * W \in Nat /\ y * W = W * y
    BY <1>1, <1>4
  <1>6. y < H
    <2>1. SUFFICES ASSUME H <= y PROVE FALSE
      BY <1>1, <1>4
    <2>2. H * W <= y * W /\ H * W \in Nat
      BY <1>1, <1>4, <2>1, ProductsOrder
    <2>3. H * W = W * H
      BY <1>1
    <2> QED
      BY <1>1, <1>2, <1>4, <1>5, <2>2, <2>3
  <1>7. y \in 0 .. H - 1
    BY <1>1, <1>4, <1>6
  <1>8. PixelAt(k) = [x |-> x, y |-> y]
    BY DEF PixelAt, x, y
  <1> QED
    BY <1>4, <1>5, <1>7, <1>8 DEF Places, x, y

LEMMA PlaceIs ==
  ASSUME NEW x \in 0 .. W - 1, NEW y \in 0 .. H - 1
  PROVE  y * W + x \in 0 .. W * H - 1 /\ PixelAt(y * W + x) = [x |-> x, y |-> y]
  <1>1. W \in Nat \ {0} /\ H \in Nat \ {0} /\ W * H \in Nat
    BY TargetSize
  <1>2. y * W + x \in 0 .. W * H - 1
    BY PixelIndex DEF Pixels
  <1> DEFINE k == y * W + x
  <1>3. k % W = x
    <2>1. k \in Int /\ y \in Int
      BY <1>1, <1>2
    <2>2. k = y * W + x
      OBVIOUS
    <2> HIDE DEF k
    <2> QED
      BY <1>1, <2>1, <2>2, ModUnique
  <1>4. k = W * (k \div W) + (k % W) /\ k \div W \in Int
    BY <1>1, <1>2
  <1>5. k \div W = y
    <2> DEFINE q == k \div W
    <2>1. W * q = y * W /\ q \in Int /\ y \in Int
      <3>1. W * q \in Int /\ y * W \in Int /\ x \in Int
        BY <1>1, <1>4
      <3>2. W * q + x = y * W + x
        BY <1>3, <1>4
      <3> HIDE DEF q, k
      <3> QED
        BY <1>4, <3>1, <3>2, <1>1 DEF q
    <2> HIDE DEF q, k
    <2>2. W * q - W * y = 0
      BY <2>1, <1>1
    <2>3. W * (q - y) = 0
      BY <2>1, <2>2, <1>1
    <2>4. q - y \in Int
      BY <2>1
    <2>5. \A d \in Int : W * d = 0 => d = 0
      BY <1>1
    <2>6. q - y = 0
      BY <2>3, <2>4, <2>5
    <2> QED
      BY <2>1, <2>6 DEF q
  <1> QED
    BY <1>2, <1>3, <1>5 DEF PixelAt

\* The pixels among the first k are the beginning of those among more.
Begins(s, u) == Len(s) <= Len(u) /\ \A i \in 1 .. Len(s) : u[i] = s[i]

LEMMA BeginsMore ==
  ASSUME NEW S, NEW s \in Seq(S), NEW u \in Seq(S), NEW p \in S, Begins(s, u)
  PROVE  Begins(s, Append(u, p)) /\ Begins(u, u) /\ Append(u, p) \in Seq(S)
  BY DEF Begins

LEMMA PixelsPrefix ==
  ASSUME NEW t, NEW m \in 0 .. W * H, NEW k \in 0 .. m
  PROVE  PixelsBefore(t, k) \in Seq(Places) /\ Begins(PixelsBefore(t, k), PixelsBefore(t, m))
  <1> DEFINE B(i) == PixelsBefore(t, i)
             n == W * H
             T == {j \in Nat : j <= n => \A i \in 0 .. j : B(i) \in Seq(Places) /\ Begins(B(i), B(j))}
  <1>1. n \in Nat
    BY TargetSize
  <1>2. B(0) = << >> /\ \A i \in 0 .. n - 1 :
          B(i + 1) = IF Covered(t, PixelAt(i)) THEN Append(B(i), PixelAt(i)) ELSE B(i)
    BY PixelsRecur
  <1>3. \A i \in 0 .. n - 1 : PixelAt(i) \in Places
    BY PlaceAt
  <1>x. m \in 0 .. n
    OBVIOUS
  <1> HIDE DEF B, n
  <1>4. 0 \in T
    <2>1. << >> \in Seq(Places) /\ 0 .. 0 = {0} /\ Begins(<< >>, << >>)
      BY DEF Begins
    <2> QED
      BY <1>2, <2>1
  <1>5. ASSUME NEW j \in T PROVE j + 1 \in T
    <2>0. j \in Nat
      OBVIOUS
    <2> SUFFICES ASSUME j + 1 <= n
                 PROVE  \A i \in 0 .. j + 1 : B(i) \in Seq(Places) /\ Begins(B(i), B(j + 1))
      BY <2>0
    <2>1. j \in 0 .. n - 1 /\ j <= n
      BY <1>1, <2>0
    <2>2. \A i \in 0 .. j : B(i) \in Seq(Places) /\ Begins(B(i), B(j))
      BY <2>1
    <2>3. B(j + 1) = B(j) \/ B(j + 1) = Append(B(j), PixelAt(j))
      BY <1>2, <2>1
    <2>4. PixelAt(j) \in Places
      BY <1>3, <2>1
    <2> HIDE DEF T
    <2>5. B(j) \in Seq(Places)
      BY <2>0, <2>2
    <2>6. ASSUME NEW i \in 0 .. j PROVE B(i) \in Seq(Places) /\ Begins(B(i), B(j + 1))
      <3>1. B(i) \in Seq(Places) /\ Begins(B(i), B(j))
        BY <2>2
      <3>2. Begins(B(i), Append(B(j), PixelAt(j)))
        BY <3>1, <2>4, <2>5, BeginsMore
      <3> QED
        BY <2>3, <3>1, <3>2
    <2>7. B(j + 1) \in Seq(Places)
      BY <2>3, <2>4, <2>5
    <2>8. Begins(B(j + 1), B(j + 1))
      BY <2>7 DEF Begins
    <2>9. \A i \in 0 .. j + 1 : i \in 0 .. j \/ i = j + 1
      BY <2>0
    <2> QED
      BY <2>6, <2>7, <2>8, <2>9
  <1>6. T \in SUBSET Nat
    OBVIOUS
  <1>7. T = Nat
    <2> HIDE DEF T
    <2> QED
      BY <1>4, <1>5, <1>6, Induction
  <1>8. m \in T
    <2>1. m \in Nat
      BY <1>1, <1>x
    <2> QED
      BY <1>7, <2>1
  <1>9. m <= n
    BY <1>1, <1>x
  <1> QED
    BY <1>8, <1>9 DEF B

\* Where nothing is covered nothing is added.
LEMMA PixelsNone ==
  ASSUME NEW t, NEW k \in 0 .. W * H, NEW m \in 0 .. W * H, k <= m,
         \A i \in k .. m - 1 : ~Covered(t, PixelAt(i))
  PROVE  PixelsBefore(t, m) = PixelsBefore(t, k)
  <1> DEFINE B(i) == PixelsBefore(t, i)
             n == W * H
             T == {j \in Nat : k + j <= m => B(k + j) = B(k)}
  <1>1. n \in Nat
    BY TargetSize
  <1>2. \A i \in 0 .. n - 1 :
          B(i + 1) = IF Covered(t, PixelAt(i)) THEN Append(B(i), PixelAt(i)) ELSE B(i)
    BY PixelsRecur
  <1>3. k \in 0 .. n /\ m \in 0 .. n
    OBVIOUS
  <1> HIDE DEF B, n
  <1>4. k \in Nat /\ m \in Nat /\ m <= n
    BY <1>1, <1>3
  <1>5. 0 \in T
    BY <1>4
  <1>6. ASSUME NEW j \in T PROVE j + 1 \in T
    <2>1. j \in Nat
      OBVIOUS
    <2> SUFFICES ASSUME k + (j + 1) <= m PROVE B(k + (j + 1)) = B(k)
      BY <2>1
    <2>2. k + j \in 0 .. n - 1 /\ k + j \in k .. m - 1 /\ k + (j + 1) = k + j + 1 /\ k + j <= m
      BY <1>1, <1>4, <2>1
    <2>3. B(k + j) = B(k)
      BY <2>2
    <2>4. ~Covered(t, PixelAt(k + j))
      BY <2>2
    <2> QED
      BY <1>2, <2>2, <2>3, <2>4
  <1>7. T \in SUBSET Nat
    OBVIOUS
  <1>8. T = Nat
    <2> HIDE DEF T
    <2> QED
      BY <1>5, <1>6, <1>7, Induction
  <1>9. m - k \in T
    <2>1. m - k \in Nat
      BY <1>4
    <2> QED
      BY <1>8, <2>1
  <1>10. k + (m - k) = m /\ m <= m
    BY <1>4
  <1>11. B(k + (m - k)) = B(k)
    BY <1>9, <1>10
  <1> QED
    BY <1>10, <1>11 DEF B

\* A point is where its weights put it between the corners.
LEMMA Barycentric ==
  ASSUME NEW x1 \in Int, NEW x2 \in Int, NEW x3 \in Int, NEW y1 \in Int, NEW y2 \in Int, NEW y3 \in Int,
         NEW x \in Int, NEW y \in Int, NEW w1 \in Int, NEW w2 \in Int, NEW w3 \in Int, NEW a \in Int,
         w1 = (x3 - x2) * (y - y2) - (y3 - y2) * (x - x2),
         w2 = (x1 - x3) * (y - y3) - (y1 - y3) * (x - x3),
         w3 = (x2 - x1) * (y - y1) - (y2 - y1) * (x - x1),
         a  = (x2 - x1) * (y3 - y1) - (y2 - y1) * (x3 - x1)
  PROVE  /\ a = w1 + w2 + w3
         /\ w1 * (x - x1) + w2 * (x - x2) + w3 * (x - x3) = 0
         /\ w1 * (y - y1) + w2 * (y - y2) + w3 * (y - y3) = 0
  <1>1. a = w1 + w2 + w3
    BY SMTT(30)
  <1>2. w1 * (x - x1) + w2 * (x - x2) + w3 * (x - x3) = 0
    BY SMTT(30)
  <1>3. w1 * (y - y1) + w2 * (y - y2) + w3 * (y - y3) = 0
    BY SMTT(30)
  <1> QED
    BY <1>1, <1>2, <1>3

\* So with weights of one sign, not all zero, it is not left of all corners.
LEMMA NotBelow ==
  ASSUME NEW d1 \in Int, NEW d2 \in Int, NEW d3 \in Int,
         NEW w1 \in Int, NEW w2 \in Int, NEW w3 \in Int,
         w1 * d1 + w2 * d2 + w3 * d3 = 0, w1 + w2 + w3 # 0,
         (w1 >= 0 /\ w2 >= 0 /\ w3 >= 0) \/ (w1 <= 0 /\ w2 <= 0 /\ w3 <= 0)
  PROVE  /\ ~(d1 < 0 /\ d2 < 0 /\ d3 < 0) /\ ~(d1 > 0 /\ d2 > 0 /\ d3 > 0)
  <1>1. \A w, d \in Int : /\ w >= 0 /\ d > 0 => w * d >= w
                          /\ w >= 0 /\ d < 0 => w * d <= -w
                          /\ w <= 0 /\ d > 0 => w * d <= w
                          /\ w <= 0 /\ d < 0 => w * d >= -w
    <2> SUFFICES ASSUME NEW w \in Int, NEW d \in Int
                 PROVE  /\ (w >= 0 /\ d > 0) => w * d >= w
                        /\ (w >= 0 /\ d < 0) => w * d <= -w
                        /\ (w <= 0 /\ d > 0) => w * d <= w
                        /\ (w <= 0 /\ d < 0) => w * d >= -w
      OBVIOUS
    <2>0. w * d \in Int
      OBVIOUS
    <2>1. ASSUME w >= 0, d > 0 PROVE w * d >= w
      <3>1. w * (d - 1) >= 0
        BY <2>1
      <3>2. w * (d - 1) = w * d - w
        OBVIOUS
      <3> QED
        BY <2>0, <3>1, <3>2
    <2>2. ASSUME w >= 0, d < 0 PROVE w * d <= -w
      <3>1. w * (d + 1) <= 0
        BY <2>2
      <3>2. w * (d + 1) = w * d + w
        OBVIOUS
      <3> QED
        BY <2>0, <3>1, <3>2
    <2>3. ASSUME w <= 0, d > 0 PROVE w * d <= w
      <3>1. w * (d - 1) <= 0
        BY <2>3
      <3>2. w * (d - 1) = w * d - w
        OBVIOUS
      <3> QED
        BY <2>0, <3>1, <3>2
    <2>4. ASSUME w <= 0, d < 0 PROVE w * d >= -w
      <3>1. w * (d + 1) >= 0
        BY <2>4
      <3>2. w * (d + 1) = w * d + w
        OBVIOUS
      <3> QED
        BY <2>0, <3>1, <3>2
    <2> QED
      BY <2>1, <2>2, <2>3, <2>4
  <1> DEFINE e1 == w1 * d1
             e2 == w2 * d2
             e3 == w3 * d3
  <1>2. e1 \in Int /\ e2 \in Int /\ e3 \in Int /\ e1 + e2 + e3 = 0
    OBVIOUS
  <1>3. /\ w1 >= 0 /\ w2 >= 0 /\ w3 >= 0 /\ d1 < 0 /\ d2 < 0 /\ d3 < 0 => e1 <= -w1 /\ e2 <= -w2 /\ e3 <= -w3
        /\ w1 <= 0 /\ w2 <= 0 /\ w3 <= 0 /\ d1 < 0 /\ d2 < 0 /\ d3 < 0 => e1 >= -w1 /\ e2 >= -w2 /\ e3 >= -w3
        /\ w1 >= 0 /\ w2 >= 0 /\ w3 >= 0 /\ d1 > 0 /\ d2 > 0 /\ d3 > 0 => e1 >= w1 /\ e2 >= w2 /\ e3 >= w3
        /\ w1 <= 0 /\ w2 <= 0 /\ w3 <= 0 /\ d1 > 0 /\ d2 > 0 /\ d3 > 0 => e1 <= w1 /\ e2 <= w2 /\ e3 <= w3
    BY <1>1
  <1> HIDE DEF e1, e2, e3
  <1> QED
    BY <1>2, <1>3

\* Whether a pixel lies in the box that the scan runs over.
InBox(t, p) == MinX(t) <= p.x /\ p.x <= MaxX(t) /\ MinY(t) <= p.y /\ p.y <= MaxY(t)

\* The golden rasterizer's loops and the scan of raster.sv see the same pixels of a triangle:
\* the golden model draws a pixel of the target exactly if it passes the device's own test,
\* and every such pixel lies in the box of the corners, cut to the target, that the scan runs
\* over.
THEOREM CoveredIs ==
  ASSUME NEW t \in [1 .. 3 -> VertexWords], NEW p \in Places
  PROVE  /\ Covered(t, p) <=> Area(t) # 0 /\ Inside(t, p) /\ Persp(t, p) # 0
         /\ Covered(t, p) => InBox(t, p)
  <1> DEFINE x1 == t[1].x
             x2 == t[2].x
             x3 == t[3].x
             y1 == t[1].y
             y2 == t[2].y
             y3 == t[3].y
             w1 == Weights(t, p)[1]
             w2 == Weights(t, p)[2]
             w3 == Weights(t, p)[3]
  <1>1. /\ x1 \in Int /\ x2 \in Int /\ x3 \in Int /\ y1 \in Int /\ y2 \in Int /\ y3 \in Int
        /\ p.x \in 0 .. W - 1 /\ p.y \in 0 .. H - 1
    BY VertexFields DEF Places
  <1>2. p.x \in Int /\ p.y \in Int /\ W \in Nat \ {0} /\ H \in Nat \ {0} /\ p = [x |-> p.x, y |-> p.y]
    BY <1>1, TargetSize DEF Places
  <1>3. /\ w1 = (x3 - x2) * (p.y - y2) - (y3 - y2) * (p.x - x2)
        /\ w2 = (x1 - x3) * (p.y - y3) - (y1 - y3) * (p.x - x3)
        /\ w3 = (x2 - x1) * (p.y - y1) - (y2 - y1) * (p.x - x1)
        /\ Area(t) = (x2 - x1) * (y3 - y1) - (y2 - y1) * (x3 - x1)
    BY DEF Weights, Area, Edge
  <1>4. Area(t) \in Int /\ w1 \in Int /\ w2 \in Int /\ w3 \in Int
    BY <1>2, WeightTypes
  <1>5. Inside(t, p) => (w1 >= 0 /\ w2 >= 0 /\ w3 >= 0) \/ (w1 <= 0 /\ w2 <= 0 /\ w3 <= 0)
    <2> HIDE DEF w1, w2, w3
    <2> SUFFICES ASSUME Inside(t, p)
                 PROVE  (w1 >= 0 /\ w2 >= 0 /\ w3 >= 0) \/ (w1 <= 0 /\ w2 <= 0 /\ w3 <= 0)
      OBVIOUS
    <2>1. \A i \in 1 .. 3 : IF Area(t) > 0 THEN Weights(t, p)[i] >= 0 ELSE Weights(t, p)[i] <= 0
      BY DEF Inside
    <2>2. 1 \in 1 .. 3 /\ 2 \in 1 .. 3 /\ 3 \in 1 .. 3
      OBVIOUS
    <2> QED
      BY <2>1, <2>2 DEF w1, w2, w3
  <1> DEFINE a == Area(t)
             x == p.x
             y == p.y
  <1>6. a # 0 /\ Inside(t, p) => /\ ~(x - x1 < 0 /\ x - x2 < 0 /\ x - x3 < 0)
                                 /\ ~(x - x1 > 0 /\ x - x2 > 0 /\ x - x3 > 0)
                                 /\ ~(y - y1 < 0 /\ y - y2 < 0 /\ y - y3 < 0)
                                 /\ ~(y - y1 > 0 /\ y - y2 > 0 /\ y - y3 > 0)
    <2>0. x \in Int /\ y \in Int /\ a \in Int
      BY <1>2, <1>4
    <2>00. /\ w1 = (x3 - x2) * (y - y2) - (y3 - y2) * (x - x2)
           /\ w2 = (x1 - x3) * (y - y3) - (y1 - y3) * (x - x3)
           /\ w3 = (x2 - x1) * (y - y1) - (y2 - y1) * (x - x1)
           /\ a = (x2 - x1) * (y3 - y1) - (y2 - y1) * (x3 - x1)
      BY <1>3
    <2> HIDE DEF w1, w2, w3, x1, x2, x3, y1, y2, y3, a, x, y
    <2>1. /\ a = w1 + w2 + w3
          /\ w1 * (x - x1) + w2 * (x - x2) + w3 * (x - x3) = 0
          /\ w1 * (y - y1) + w2 * (y - y2) + w3 * (y - y3) = 0
      BY <1>1, <1>4, <2>0, <2>00, Barycentric
    <2>2. /\ x - x1 \in Int /\ x - x2 \in Int /\ x - x3 \in Int
          /\ y - y1 \in Int /\ y - y2 \in Int /\ y - y3 \in Int
      BY <1>1, <2>0
    <2> SUFFICES ASSUME a # 0, Inside(t, p)
                 PROVE  /\ ~(x - x1 < 0 /\ x - x2 < 0 /\ x - x3 < 0)
                        /\ ~(x - x1 > 0 /\ x - x2 > 0 /\ x - x3 > 0)
                        /\ ~(y - y1 < 0 /\ y - y2 < 0 /\ y - y3 < 0)
                        /\ ~(y - y1 > 0 /\ y - y2 > 0 /\ y - y3 > 0)
      OBVIOUS
    <2>3. w1 + w2 + w3 # 0
      BY <2>1
    <2>4. (w1 >= 0 /\ w2 >= 0 /\ w3 >= 0) \/ (w1 <= 0 /\ w2 <= 0 /\ w3 <= 0)
      BY <1>5
    <2>5. \A d1, d2, d3 \in Int : w1 * d1 + w2 * d2 + w3 * d3 = 0 =>
            ~(d1 < 0 /\ d2 < 0 /\ d3 < 0) /\ ~(d1 > 0 /\ d2 > 0 /\ d3 > 0)
      BY <1>4, <2>3, <2>4, NotBelow
    <2>6. ~(x - x1 < 0 /\ x - x2 < 0 /\ x - x3 < 0) /\ ~(x - x1 > 0 /\ x - x2 > 0 /\ x - x3 > 0)
      BY <2>1, <2>2, <2>5, Zenon
    <2>7. ~(y - y1 < 0 /\ y - y2 < 0 /\ y - y3 < 0) /\ ~(y - y1 > 0 /\ y - y2 > 0 /\ y - y3 > 0)
      BY <2>1, <2>2, <2>5, Zenon
    <2> QED
      BY <2>6, <2>7
  <1>7. /\ Least(x1, x2, x3) \in {x1, x2, x3} /\ Least(x1, x2, x3) <= x1
        /\ Least(x1, x2, x3) <= x2 /\ Least(x1, x2, x3) <= x3
        /\ Greatest(x1, x2, x3) \in {x1, x2, x3} /\ Greatest(x1, x2, x3) >= x1
        /\ Greatest(x1, x2, x3) >= x2 /\ Greatest(x1, x2, x3) >= x3
        /\ Least(y1, y2, y3) \in {y1, y2, y3} /\ Least(y1, y2, y3) <= y1
        /\ Least(y1, y2, y3) <= y2 /\ Least(y1, y2, y3) <= y3
        /\ Greatest(y1, y2, y3) \in {y1, y2, y3} /\ Greatest(y1, y2, y3) >= y1
        /\ Greatest(y1, y2, y3) >= y2 /\ Greatest(y1, y2, y3) >= y3
    <2> HIDE DEF x1, x2, x3, y1, y2, y3
    <2> QED
      BY <1>1, LeastOf, GreatestOf
  <1> DEFINE lx == Least(x1, x2, x3)
             gx == Greatest(x1, x2, x3)
             ly == Least(y1, y2, y3)
             gy == Greatest(y1, y2, y3)
  <1>8. ASSUME a # 0, Inside(t, p)
        PROVE  lx <= x /\ x <= gx /\ ly <= y /\ y <= gy
    <2>0. x \in Int /\ y \in Int
      BY <1>2
    <2> HIDE DEF w1, w2, w3, x1, x2, x3, y1, y2, y3, a, x, y
    <2>1. \A i, v \in Int : (i - v < 0 <=> i < v) /\ (i - v > 0 <=> i > v)
      OBVIOUS
    <2>2. /\ ~(x < x1 /\ x < x2 /\ x < x3) /\ ~(x > x1 /\ x > x2 /\ x > x3)
          /\ ~(y < y1 /\ y < y2 /\ y < y3) /\ ~(y > y1 /\ y > y2 /\ y > y3)
      BY <1>1, <1>6, <1>8, <2>0, <2>1
    <2> QED
      BY <1>1, <1>7, <2>0, <2>2
  <1>9. lx \in Int /\ gx \in Int /\ ly \in Int /\ gy \in Int
    <2> HIDE DEF x1, x2, x3, y1, y2, y3
    <2> QED
      BY <1>1, <1>7
  <1>10. p \in GoldenBox(t) <=> lx <= x /\ x <= gx /\ ly <= y /\ y <= gy
    BY DEF GoldenBox, Places
  <1>11. lx <= x /\ x <= gx /\ ly <= y /\ y <= gy => InBox(t, p)
    <2>1. \A n \in Nat \ {0} : \A low, high \in Int : \A i \in 0 .. n - 1 :
            low <= i /\ i <= high => Clamp(low, 0, n - 1) <= i /\ i <= Clamp(high, 0, n - 1)
      BY DEF Clamp
    <2>2. MinX(t) = Clamp(lx, 0, W - 1) /\ MaxX(t) = Clamp(gx, 0, W - 1)
          /\ MinY(t) = Clamp(ly, 0, H - 1) /\ MaxY(t) = Clamp(gy, 0, H - 1)
      BY DEF MinX, MaxX, MinY, MaxY
    <2>3. x \in 0 .. W - 1 /\ y \in 0 .. H - 1
      BY <1>1
    <2> HIDE DEF lx, ly, gx, gy
    <2> QED
      BY <1>2, <1>9, <2>1, <2>2, <2>3 DEF InBox
  <1> HIDE DEF lx, ly, gx, gy, x, y, a
  <1> QED
    BY <1>8, <1>10, <1>11 DEF Covered, a

\* Pixels of other rows than y come before or after those of row y.
LEMMA RowOrder ==
  ASSUME NEW w \in Nat, NEW x \in Nat, NEW y \in Nat, NEW low \in Nat, NEW high \in Nat,
         NEW row \in Nat, low <= x, x <= high
  PROVE  /\ y <= row => y * w + x <= row * w + high
         /\ y >= row => y * w + x >= row * w + low
  <1>1. y * w \in Nat /\ row * w \in Nat
    OBVIOUS
  <1>2. y <= row => y * w <= row * w
    BY ProductsOrder
  <1>3. y >= row => row * w <= y * w
    BY ProductsOrder
  <1> DEFINE a == y * w
             b == row * w
  <1> HIDE DEF a, b
  <1>4. a \in Nat /\ b \in Nat /\ (y <= row => a <= b) /\ (y >= row => b <= a)
    BY <1>1, <1>2, <1>3 DEF a, b
  <1>5. (y <= row => a + x <= b + high) /\ (y >= row => a + x >= b + low)
    BY <1>4
  <1> QED
    BY <1>5 DEF a, b

\* Between the end of a row of the box and the start of the next there is nothing to draw,
\* nor before the first row, nor after the last.
LEMMA OutsideBox ==
  ASSUME NEW t \in [1 .. 3 -> VertexWords], NEW y \in 0 .. H - 1
  PROVE  /\ PixelsBefore(t, MinY(t) * W + MinX(t)) = << >>
         /\ y + 1 <= H - 1 =>
              PixelsBefore(t, (y + 1) * W + MinX(t)) = PixelsBefore(t, y * W + MaxX(t) + 1)
         /\ PixelsBefore(t, W * H) = PixelsBefore(t, MaxY(t) * W + MaxX(t) + 1)
  <1> DEFINE n == W * H
             a == MinX(t)
             b == MaxX(t)
             c == MinY(t)
             d == MaxY(t)
  <1>1. /\ a \in 0 .. W - 1 /\ b \in 0 .. W - 1 /\ a <= b
        /\ c \in 0 .. H - 1 /\ d \in 0 .. H - 1 /\ c <= d
    BY BoxOnTarget
  <1>2. W \in Nat \ {0} /\ H \in Nat \ {0} /\ n \in Nat
    BY TargetSize
  <1>3. \A i \in 0 .. n - 1 : Covered(t, PixelAt(i)) =>
          \E px, py \in Nat : i = py * W + px /\ a <= px /\ px <= b /\ c <= py /\ py <= d
    <2> TAKE i \in 0 .. n - 1
    <2> HAVE Covered(t, PixelAt(i))
    <2>1. PixelAt(i) \in Places /\ PixelAt(i).x = i % W /\ PixelAt(i).y = i \div W
          /\ i = (i \div W) * W + (i % W)
      BY PlaceAt
    <2>2. PixelAt(i).x \in Nat /\ PixelAt(i).y \in Nat /\ i = PixelAt(i).y * W + PixelAt(i).x
      <3>1. PixelAt(i).x \in 0 .. W - 1 /\ PixelAt(i).y \in 0 .. H - 1
        BY <2>1 DEF Places
      <3> QED
        BY <2>1, <3>1
    <2>3. InBox(t, PixelAt(i))
      BY <2>1, CoveredIs
    <2> QED
      BY <2>2, <2>3 DEF InBox
  <1> DEFINE C(i) == Covered(t, PixelAt(i))
  <1> HIDE DEF a, b, c, d, n, C
  <1>4. \A i \in 0 .. n - 1 : C(i) =>
          \E px, py \in Nat : i = py * W + px /\ a <= px /\ px <= b /\ c <= py /\ py <= d
    BY <1>3 DEF C
  <1>5. \A x, yy, low, high, row \in Nat : low <= x /\ x <= high =>
          /\ yy <= row => yy * W + x <= row * W + high
          /\ yy >= row => yy * W + x >= row * W + low
    BY <1>2, RowOrder
  <1>6. \A i \in 0 .. n - 1 : C(i) => c * W + a <= i /\ i <= d * W + b
    <2> TAKE i \in 0 .. n - 1
    <2> HAVE C(i)
    <2>1. PICK px, py \in Nat : i = py * W + px /\ a <= px /\ px <= b /\ c <= py /\ py <= d
      BY <1>4
    <2>2. a \in Nat /\ b \in Nat /\ c \in Nat /\ d \in Nat
      BY <1>1
    <2>3. py * W + px <= d * W + b
      BY <1>5, <2>1, <2>2
    <2>4. py * W + px >= c * W + a
      BY <1>5, <2>1, <2>2
    <2> QED
      BY <2>1, <2>3, <2>4
  <1>7. \A i \in 0 .. n - 1 : C(i) => i <= y * W + b \/ i >= (y + 1) * W + a
    <2> TAKE i \in 0 .. n - 1
    <2> HAVE C(i)
    <2>1. PICK px, py \in Nat : i = py * W + px /\ a <= px /\ px <= b /\ c <= py /\ py <= d
      BY <1>4
    <2>2. a \in Nat /\ b \in Nat /\ y \in Nat /\ y + 1 \in Nat /\ (py <= y \/ py >= y + 1)
      BY <1>1
    <2>3. py <= y => py * W + px <= y * W + b
      BY <1>5, <2>1, <2>2
    <2>4. py >= y + 1 => py * W + px >= (y + 1) * W + a
      <3> DEFINE z == y + 1
      <3>0. z \in Nat
        BY <2>2
      <3> HIDE DEF z
      <3>1. py >= z => py * W + px >= z * W + a
        BY <1>5, <2>1, <2>2, <3>0
      <3> QED
        BY <3>1 DEF z
    <2> QED
      BY <2>1, <2>2, <2>3, <2>4
  <1>8. \A x, yy \in Nat : x \in 0 .. W - 1 /\ yy \in 0 .. H - 1 => yy * W + x \in 0 .. n - 1
    BY PixelIndex DEF Pixels, n
  <1>9. /\ c * W + a \in 0 .. n - 1 /\ y * W + b \in 0 .. n - 1 /\ d * W + b \in 0 .. n - 1
        /\ y + 1 <= H - 1 => (y + 1) * W + a \in 0 .. n - 1
    <2>1. a \in Nat /\ b \in Nat /\ c \in Nat /\ d \in Nat /\ y \in Nat /\ y + 1 \in Nat
          /\ (y + 1 <= H - 1 => y + 1 \in 0 .. H - 1)
      BY <1>1
    <2> QED
      BY <1>1, <1>8, <2>1
  <1> DEFINE B(k) == PixelsBefore(t, k)
  <1>10. \A k, m \in 0 .. n : k <= m /\ (\A i \in k .. m - 1 : ~C(i)) => B(m) = B(k)
    BY PixelsNone DEF n, C
  <1>11. B(0) = << >>
    BY PixelsRecur
  <1> HIDE DEF B
  <1>12. B(c * W + a) = << >>
    <2> DEFINE k == c * W + a
    <2>1. k \in 0 .. n - 1 /\ \A i \in 0 .. n - 1 : C(i) => k <= i
      BY <1>6, <1>9
    <2> HIDE DEF k
    <2>2. k \in 0 .. n /\ 0 \in 0 .. n /\ 0 <= k /\ \A i \in 0 .. k - 1 : ~C(i)
      BY <1>2, <2>1
    <2>3. B(k) = B(0)
      BY <1>10, <2>2, Zenon
    <2> QED
      BY <1>11, <2>3 DEF k
  <1>13. B(n) = B(d * W + b + 1)
    <2> DEFINE k == d * W + b
               m == k + 1
    <2>1. k \in 0 .. n - 1 /\ \A i \in 0 .. n - 1 : C(i) => i <= k
      BY <1>6, <1>9
    <2> HIDE DEF k
    <2>2. m \in 0 .. n /\ n \in 0 .. n /\ m <= n /\ \A i \in m .. n - 1 : ~C(i)
      BY <1>2, <2>1
    <2> HIDE DEF m
    <2>3. B(n) = B(m)
      BY <1>10, <2>2, Zenon
    <2> QED
      BY <2>3 DEF k, m
  <1>14. ASSUME y + 1 <= H - 1 PROVE B((y + 1) * W + a) = B(y * W + b + 1)
    <2> DEFINE j == y * W + b
               k == j + 1
               m == (y + 1) * W + a
    <2>0. y * W + b < (y + 1) * W + a
      <3>1. (y + 1) * W = y * W + W /\ y * W \in Nat
        BY <1>2
      <3> DEFINE e == y * W
                 f == (y + 1) * W
      <3> HIDE DEF e, f
      <3>2. f = e + W /\ e \in Nat
        BY <3>1 DEF e, f
      <3>3. e + b < f + a
        BY <3>2, <1>1, <1>2
      <3> QED
        BY <3>3 DEF e, f
    <2>1. j \in 0 .. n - 1 /\ m \in 0 .. n - 1 /\ j < m /\ \A i \in 0 .. n - 1 : C(i) => i <= j \/ i >= m
      BY <1>7, <1>9, <1>14, <2>0
    <2> HIDE DEF j, m
    <2>2. k \in 0 .. n /\ m \in 0 .. n /\ k <= m /\ \A i \in k .. m - 1 : ~C(i)
      BY <1>2, <2>1
    <2> HIDE DEF k
    <2>3. B(m) = B(k)
      BY <1>10, <2>2, Zenon
    <2> QED
      BY <2>3 DEF j, k, m
  <1> QED
    BY <1>12, <1>13, <1>14 DEF a, b, c, d, n, B

\* A clock of the scan: it draws the pixel the golden model draws next, or one that it does not
\* draw, and the pixels before its new place are those before the old and that one.
DrawnHere(r) == Inside(r.tri.t, Here(r)) /\ Persp(r.tri.t, Here(r)) # 0
Passed(r) == IF r.st = "SCAN" THEN PixelsBefore(r.tri.t, Pidx(r)) ELSE GoldenPixels(r.tri.t)

LEMMA HereCovered ==
  ASSUME NEW r, RasterOK(r), r.st = "SCAN", ~Culled(r.tri)
  PROVE  Here(r) \in Places /\ (Covered(r.tri.t, Here(r)) <=> DrawnHere(r))
  <1> DEFINE t == r.tri.t
  <1>1. /\ t \in [1 .. 3 -> VertexWords] /\ r.px \in 0 .. W - 1 /\ r.py \in 0 .. H - 1
        /\ MinX(t) <= r.px /\ r.px <= MaxX(t) /\ MinY(t) <= r.py /\ r.py <= MaxY(t)
    BY DEF RasterOK, RasterRecords, Submission
  <1>2. Here(r) \in Places
    BY <1>1, PlaceIs DEF Here, Pidx, Places
  <1>3. Area(t) # 0
    BY DEF Culled
  <1> QED
    BY <1>1, <1>2, <1>3, CoveredIs DEF DrawnHere

LEMMA ScanPasses ==
  ASSUME NEW r, RasterOK(r), r.st = "SCAN", ~Culled(r.tri)
  PROVE  /\ Passed(Scan(r)) = IF DrawnHere(r) THEN Append(Passed(r), Here(r)) ELSE Passed(r)
         /\ Scan(r).tri = r.tri /\ Scan(r).frags = Plot(r).frags /\ Scan(r).fb = Plot(r).fb
         /\ Here(r) \in Places /\ Pidx(r) \in Pixels /\ Pidx(r) = Here(r).y * W + Here(r).x
  <1> DEFINE t == r.tri.t
             q == Plot(r)
             s == Scan(r)
  <1>1. /\ r \in RasterRecords /\ r.tri \in Submission /\ t \in [1 .. 3 -> VertexWords]
        /\ r.px \in 0 .. W - 1 /\ r.py \in 0 .. H - 1
        /\ MinX(t) <= r.px /\ r.px <= MaxX(t) /\ MinY(t) <= r.py /\ r.py <= MaxY(t)
    BY DEF RasterOK, RasterRecords, Submission
  <1>2. /\ q \in RasterRecords /\ q.st = "SCAN" /\ q.tri = r.tri /\ RasterOK(q)
    BY PlotKeeps DEF RasterOK
  <1>3. q.px = r.px /\ q.py = r.py
    BY <1>1 DEF Plot, RasterRecords
  <1>4. s = Advance(q)
    BY <1>1, ScanIs
  <1>5. Here(r) \in Places /\ Pidx(r) \in 0 .. W * H - 1 /\ PixelAt(Pidx(r)) = Here(r)
    BY <1>1, PlaceIs DEF Here, Pidx, Places
  <1>6. Pidx(r) = Here(r).y * W + Here(r).x
    BY DEF Here, Pidx
  <1>7. Covered(t, Here(r)) <=> DrawnHere(r)
    BY HereCovered
  <1>8. PixelsBefore(t, Pidx(r) + 1) =
          IF DrawnHere(r) THEN Append(PixelsBefore(t, Pidx(r)), Here(r)) ELSE PixelsBefore(t, Pidx(r))
    BY <1>5, <1>7, PixelsRecur
  <1>9. /\ MinX(t) \in 0 .. W - 1 /\ MaxX(t) \in 0 .. W - 1
        /\ MinY(t) \in 0 .. H - 1 /\ MaxY(t) \in 0 .. H - 1
    BY <1>1, BoxOnTarget
  <1>10. s.tri = r.tri /\ s.frags = q.frags /\ s.fb = q.fb
    BY <1>2, <1>4 DEF Advance, RasterRecords
  <1>11. Passed(s) = PixelsBefore(t, Pidx(r) + 1)
    <2>0. \/ s = [q EXCEPT !.px = q.px + 1]
          \/ s = [q EXCEPT !.px = MinX(t), !.st = "IDLE"] /\ q.px = MaxX(t) /\ q.py = MaxY(t)
          \/ s = [q EXCEPT !.px = MinX(t), !.py = q.py + 1] /\ q.px = MaxX(t) /\ q.py # MaxY(t)
      BY <1>2, <1>4 DEF Advance
    <2>00. W \in Nat \ {0} /\ H \in Nat \ {0} /\ \A y \in 0 .. H - 1 : y * W \in Nat
      BY TargetSize
    <2>1. CASE s = [q EXCEPT !.px = q.px + 1]
      <3>1. s.st = "SCAN" /\ s.px = r.px + 1 /\ s.py = r.py
        BY <1>2, <1>3, <2>1 DEF RasterRecords
      <3>2. Pidx(s) = Pidx(r) + 1
        BY <1>1, <2>00, <3>1 DEF Pidx
      <3> QED
        BY <1>10, <3>1, <3>2 DEF Passed
    <2>2. CASE s = [q EXCEPT !.px = MinX(t), !.st = "IDLE"] /\ q.px = MaxX(t) /\ q.py = MaxY(t)
      <3>1. s.st = "IDLE"
        BY <1>2, <2>2 DEF RasterRecords
      <3>2. Pidx(r) = MaxY(t) * W + MaxX(t)
        BY <1>3, <2>2 DEF Pidx
      <3>3. Passed(s) = PixelsBefore(t, W * H)
        BY <1>10, <3>1 DEF Passed, GoldenPixels
      <3>4. PixelsBefore(t, W * H) = PixelsBefore(t, MaxY(t) * W + MaxX(t) + 1)
        BY <1>1, <1>9, OutsideBox
      <3> QED
        BY <3>2, <3>3, <3>4
    <2>3. CASE s = [q EXCEPT !.px = MinX(t), !.py = q.py + 1] /\ q.px = MaxX(t) /\ q.py # MaxY(t)
      <3>1. s.st = "SCAN" /\ s.px = MinX(t) /\ s.py = r.py + 1
        BY <1>2, <1>3, <2>3 DEF RasterRecords
      <3>2. Pidx(r) = r.py * W + MaxX(t) /\ Pidx(s) = (r.py + 1) * W + MinX(t)
        BY <1>3, <2>3, <3>1 DEF Pidx
      <3>3. r.py + 1 <= H - 1
        <4>1. r.py # MaxY(t) /\ r.py \in 0 .. H - 1 /\ r.py <= MaxY(t) /\ MaxY(t) \in 0 .. H - 1
          BY <1>1, <1>3, <1>9, <2>3
        <4>2. \A n \in Nat \ {0} : \A i, m \in 0 .. n - 1 : i # m /\ i <= m => i + 1 <= n - 1
          OBVIOUS
        <4> QED
          BY <2>00, <4>1, <4>2
      <3>4. PixelsBefore(t, (r.py + 1) * W + MinX(t)) = PixelsBefore(t, r.py * W + MaxX(t) + 1)
        BY <1>1, <3>3, OutsideBox
      <3>5. Passed(s) = PixelsBefore(t, Pidx(s))
        BY <1>10, <3>1 DEF Passed
      <3> QED
        BY <3>2, <3>4, <3>5
    <2> QED
      BY <2>0, <2>1, <2>2, <2>3
  <1> QED
    BY <1>5, <1>6, <1>8, <1>10, <1>11 DEF Passed, Pixels

\* A scan starts with nothing passed.
LEMMA ScanStarts ==
  ASSUME NEW r, RasterOK(r), NEW tri \in Submission
  PROVE  Submitted(r, tri).st = "SCAN" /\ Submitted(r, tri).tri = tri /\ Passed(Submitted(r, tri)) = << >>
         /\ Submitted(r, tri).fb = r.fb /\ Submitted(r, tri).frags = r.frags
  <1> DEFINE s == Submitted(r, tri)
  <1>1. r \in RasterRecords /\ tri.t \in [1 .. 3 -> VertexWords]
    BY DEF RasterOK, Submission
  <1>2. s.st = "SCAN" /\ s.tri = tri /\ s.px = MinX(tri.t) /\ s.py = MinY(tri.t)
        /\ s.fb = r.fb /\ s.frags = r.frags
    BY <1>1 DEF Submitted, RasterRecords
  <1>3. Passed(s) = PixelsBefore(tri.t, MinY(tri.t) * W + MinX(tri.t))
    BY <1>2 DEF Passed, Pidx
  <1>4. MinY(tri.t) \in 0 .. H - 1
    BY <1>1, BoxOnTarget
  <1> QED
    BY <1>1, <1>2, <1>3, <1>4, OutsideBox DEF s

-----------------------------------------------------------------------------
\* The triangles of a draw call, and what fits the fragment buffer.

\* The recursion over the triangles of a draw call.
Joined(f, ts, how, k) ==
  /\ f = [n \in 0 .. k |-> f[n]] /\ f[0] = << >>
  /\ \A n \in 1 .. k : f[n] = f[n - 1] \o ShadedWrites(ts[n], how)

JoinOf(f, ts, how) ==
  f = [n \in 0 .. Len(ts) |->
         IF n = 0 THEN << >> ELSE f[n - 1] \o ShadedWrites(ts[n], how)]

LEMMA JoinedExists ==
  ASSUME NEW ts, NEW how, NEW k \in Nat
  PROVE  \E f : Joined(f, ts, how, k)
  <1> DEFINE T == {n \in Nat : \E f : Joined(f, ts, how, n)}
  <1>1. 0 \in T
    <2> DEFINE f == [n \in 0 .. 0 |-> << >>]
    <2>1. f = [n \in 0 .. 0 |-> f[n]] /\ f[0] = << >> /\ 1 .. 0 = {}
      OBVIOUS
    <2>2. Joined(f, ts, how, 0)
      BY <2>1 DEF Joined
    <2> QED
      BY <2>2
  <1>2. ASSUME NEW n \in T PROVE n + 1 \in T
    <2>1. PICK f : Joined(f, ts, how, n)
      OBVIOUS
    <2> DEFINE v == f[n] \o ShadedWrites(ts[n + 1], how)
               g == [i \in 0 .. n + 1 |-> IF i = n + 1 THEN v ELSE f[i]]
    <2>2. n \in Nat
      OBVIOUS
    <2>3. g = [i \in 0 .. n + 1 |-> g[i]]
      OBVIOUS
    <2>4. g[n + 1] = v /\ \A i \in 0 .. n : g[i] = f[i]
      BY <2>2
    <2> HIDE DEF g
    <2>5. \A i \in 1 .. n + 1 : \/ i = n + 1 /\ i - 1 = n
                                \/ i \in 1 .. n /\ i - 1 \in 0 .. n /\ i \in 0 .. n
      BY <2>2
    <2>6. g[0] = << >> /\ n \in 0 .. n
      BY <2>1, <2>2, <2>4 DEF Joined
    <2>7. \A i \in 1 .. n + 1 : g[i] = g[i - 1] \o ShadedWrites(ts[i], how)
      <3> SUFFICES ASSUME NEW i \in 1 .. n + 1 PROVE g[i] = g[i - 1] \o ShadedWrites(ts[i], how)
        OBVIOUS
      <3>1. CASE i = n + 1 /\ i - 1 = n
        BY <3>1, <2>4, <2>6, Zenon
      <3>2. CASE i \in 1 .. n /\ i - 1 \in 0 .. n /\ i \in 0 .. n
        BY <3>2, <2>1, <2>4, Zenon DEF Joined
      <3> QED
        BY <3>1, <3>2, <2>5
    <2>8. Joined(g, ts, how, n + 1)
      BY <2>3, <2>6, <2>7, Zenon DEF Joined
    <2> QED
      BY <2>2, <2>8
  <1>3. T \in SUBSET Nat
    OBVIOUS
  <1> HIDE DEF T
  <1>4. T = Nat
    BY <1>1, <1>2, <1>3, Induction
  <1> QED
    BY <1>4 DEF T

\* The writes of the first k + 1 triangles are those of the first k, and the next one's.
LEMMA TrianglesRecur ==
  ASSUME NEW ts, NEW how, Len(ts) \in Nat
  PROVE  /\ TrianglesWrites(ts, how, 0) = << >>
         /\ \A k \in 0 .. Len(ts) - 1 :
              TrianglesWrites(ts, how, k + 1) = TrianglesWrites(ts, how, k) \o ShadedWrites(ts[k + 1], how)
  <1> DEFINE c == CHOOSE f : JoinOf(f, ts, how)
             m == Len(ts)
  <1>1. \A k : TrianglesWrites(ts, how, k) = c[k]
    BY Zenon DEF TrianglesWrites, JoinOf
  <1>2. \E f : JoinOf(f, ts, how)
    <2>2. PICK f : Joined(f, ts, how, m)
      BY JoinedExists
    <2>3. f = [n \in 0 .. m |-> f[n]] /\ f[0] = << >> /\ m \in Nat
      BY <2>2 DEF Joined
    <2>4. \A n \in 1 .. m : f[n] = f[n - 1] \o ShadedWrites(ts[n], how)
      BY <2>2 DEF Joined
    <2> HIDE DEF m
    <2>5. \A n \in 0 .. m : n = 0 \/ (n \in 1 .. m /\ n # 0)
      BY <2>3
    <2>6. \A n \in 0 .. m : f[n] = IF n = 0 THEN << >> ELSE f[n - 1] \o ShadedWrites(ts[n], how)
      BY <2>3, <2>4, <2>5, Zenon
    <2>7. f = [n \in 0 .. m |-> IF n = 0 THEN << >> ELSE f[n - 1] \o ShadedWrites(ts[n], how)]
      BY <2>3, <2>6
    <2>8. JoinOf(f, ts, how)
      BY <2>7 DEF JoinOf, m
    <2> QED
      BY <2>8
  <1>3. JoinOf(c, ts, how)
    BY <1>2, Zenon
  <1> HIDE DEF c
  <1>4. \A n \in 0 .. m : c[n] = IF n = 0 THEN << >> ELSE c[n - 1] \o ShadedWrites(ts[n], how)
    BY <1>3 DEF JoinOf
  <1>5. m \in Nat
    OBVIOUS
  <1> HIDE DEF m
  <1>6. 0 \in 0 .. m /\ \A k \in 0 .. m - 1 : k + 1 \in 0 .. m /\ k + 1 # 0 /\ k + 1 - 1 = k
    BY <1>5
  <1>7. c[0] = << >>
    BY <1>4, <1>6, Zenon
  <1>8. ASSUME NEW k \in 0 .. m - 1
        PROVE  c[k + 1] = c[k] \o ShadedWrites(ts[k + 1], how)
    <2>1. k + 1 \in 0 .. m /\ k + 1 # 0 /\ k + 1 - 1 = k
      BY <1>6
    <2> DEFINE n == k + 1
               i == n - 1
    <2>2. n \in 0 .. m /\ n # 0 /\ i = k
      BY <2>1
    <2>3. c[n] = IF n = 0 THEN << >> ELSE c[i] \o ShadedWrites(ts[n], how)
      BY <2>1, <1>4, Zenon
    <2> HIDE DEF n, i
    <2>4. c[n] = c[k] \o ShadedWrites(ts[n], how)
      BY <2>2, <2>3, Zenon
    <2> QED
      BY <2>4 DEF n
  <1> QED
    BY <1>1, <1>7, <1>8 DEF m

\* What is left of a sequence.
LEMMA RemainingOf ==
  ASSUME NEW S, NEW s \in Seq(S), NEW n \in Nat
  PROVE  /\ Remaining(s, 0) = s
         /\ n >= Len(s) => Remaining(s, n) = << >>
         /\ n < Len(s) => /\ Remaining(s, n) # << >> /\ Head(Remaining(s, n)) = s[n + 1]
                          /\ Tail(Remaining(s, n)) = Remaining(s, n + 1)
  <1>1. Remaining(s, 0) = s
    BY DEF Remaining
  <1>2. n >= Len(s) => Remaining(s, n) = << >>
    BY DEF Remaining
  <1>3. ASSUME n < Len(s)
        PROVE  /\ Remaining(s, n) # << >> /\ Head(Remaining(s, n)) = s[n + 1]
               /\ Tail(Remaining(s, n)) = Remaining(s, n + 1)
    <2> DEFINE m == Len(s)
               r == Remaining(s, n)
               u == Remaining(s, n + 1)
    <2>1. m \in Nat /\ n < m
      BY <1>3
    <2>2. /\ r \in Seq(S) /\ Len(r) = m - n /\ \A i \in 1 .. m - n : r[i] = s[n + i]
      <3>1. n + 1 \in 1 .. m /\ m \in 1 .. m
        BY <2>1
      <3> QED
        BY <2>1 DEF Remaining
    <2>3. /\ u \in Seq(S) /\ Len(u) = m - n - 1 /\ \A i \in 1 .. m - n - 1 : u[i] = s[n + 1 + i]
      BY <2>1 DEF Remaining
    <2>4. r # << >>
      BY <2>1, <2>2
    <2>5. Head(r) = s[n + 1]
      BY <2>1, <2>2, <2>4
    <2>6. Tail(r) \in Seq(S) /\ Len(Tail(r)) = m - n - 1 /\ \A i \in 1 .. m - n - 1 : Tail(r)[i] = r[i + 1]
      BY <2>1, <2>2, <2>4
    <2> HIDE DEF r, u, m
    <2>7. \A i \in 1 .. m - n - 1 : Tail(r)[i] = u[i]
      BY <2>1, <2>2, <2>3, <2>6
    <2>8. Tail(r) = u
      BY <2>3, <2>6, <2>7, SeqEqual
    <2> QED
      BY <2>4, <2>5, <2>8 DEF r, u
  <1> QED
    BY <1>1, <1>2, <1>3

\* What fits, when a write is added or not.
LEMMA FittingTypes ==
  ASSUME NEW S, NEW s \in Seq(S)
  PROVE  /\ Fitting(s) \in Seq(S) /\ Len(Fitting(s)) <= FragMax /\ Len(Fitting(s)) <= Len(s)
         /\ Len(Fitting(s)) \in Nat
         /\ Len(Fitting(s)) < FragMax => Fitting(s) = s
  <1>1. FragMax \in Nat
    BY TargetAssumption
  <1> QED
    BY <1>1 DEF Fitting

LEMMA FittingMore ==
  ASSUME NEW S, NEW s \in Seq(S), NEW w \in S
  PROVE  Fitting(Append(s, w)) =
           IF Len(Fitting(s)) < FragMax THEN Append(Fitting(s), w) ELSE Fitting(s)
  <1>1. FragMax \in Nat /\ Len(s) \in Nat /\ Append(s, w) \in Seq(S) /\ Len(Append(s, w)) = Len(s) + 1
    BY TargetAssumption
  <1>2. CASE Len(s) < FragMax
    BY <1>1, <1>2 DEF Fitting
  <1>3. CASE Len(s) >= FragMax
    <2>1. Fitting(s) = SubSeq(s, 1, FragMax) /\ Len(Fitting(s)) = FragMax
      BY <1>1, <1>3 DEF Fitting
    <2>2. Fitting(Append(s, w)) = SubSeq(Append(s, w), 1, FragMax)
      BY <1>1, <1>3 DEF Fitting
    <2>3. SubSeq(Append(s, w), 1, FragMax) = SubSeq(s, 1, FragMax)
      <3> DEFINE a == SubSeq(Append(s, w), 1, FragMax)
                 b == SubSeq(s, 1, FragMax)
      <3>1. a \in Seq(S) /\ Len(a) = FragMax /\ \A i \in 1 .. FragMax : a[i] = Append(s, w)[i]
        BY <1>1, <1>3
      <3>2. b \in Seq(S) /\ Len(b) = FragMax /\ \A i \in 1 .. FragMax : b[i] = s[i]
        BY <1>1, <1>3
      <3>3. \A i \in 1 .. FragMax : Append(s, w)[i] = s[i]
        BY <1>1, <1>3
      <3> HIDE DEF a, b
      <3>4. \A i \in 1 .. FragMax : a[i] = b[i]
        BY <3>1, <3>2, <3>3
      <3>5. a = b
        BY <3>1, <3>2, <3>4, SeqEqual
      <3> QED
        BY <3>5 DEF a, b
    <2>4. ~(Len(Fitting(s)) < FragMax)
      BY <1>1, <2>1
    <2> QED
      BY <2>1, <2>2, <2>3, <2>4, Zenon
  <1> QED
    BY <1>1, <1>2, <1>3

-----------------------------------------------------------------------------
\* The writes of pixels, as the host's triangles and as a draw call make them.

\* The writes of pixels of a triangle, drawn by the host or shaded for a draw call.
Triangles == [1 .. 3 -> VertexWords]
PlainAt(t, p, how) == FragmentWrite(p, Depth(t, p), Colour(t, p), how)
ShadedAt(t, p, how) ==
  FragmentWrite(p, Depth(t, p) % ZSpace, Shade(Texture(t, p), Colour(t, p) % ColourSpace), how)
AllPlain  == {PlainAt(t, p, how) : t \in Triangles, p \in Places, how \in Settings}
AllShaded == {ShadedAt(t, p, how) : t \in Triangles, p \in Places, how \in Settings}
PlainOf(t, how, px)  == [i \in 1 .. Len(px) |-> PlainAt(t, px[i], how)]
ShadedOf(t, how, px) == [i \in 1 .. Len(px) |-> ShadedAt(t, px[i], how)]

LEMMA WriteTypes ==
  ASSUME NEW t \in Triangles, NEW p \in Places, NEW how \in Settings
  PROVE  PlainAt(t, p, how) \in AllPlain /\ ShadedAt(t, p, how) \in AllShaded
  BY DEF AllPlain, AllShaded

LEMMA PlainTypes ==
  ASSUME NEW t \in Triangles, NEW how \in Settings, NEW px \in Seq(Places)
  PROVE  PlainOf(t, how, px) \in Seq(AllPlain) /\ Len(PlainOf(t, how, px)) = Len(px)
  <1>1. \A i \in 1 .. Len(px) : PlainAt(t, px[i], how) \in AllPlain
    BY WriteTypes
  <1> QED
    BY <1>1 DEF PlainOf

LEMMA ShadedTypes ==
  ASSUME NEW t \in Triangles, NEW how \in Settings, NEW px \in Seq(Places)
  PROVE  ShadedOf(t, how, px) \in Seq(AllShaded) /\ Len(ShadedOf(t, how, px)) = Len(px)
  <1>1. \A i \in 1 .. Len(px) : ShadedAt(t, px[i], how) \in AllShaded
    BY WriteTypes
  <1> QED
    BY <1>1 DEF ShadedOf

LEMMA ShadedMore ==
  ASSUME NEW t \in Triangles, NEW how \in Settings, NEW px \in Seq(Places), NEW p \in Places
  PROVE  ShadedOf(t, how, Append(px, p)) = Append(ShadedOf(t, how, px), ShadedAt(t, p, how))
  <1> DEFINE a == ShadedOf(t, how, Append(px, p))
             b == Append(ShadedOf(t, how, px), ShadedAt(t, p, how))
             n == Len(px) + 1
  <1>1. Append(px, p) \in Seq(Places) /\ Len(Append(px, p)) = n /\ n \in Nat
        /\ Append(px, p)[n] = p /\ \A i \in 1 .. n - 1 : Append(px, p)[i] = px[i]
    OBVIOUS
  <1>2. a \in Seq(AllShaded) /\ Len(a) = n
    BY <1>1, ShadedTypes
  <1>3. b \in Seq(AllShaded) /\ Len(b) = n
    BY ShadedTypes, WriteTypes
  <1>4. \A i \in 1 .. n : a[i] = b[i]
    <2>1. \A i \in 1 .. n : a[i] = ShadedAt(t, Append(px, p)[i], how)
      BY <1>1 DEF ShadedOf
    <2>2. \A i \in 1 .. n - 1 : ShadedOf(t, how, px)[i] = ShadedAt(t, px[i], how)
      BY DEF ShadedOf
    <2>3. \A i \in 1 .. n - 1 : b[i] = ShadedOf(t, how, px)[i]
      BY ShadedTypes, WriteTypes
    <2>4. b[n] = ShadedAt(t, p, how)
      BY ShadedTypes, WriteTypes
    <2> HIDE DEF a, b, n
    <2>5. \A i \in 1 .. n : i = n \/ i \in 1 .. n - 1
      BY <1>1
    <2> QED
      BY <1>1, <2>1, <2>2, <2>3, <2>4, <2>5
  <1> HIDE DEF a, b, n
  <1>5. a = b
    BY <1>2, <1>3, <1>4, SeqEqual
  <1> QED
    BY <1>5 DEF a, b

LEMMA GoldenTypes ==
  ASSUME NEW t \in Triangles, NEW k \in 0 .. W * H
  PROVE  /\ PixelsBefore(t, k) \in Seq(Places) /\ GoldenPixels(t) \in Seq(Places)
         /\ Begins(PixelsBefore(t, k), GoldenPixels(t))
  <1>1. W * H \in Nat /\ W * H \in 0 .. W * H
    BY TargetSize
  <1> QED
    BY <1>1, PixelsPrefix DEF GoldenPixels

\* A triangle without area has no pixels.
LEMMA NoArea ==
  ASSUME NEW t \in Triangles, Area(t) = 0, NEW k \in 0 .. W * H
  PROVE  PixelsBefore(t, k) = << >> /\ GoldenPixels(t) = << >>
  <1>1. W * H \in Nat /\ 0 \in 0 .. W * H /\ W * H \in 0 .. W * H
    BY TargetSize
  <1>2. \A p : ~Covered(t, p)
    BY DEF Covered
  <1>3. PixelsBefore(t, 0) = << >>
    BY PixelsRecur
  <1>4. \A m \in 0 .. W * H : PixelsBefore(t, m) = PixelsBefore(t, 0)
    <2> TAKE m \in 0 .. W * H
    <2> DEFINE z == 0
    <2>1. z \in 0 .. W * H /\ z <= m /\ \A i \in z .. m - 1 : ~Covered(t, PixelAt(i))
      BY <1>1, <1>2
    <2> HIDE DEF z
    <2>2. PixelsBefore(t, m) = PixelsBefore(t, z)
      BY <2>1, PixelsNone
    <2> QED
      BY <2>2 DEF z
  <1> QED
    BY <1>1, <1>3, <1>4 DEF GoldenPixels

\* The golden writes of whole triangles.
LEMMA TriangleIs ==
  ASSUME NEW t \in Triangles, NEW how \in Settings, NEW cull \in BOOLEAN
  PROVE  /\ ShadedWrites(t, how) = ShadedOf(t, how, GoldenPixels(t))
         /\ TriangleWrites(t, cull, how) \in Seq(AllPlain)
         /\ Area(t) = 0 \/ (cull /\ Area(t) < 0) => TriangleWrites(t, cull, how) = << >>
         /\ ~(cull /\ Area(t) < 0) => TriangleWrites(t, cull, how) = PlainOf(t, how, GoldenPixels(t))
  <1>0. W * H \in 0 .. W * H
    BY TargetSize
  <1>1. ShadedWrites(t, how) = ShadedOf(t, how, GoldenPixels(t))
    BY DEF ShadedWrites, ShadedOf, ShadedAt
  <1>2. ~(cull /\ Area(t) < 0) => TriangleWrites(t, cull, how) = PlainOf(t, how, GoldenPixels(t))
    BY DEF TriangleWrites, PlainOf, PlainAt
  <1>3. cull /\ Area(t) < 0 => TriangleWrites(t, cull, how) = << >>
    BY DEF TriangleWrites
  <1>4. PlainOf(t, how, GoldenPixels(t)) \in Seq(AllPlain)
    BY <1>0, GoldenTypes, PlainTypes
  <1>5. ASSUME Area(t) = 0 PROVE PlainOf(t, how, GoldenPixels(t)) = << >>
    <2>1. GoldenPixels(t) = << >>
      BY <1>0, <1>5, NoArea
    <2>2. PlainOf(t, how, << >>) = << >>
      BY DEF PlainOf
    <2> QED
      BY <2>1, <2>2
  <1>6. Area(t) = 0 \/ (cull /\ Area(t) < 0) => TriangleWrites(t, cull, how) = << >>
    <2> DEFINE away == cull /\ Area(t) < 0
    <2> HIDE DEF away
    <2>1. ~away => TriangleWrites(t, cull, how) = PlainOf(t, how, GoldenPixels(t))
      BY <1>2, Zenon DEF away
    <2>2. away => TriangleWrites(t, cull, how) = << >>
      BY <1>3, Zenon DEF away
    <2>3. Area(t) = 0 \/ away => TriangleWrites(t, cull, how) = << >>
      BY <2>1, <2>2, <1>5, Zenon
    <2> QED
      BY <2>3, Zenon DEF away
  <1>7. << >> \in Seq(AllPlain)
    OBVIOUS
  <1>8. TriangleWrites(t, cull, how) \in Seq(AllPlain)
    BY <1>2, <1>3, <1>4, <1>7, Zenon
  <1> QED
    BY <1>1, <1>2, <1>6, <1>8, Zenon

LEMMA TrianglesTyped ==
  ASSUME NEW ts \in Seq(Triangles), NEW how \in Settings, NEW k \in 0 .. Len(ts)
  PROVE  TrianglesWrites(ts, how, k) \in Seq(AllShaded)
  <1> DEFINE J(n) == TrianglesWrites(ts, how, n)
             Z(n) == ShadedWrites(ts[n], how)
             m == Len(ts)
             T == {n \in Nat : n <= m => J(n) \in Seq(AllShaded)}
  <1>1. m \in Nat
    OBVIOUS
  <1>2. J(0) = << >> /\ \A n \in 0 .. m - 1 : J(n + 1) = J(n) \o Z(n + 1)
    BY <1>1, TrianglesRecur, Zenon
  <1>3. \A n \in 1 .. m : Z(n) \in Seq(AllShaded)
    <2> TAKE n \in 1 .. m
    <2>1. ts[n] \in Triangles /\ W * H \in 0 .. W * H /\ FALSE \in BOOLEAN
      BY TargetSize
    <2> QED
      BY <2>1, GoldenTypes, TriangleIs, ShadedTypes
  <1> HIDE DEF J, Z, m
  <1>4. 0 \in T
    <2>1. << >> \in Seq(AllShaded) /\ 0 \in Nat
      OBVIOUS
    <2>2. J(0) \in Seq(AllShaded)
      BY <1>2, <2>1, Zenon
    <2> QED
      BY <2>1, <2>2
  <1>5. ASSUME NEW n \in T PROVE n + 1 \in T
    <2>1. n \in Nat /\ (n <= m => J(n) \in Seq(AllShaded))
      OBVIOUS
    <2>2. ASSUME n + 1 <= m PROVE J(n + 1) \in Seq(AllShaded)
      <3>1. n \in 0 .. m - 1 /\ n + 1 \in 1 .. m /\ J(n) \in Seq(AllShaded)
        BY <1>1, <2>1, <2>2
      <3>2. J(n + 1) = J(n) \o Z(n + 1) /\ Z(n + 1) \in Seq(AllShaded)
        BY <1>2, <1>3, <3>1
      <3>3. \A a, b \in Seq(AllShaded) : a \o b \in Seq(AllShaded)
        OBVIOUS
      <3> QED
        BY <3>1, <3>2, <3>3, Zenon
    <2> QED
      BY <2>1, <2>2
  <1>6. T \in SUBSET Nat
    OBVIOUS
  <1> HIDE DEF T
  <1>7. T = Nat
    BY <1>4, <1>5, <1>6, Induction
  <1>8. k \in T
    BY <1>7
  <1> QED
    BY <1>1, <1>8 DEF T, J, m

-----------------------------------------------------------------------------
\* The host's commands, clock by clock, against the golden model's writes.

\* One write of the golden model, from what is left before it to what is left after.
OneWrite(fb1, before, fb2, after) ==
  /\ before # << >> /\ after = Tail(before)
  /\ fb2 = [fb1 EXCEPT ![Head(before).pidx] = Golden!Written(fb1[Head(before).pidx], Head(before))]

LEMMA WriteOf ==
  ASSUME NEW S, NEW all \in Seq(S), NEW n \in Nat, n < Len(all), NEW fb1, NEW fb2,
         fb2 = [fb1 EXCEPT ![all[n + 1].pidx] = Golden!Written(fb1[all[n + 1].pidx], all[n + 1])]
  PROVE  OneWrite(fb1, Remaining(all, n), fb2, Remaining(all, n + 1))
  <1>1. /\ Remaining(all, n) # << >> /\ Head(Remaining(all, n)) = all[n + 1]
        /\ Tail(Remaining(all, n)) = Remaining(all, n + 1)
    BY RemainingOf
  <1> QED
    BY <1>1, Zenon DEF OneWrite

\* The golden model's output unit is the device's on a colour cut to its range, unless it is
\* to blend a colour out of it.
LEMMA WrittenIs ==
  ASSUME NEW d \in Texel, NEW z \in Int, NEW c \in Int, NEW how \in Settings,
         how.blend => c \in Colours,
         NEW w, ~w.clear, w.z = z, w.rgb = c, w.how = how
  PROVE  Golden!Written(d, w) = Rop(d, z, c % ColourSpace, how)
  <1> DEFINE a == how.alpha
             sum == c * a + d.rgb * (MaxAlpha - a)
             blended == Golden!Quotient(sum, MaxAlpha)
  <1>1. d.rgb \in Colours /\ a \in 0 .. MaxAlpha
    BY DEF Texel, Colours, Settings
  <1>2. \A k \in Colours : k % ColourSpace = k
    BY TargetAssumption DEF Colours
  <1>3. Golden!Put(d, w) =
          IF z < d.z
          THEN [z   |-> IF how.dwrite THEN z ELSE d.z,
                rgb |-> (IF how.blend THEN blended ELSE c) % ColourSpace]
          ELSE d
    BY DEF Golden!Put
  <1>4. ASSUME how.blend PROVE blended % ColourSpace = Mix(c % ColourSpace, d.rgb, a)
    <2>1. c \in Colours /\ c % ColourSpace = c
      BY <1>2, <1>4
    <2>2. sum \in Nat /\ Mix(c, d.rgb, a) \in Colours
      BY <1>1, <2>1, MixType
    <2>3. \A n \in Nat : Golden!Quotient(n, MaxAlpha) = n \div MaxAlpha
      BY TargetAssumption DEF Golden!Quotient
    <2> HIDE DEF sum
    <2>4. blended = sum \div MaxAlpha
      BY <2>2, <2>3
    <2>5. Mix(c, d.rgb, a) = sum \div MaxAlpha
      BY DEF Mix, sum
    <2> HIDE DEF blended
    <2> QED
      BY <1>2, <2>1, <2>2, <2>4, <2>5
  <1> HIDE DEF blended, sum
  <1>5. Golden!Written(d, w) = Golden!Put(d, w)
    BY DEF Golden!Written
  <1> QED
    BY <1>3, <1>4, <1>5, Zenon DEF Rop, a

\* A clock of a clear is one write.
LEMMA ClearWrite ==
  ASSUME NEW r, RasterOK(r), r.st = "CLEAR", NEW colour \in Colours
  PROVE  LET s == ClearPixel(r, colour)
         IN  OneWrite(r.fb, Remaining(ClearWrites(colour), r.cidx), s.fb,
                      IF s.st = "CLEAR" THEN Remaining(ClearWrites(colour), s.cidx) ELSE << >>)
  <1> DEFINE s == ClearPixel(r, colour)
             all == ClearWrites(colour)
             m == W * H
             k == r.cidx
  <1>1. m \in Nat \ {0} /\ k \in 0 .. m - 1
    <2>1. r.cidx \in Pixels
      BY DEF RasterOK, RasterRecords
    <2> QED
      BY <2>1, TargetSize DEF Pixels
  <1> DEFINE ws == {[pidx |-> i - 1, clear |-> TRUE, rgb |-> colour] : i \in 1 .. m}
  <1>2. all = [i \in 1 .. m |-> [pidx |-> i - 1, clear |-> TRUE, rgb |-> colour]]
    BY DEF ClearWrites
  <1> HIDE DEF m, all
  <1>3. all \in Seq(ws) /\ Len(all) = m
    <2>1. \A i \in 1 .. m : [pidx |-> i - 1, clear |-> TRUE, rgb |-> colour] \in ws
      OBVIOUS
    <2> HIDE DEF ws
    <2>2. m \in Nat
      BY <1>1
    <2>3. all \in [1 .. m -> ws]
      BY <1>2, <2>1
    <2> QED
      BY <2>2, <2>3
  <1>4. all[k + 1] = [pidx |-> k, clear |-> TRUE, rgb |-> colour]
    <2> DEFINE j == k + 1
    <2>1. k \in 0 .. m - 1 /\ m \in Nat \ {0}
      BY <1>1
    <2> HIDE DEF k
    <2>2. j \in 1 .. m /\ j - 1 = k
      BY <2>1
    <2> HIDE DEF j
    <2>3. all[j] = [pidx |-> j - 1, clear |-> TRUE, rgb |-> colour]
      BY <1>2, <2>2, Zenon
    <2>4. all[j] = [pidx |-> k, clear |-> TRUE, rgb |-> colour]
      BY <2>2, <2>3, Zenon
    <2> QED
      BY <2>4 DEF j
  <1>5. /\ s.fb = [r.fb EXCEPT ![k] = [z |-> Far, rgb |-> colour]]
        /\ k = m - 1 => s.st = "IDLE"
        /\ k # m - 1 => s.st = "CLEAR" /\ s.cidx = k + 1
    BY DEF ClearPixel, RasterOK, RasterRecords, m
  <1>6. Golden!Written(r.fb[k], all[k + 1]) = [z |-> Far, rgb |-> colour]
    BY <1>4 DEF Golden!Written
  <1>7. OneWrite(r.fb, Remaining(all, k), s.fb, Remaining(all, k + 1))
    <2>1. k \in Nat /\ k < Len(all) /\ all[k + 1].pidx = k
      BY <1>1, <1>3, <1>4
    <2>2. s.fb = [r.fb EXCEPT ![all[k + 1].pidx] = Golden!Written(r.fb[all[k + 1].pidx], all[k + 1])]
      BY <1>5, <1>6, <2>1, Zenon
    <2> HIDE DEF k, s, ws
    <2> QED
      BY <1>3, <2>1, <2>2, WriteOf
  <1>8. k = m - 1 => Remaining(all, k + 1) = << >>
    <2> DEFINE j == k + 1
    <2>1. k = m - 1 => j \in Nat /\ j >= Len(all)
      BY <1>1, <1>3
    <2> HIDE DEF j, ws
    <2>2. k = m - 1 => Remaining(all, j) = << >>
      BY <1>3, <2>1, RemainingOf
    <2> QED
      BY <2>2 DEF j
  <1>9. (IF s.st = "CLEAR" THEN Remaining(all, s.cidx) ELSE << >>) = Remaining(all, k + 1)
    BY <1>5, <1>8
  <1> QED
    BY <1>7, <1>9 DEF all

\* What is left of the triangle the host has submitted.
LeftOf(r) ==
  IF r.st = "SCAN" THEN Remaining(HostWrites[r.tri], Len(PixelsBefore(r.tri.t, Pidx(r)))) ELSE << >>

LEMMA HostWritesIs ==
  ASSUME NEW tri \in HostTriangles
  PROVE  /\ HostWrites[tri] = TriangleWrites(tri.t, tri.cull, tri.how) /\ HostWrites[tri] \in Seq(AllPlain)
         /\ tri \in Submission /\ tri.t \in Triangles /\ tri.how \in Settings /\ tri.cull \in BOOLEAN
         /\ Culled(tri) => HostWrites[tri] = << >>
         /\ ~Culled(tri) => HostWrites[tri] = PlainOf(tri.t, tri.how, GoldenPixels(tri.t))
  <1>1. tri \in Submission /\ tri.t \in Triangles /\ tri.how \in Settings /\ tri.cull \in BOOLEAN
    BY CommandsAssumption DEF Submission, Triangles
  <1>2. HostWrites[tri] = TriangleWrites(tri.t, tri.cull, tri.how)
    BY DEF HostWrites
  <1> QED
    BY <1>1, <1>2, TriangleIs, Zenon DEF Culled

\* What the scan draws of a host's triangle is numbers, and a colour where it is blended.
LEMMA DrawnColour ==
  ASSUME NEW r, RasterOK(r), r.st = "SCAN", r.tri \in HostTriangles, Blendable(r.tri),
         ~Culled(r.tri), DrawnHere(r)
  PROVE  /\ Depth(r.tri.t, Here(r)) \in Int /\ Colour(r.tri.t, Here(r)) \in Int
         /\ r.tri.how.blend => Colour(r.tri.t, Here(r)) \in Colours
  <1> DEFINE t == r.tri.t
  <1>1. t \in Triangles /\ Area(t) # 0 /\ Persp(t, Here(r)) # 0
    BY HostWritesIs DEF Culled, DrawnHere
  <1>2. /\ r.px \in 0 .. W - 1 /\ r.py \in 0 .. H - 1 /\ r.px \in Int /\ r.py \in Int
        /\ Here(r) = [x |-> r.px, y |-> r.py]
    BY DEF RasterOK, RasterRecords, Here
  <1>3. Depth(t, Here(r)) \in Int /\ Colour(t, Here(r)) \in Int
    BY <1>1, <1>2, FragmentTypes, Zenon DEF Triangles
  <1>4. Covered(t, Here(r)) /\ Here(r) \in [x : 0 .. W - 1, y : 0 .. H - 1]
    BY HereCovered DEF Places
  <1> QED
    BY <1>3, <1>4 DEF Blendable, Colours

\* A clock of the host's scan is one write, or none.
LEMMA HostScan ==
  ASSUME NEW r, RasterOK(r), r.st = "SCAN", r.tri \in HostTriangles, ~r.tri.emit,
         Blendable(r.tri)
  PROVE  \/ Scan(r).fb = r.fb /\ LeftOf(Scan(r)) = LeftOf(r)
         \/ OneWrite(r.fb, LeftOf(r), Scan(r).fb, LeftOf(Scan(r)))
  <1> DEFINE s == Scan(r)
             t == r.tri.t
             how == r.tri.how
             all == HostWrites[r.tri]
             k == Pidx(r)
             px == PixelsBefore(t, k)
             g == GoldenPixels(t)
  <1>1. all \in Seq(AllPlain) /\ t \in Triangles /\ how \in Settings
    BY HostWritesIs
  <1>2. LeftOf(r) = Remaining(all, Len(px))
    BY DEF LeftOf
  <1>3. CASE Culled(r.tri)
    <2>1. all = << >>
      BY <1>3, HostWritesIs
    <2>2. s.fb = r.fb /\ s.st = "IDLE"
      BY <1>3 DEF Scan, RasterOK, RasterRecords
    <2>3. Remaining(<< >>, Len(px)) = << >>
      <3>1. px \in Seq(Places)
        <4>1. k \in 0 .. W * H
          <5>1. r.px \in 0 .. W - 1 /\ r.py \in 0 .. H - 1
            BY DEF RasterOK, RasterRecords
          <5>2. k \in 0 .. W * H - 1
            BY <5>1, PixelIndex DEF Pidx, Pixels
          <5> HIDE DEF k
          <5> QED
            BY <5>2, TargetSize
        <4> HIDE DEF k
        <4> QED
          BY <1>1, <4>1, GoldenTypes
      <3>2. Len(px) \in Nat /\ << >> \in Seq(AllPlain) /\ Len(<< >>) = 0
        BY <3>1
      <3> HIDE DEF px
      <3>3. Len(px) >= Len(<< >>)
        BY <3>2
      <3> QED
        BY <3>2, <3>3, RemainingOf
    <2>4. LeftOf(s) = << >>
      BY <2>2 DEF LeftOf
    <2> QED
      BY <1>2, <2>1, <2>2, <2>3, <2>4
  <1>4. CASE ~Culled(r.tri)
    <2>1. all = PlainOf(t, how, g)
      BY <1>4, HostWritesIs
    <2>2. /\ Passed(s) = IF DrawnHere(r) THEN Append(px, Here(r)) ELSE px
          /\ s.tri = r.tri /\ s.fb = Plot(r).fb
          /\ Here(r) \in Places /\ k \in Pixels /\ k = Here(r).y * W + Here(r).x
      <3>1. Passed(r) = px
        BY DEF Passed
      <3> QED
        BY <1>4, <3>1, ScanPasses
    <2>3. k \in 0 .. W * H
      <3> HIDE DEF k
      <3> QED
        BY <2>2, TargetSize DEF Pixels
    <2>4. px \in Seq(Places) /\ g \in Seq(Places)
      <3> HIDE DEF k
      <3> QED
        BY <1>1, <2>3, GoldenTypes
    <2>5. Begins(Passed(s), g) /\ Passed(s) \in Seq(Places)
      <3>1. CASE s.st = "SCAN"
        <4>1. RasterOK(s)
          BY ScanKeeps
        <4>2. s.px \in 0 .. W - 1 /\ s.py \in 0 .. H - 1
          BY <4>1 DEF RasterOK, RasterRecords
        <4> DEFINE k2 == Pidx(s)
        <4>3. k2 \in 0 .. W * H
          <5>1. k2 \in 0 .. W * H - 1
            BY <4>2, PixelIndex DEF Pidx, Pixels
          <5> HIDE DEF k2
          <5> QED
            BY <5>1, TargetSize
        <4>4. Passed(s) = PixelsBefore(t, k2)
          BY <2>2, <3>1 DEF Passed
        <4> HIDE DEF k2
        <4> QED
          BY <1>1, <4>3, <4>4, GoldenTypes
      <3>2. CASE s.st # "SCAN"
        <4>1. Passed(s) = g
          BY <2>2, <3>2 DEF Passed
        <4>2. Begins(g, g)
          BY <2>4 DEF Begins
        <4> QED
          BY <2>4, <4>1, <4>2
      <3> QED
        BY <3>1, <3>2
    <2>6. Len(all) = Len(g)
      BY <1>1, <2>1, <2>4, PlainTypes
    <2>7. LeftOf(s) = Remaining(all, Len(Passed(s)))
      <3>1. CASE s.st = "SCAN"
        BY <2>2, <3>1 DEF LeftOf, Passed
      <3>2. CASE s.st # "SCAN"
        <4>1. Passed(s) = g /\ LeftOf(s) = << >>
          BY <2>2, <3>2 DEF Passed, LeftOf
        <4>2. Len(g) \in Nat /\ Len(g) >= Len(all)
          BY <2>4, <2>6
        <4> HIDE DEF g, all
        <4>3. Remaining(all, Len(g)) = << >>
          BY <1>1, <4>2, RemainingOf
        <4> QED
          BY <4>1, <4>3
      <3> QED
        BY <3>1, <3>2
    <2>8. CASE ~DrawnHere(r)
      <3>1. s.fb = r.fb
        BY <2>2, <2>8 DEF Plot, DrawnHere
      <3> QED
        BY <1>2, <2>2, <2>7, <2>8, <3>1
    <2>9. CASE DrawnHere(r)
      <3> DEFINE n == Len(px)
                 w == PlainAt(t, Here(r), how)
      <3>1. Passed(s) = Append(px, Here(r))
        BY <2>2, <2>9
      <3>2. n \in Nat /\ Len(Passed(s)) = n + 1 /\ Passed(s)[n + 1] = Here(r)
        BY <2>2, <2>4, <3>1
      <3>3. n < Len(g) /\ g[n + 1] = Here(r)
        <4> HIDE DEF n, g
        <4> QED
          BY <2>4, <2>5, <3>2 DEF Begins
      <3>4. all[n + 1] = w
        <4>1. n + 1 \in 1 .. Len(g)
          <5> HIDE DEF n, g
          <5> QED
            BY <2>4, <3>2, <3>3
        <4>2. PlainOf(t, how, g)[n + 1] = PlainAt(t, g[n + 1], how)
          BY <4>1 DEF PlainOf
        <4> QED
          BY <2>1, <3>3, <4>2
      <3>5. w.pidx = k
        BY <2>2 DEF PlainAt, FragmentWrite
      <3>6. Golden!Written(r.fb[k], w) =
              Rop(r.fb[k], Depth(t, Here(r)), Colour(t, Here(r)) % ColourSpace, how)
        <4> DEFINE z == Depth(t, Here(r))
                   c == Colour(t, Here(r))
        <4>1. z \in Int /\ c \in Int /\ (how.blend => c \in Colours)
          BY <1>4, <2>9, DrawnColour
        <4>2. r.fb[k] \in Texel
          BY <2>2 DEF RasterOK, RasterRecords
        <4>3. ~w.clear /\ w.z = z /\ w.rgb = c /\ w.how = how
          BY DEF PlainAt, FragmentWrite
        <4> HIDE DEF w, z, c, k, how, t
        <4> QED
          BY <1>1, <4>1, <4>2, <4>3, WrittenIs DEF z, c
      <3>7. s.fb = [r.fb EXCEPT ![k] =
              Rop(r.fb[k], Depth(t, Here(r)), Colour(t, Here(r)) % ColourSpace, how)]
        <4>1. Plot(r) = [r EXCEPT !.fb = [r.fb EXCEPT ![k] =
                Rop(r.fb[k], Depth(t, Here(r)), Colour(t, Here(r)) % ColourSpace, how)]]
          BY <2>9 DEF Plot, DrawnHere
        <4> QED
          BY <2>2, <4>1 DEF RasterOK, RasterRecords
      <3>8. s.fb = [r.fb EXCEPT ![all[n + 1].pidx] = Golden!Written(r.fb[all[n + 1].pidx], all[n + 1])]
        <4> HIDE DEF w, k, all, n, s
        <4> QED
          BY <3>4, <3>5, <3>6, <3>7, Zenon
      <3>9. OneWrite(r.fb, Remaining(all, n), s.fb, Remaining(all, n + 1))
        <4> HIDE DEF all, n, s, g
        <4>1. n < Len(all)
          BY <2>6, <3>3
        <4> QED
          BY <1>1, <3>2, <3>8, <4>1, WriteOf
      <3> QED
        BY <1>2, <2>7, <3>2, <3>9
    <2> QED
      BY <2>8, <2>9
  <1> QED
    BY <1>3, <1>4

-----------------------------------------------------------------------------
\* The fragment buffer against the golden model's fragments.

\* The writes that the records of the fragment buffer become.
ShownAs(f, how) ==
  [pidx |-> f.pidx, clear |-> FALSE, z |-> f.z, rgb |-> Shade(f.uv, f.rgb), how |-> how]
Shown(frags, how) == [i \in 1 .. Len(frags) |-> ShownAs(frags[i], how)]

LEMMA ShownLen ==
  ASSUME NEW frags \in Seq(Fragment), NEW how
  PROVE  Len(Shown(frags, how)) = Len(frags)
  BY DEF Shown

LEMMA ShownMore ==
  ASSUME NEW frags \in Seq(Fragment), NEW f \in Fragment, NEW how
  PROVE  Shown(Append(frags, f), how) = Append(Shown(frags, how), ShownAs(f, how))
  <1> DEFINE S == {ShownAs(g, how) : g \in Fragment}
             a == Shown(Append(frags, f), how)
             b == Append(Shown(frags, how), ShownAs(f, how))
             n == Len(frags) + 1
  <1>1. /\ Append(frags, f) \in Seq(Fragment) /\ Len(Append(frags, f)) = n /\ n \in Nat
        /\ Append(frags, f)[n] = f /\ \A i \in 1 .. n - 1 : Append(frags, f)[i] = frags[i]
    OBVIOUS
  <1>2. \A g \in Fragment : ShownAs(g, how) \in S
    OBVIOUS
  <1> HIDE DEF S
  <1>3. \A u \in Seq(Fragment) : /\ Shown(u, how) \in Seq(S) /\ Len(Shown(u, how)) = Len(u)
                                 /\ \A i \in 1 .. Len(u) : Shown(u, how)[i] = ShownAs(u[i], how)
    <2> TAKE u \in Seq(Fragment)
    <2>1. \A i \in 1 .. Len(u) : ShownAs(u[i], how) \in S
      BY <1>2
    <2> QED
      BY <2>1 DEF Shown
  <1>4. a \in Seq(S) /\ Len(a) = n /\ \A i \in 1 .. n : a[i] = ShownAs(Append(frags, f)[i], how)
    <2> HIDE DEF n
    <2> QED
      BY <1>1, <1>3
  <1>5. /\ b \in Seq(S) /\ Len(b) = n /\ b[n] = ShownAs(f, how)
        /\ \A i \in 1 .. n - 1 : b[i] = ShownAs(frags[i], how)
    <2> DEFINE c == Shown(frags, how)
               w == ShownAs(f, how)
    <2>1. c \in Seq(S) /\ Len(c) = Len(frags) /\ w \in S
          /\ \A i \in 1 .. Len(frags) : c[i] = ShownAs(frags[i], how)
      BY <1>2, <1>3
    <2> HIDE DEF c, w
    <2>2. /\ Append(c, w) \in Seq(S) /\ Len(Append(c, w)) = n /\ Append(c, w)[n] = w
          /\ \A i \in 1 .. n - 1 : Append(c, w)[i] = ShownAs(frags[i], how)
      BY <2>1
    <2> QED
      BY <2>2 DEF c, w
  <1> HIDE DEF a, b, n
  <1>6. \A i \in 1 .. n : a[i] = b[i]
    <2>1. \A i \in 1 .. n : i = n \/ i \in 1 .. n - 1
      BY <1>1
    <2> QED
      BY <1>1, <1>4, <1>5, <2>1
  <1>7. a = b
    BY <1>4, <1>5, <1>6, SeqEqual
  <1> QED
    BY <1>7 DEF a, b

LEMMA AppendLater ==
  ASSUME NEW S, NEW a \in Seq(S), NEW b \in Seq(S), NEW w \in S
  PROVE  a \o Append(b, w) = Append(a \o b, w) /\ a \o b \in Seq(S) /\ a \o << >> = a
  <1> DEFINE u == a \o Append(b, w)
             v == Append(a \o b, w)
             n == Len(a) + Len(b) + 1
  <1>1. u \in Seq(S) /\ Len(u) = n /\ v \in Seq(S) /\ Len(v) = n /\ n \in Nat
    OBVIOUS
  <1>2. \A i \in 1 .. n : u[i] = v[i]
    OBVIOUS
  <1>3. u = v
    <2> HIDE DEF u, v, n
    <2> QED
      BY <1>1, <1>2, SeqEqual
  <1>4. a \o << >> = a /\ a \o b \in Seq(S)
    OBVIOUS
  <1> QED
    BY <1>3, <1>4

\* A clock of a draw call's scan keeps the buffer to the writes passed so far, as many as fit.
LEMMA DrawScan ==
  ASSUME NEW r, RasterOK(r), r.st = "SCAN", r.tri.emit, ~r.tri.cull, NEW how \in Settings,
         NEW before \in Seq(AllShaded),
         Shown(r.frags, how) = Fitting(before \o ShadedOf(r.tri.t, how, Passed(r)))
  PROVE  /\ Shown(Scan(r).frags, how) = Fitting(before \o ShadedOf(r.tri.t, how, Passed(Scan(r))))
         /\ Scan(r).fb = r.fb /\ Scan(r).tri = r.tri
  <1> DEFINE s == Scan(r)
             t == r.tri.t
             px == Passed(r)
             k == Pidx(r)
  <1>1. r \in RasterRecords /\ r.frags \in Seq(Fragment) /\ Len(r.frags) <= FragMax
        /\ t \in Triangles /\ r.px \in 0 .. W - 1 /\ r.py \in 0 .. H - 1
    BY DEF RasterOK, RasterRecords, Submission, Triangles
  <1>2. k \in 0 .. W * H
    <2>1. k \in 0 .. W * H - 1
      BY <1>1, PixelIndex DEF Pidx, Pixels
    <2> HIDE DEF k
    <2> QED
      BY <2>1, TargetSize
  <1>3. px = PixelsBefore(t, k)
    BY DEF Passed
  <1>4. px \in Seq(Places)
    <2> HIDE DEF k
    <2> QED
      BY <1>1, <1>2, <1>3, GoldenTypes
  <1>5. CASE Culled(r.tri)
    <2>1. Area(t) = 0
      BY <1>5 DEF Culled
    <2>2. px = << >> /\ GoldenPixels(t) = << >>
      <3> HIDE DEF k
      <3> QED
        BY <1>1, <1>2, <1>3, <2>1, NoArea
    <2>3. s.frags = r.frags /\ s.fb = r.fb /\ s.tri = r.tri /\ s.st = "IDLE"
      BY <1>1, <1>5 DEF Scan, RasterRecords
    <2>4. Passed(s) = << >>
      BY <2>2, <2>3 DEF Passed
    <2> HIDE DEF px, t, s
    <2> QED
      BY <2>2, <2>3, <2>4, Zenon DEF px, t, s
  <1>6. CASE ~Culled(r.tri)
    <2>1. /\ Passed(s) = IF DrawnHere(r) THEN Append(px, Here(r)) ELSE px
          /\ s.tri = r.tri /\ s.frags = Plot(r).frags /\ s.fb = Plot(r).fb
          /\ Here(r) \in Places /\ Pidx(r) \in Pixels /\ Pidx(r) = Here(r).y * W + Here(r).x
      BY <1>6, ScanPasses
    <2>2. CASE ~DrawnHere(r)
      <3>1. s.frags = r.frags /\ s.fb = r.fb /\ Passed(s) = px
        BY <2>1, <2>2 DEF Plot, DrawnHere
      <3> QED
        BY <2>1, <3>1, Zenon
    <2>3. CASE DrawnHere(r)
      <3> DEFINE w == ShadedAt(t, Here(r), how)
                 all == before \o ShadedOf(t, how, px)
      <3>1. s.fb = r.fb
        BY <1>1, <2>1, <2>3 DEF Plot, DrawnHere, RasterRecords
      <3>2. s.frags = IF Room(r) THEN Append(r.frags, Record(r)) ELSE r.frags
        <4>1. CASE Room(r)
          <5>1. Plot(r) = [r EXCEPT !.frags = Append(r.frags, Record(r))]
            BY <2>3, <4>1 DEF Plot, DrawnHere
          <5> QED
            BY <1>1, <2>1, <4>1, <5>1 DEF RasterRecords
        <4>2. CASE ~Room(r)
          <5>1. Plot(r) = r
            BY <2>3, <4>2 DEF Plot, DrawnHere
          <5> QED
            BY <2>1, <4>2, <5>1
        <4> QED
          BY <4>1, <4>2
      <3>3. ShownAs(Record(r), how) = w
        BY <2>1 DEF ShownAs, Record, ShadedAt, FragmentWrite
      <3>4. ShadedOf(t, how, Passed(s)) = Append(ShadedOf(t, how, px), w)
        BY <1>1, <1>4, <2>1, <2>3, ShadedMore
      <3>5. w \in AllShaded /\ ShadedOf(t, how, px) \in Seq(AllShaded)
        <4> HIDE DEF px
        <4> QED
          BY <1>1, <1>4, <2>1, WriteTypes, ShadedTypes
      <3>6. before \o ShadedOf(t, how, Passed(s)) = Append(all, w) /\ all \in Seq(AllShaded)
        <4> HIDE DEF w, px
        <4> QED
          BY <3>4, <3>5, AppendLater
      <3>7. Fitting(Append(all, w)) = IF Len(Fitting(all)) < FragMax THEN Append(Fitting(all), w) ELSE Fitting(all)
        <4> HIDE DEF w, all
        <4> QED
          BY <3>5, <3>6, FittingMore
      <3>8. Len(Fitting(all)) = Len(r.frags)
        BY <1>1, ShownLen
      <3>9. CASE Room(r)
        <4>1. Record(r) \in Fragment
          <5>1. RasterOK(Plot(r)) /\ Plot(r) = [r EXCEPT !.frags = Append(r.frags, Record(r))]
            BY <1>6, <2>3, <3>9, PlotKeeps DEF Plot, DrawnHere
          <5>2. Append(r.frags, Record(r)) \in Seq(Fragment)
            BY <1>1, <5>1 DEF RasterOK, RasterRecords
          <5> DEFINE n == Len(r.frags) + 1
                     a == Append(r.frags, Record(r))
          <5>3. a[n] = Record(r) /\ n \in 1 .. Len(a)
            BY <1>1
          <5> HIDE DEF n
          <5> QED
            BY <5>2, <5>3
        <4>2. Shown(Append(r.frags, Record(r)), how) = Append(Shown(r.frags, how), w)
          BY <1>1, <3>3, <4>1, ShownMore
        <4>3. Len(Fitting(all)) < FragMax
          BY <3>8, <3>9 DEF Room
        <4>4. s.frags = Append(r.frags, Record(r))
          BY <3>2, <3>9
        <4> HIDE DEF w, all, s, t, px
        <4>5. Shown(s.frags, how) = Append(Fitting(all), w)
          BY <4>2, <4>4, Zenon DEF all, t, px
        <4> QED
          BY <2>1, <3>1, <3>6, <3>7, <4>3, <4>5, Zenon DEF s, t
      <3>10. CASE ~Room(r)
        <4>1. ~(Len(Fitting(all)) < FragMax) /\ s.frags = r.frags
          BY <3>2, <3>8, <3>10 DEF Room
        <4> HIDE DEF w, s, t, px
        <4> QED
          BY <2>1, <3>1, <3>6, <3>7, <4>1, Zenon DEF s, t, px
      <3> QED
        BY <3>9, <3>10
    <2> QED
      BY <2>2, <2>3
  <1> QED
    BY <1>5, <1>6

-----------------------------------------------------------------------------
\* What a draw call fetches: the mesh's indices are in the index buffer, its vertices, once the
\* vertex shader has ended, in the vertex buffer, and the corners of the triangle under way in
\* the sequencer's registers as far as they have been read.
Fetches == {"TRI_IDX", "TRI_VTX", "TRI_GO", "TRI_WAIT"}
IndicesIn(s, m) ==
  \A n \in 0 .. Len(s.q.tris) - 1 : \A i \in 0 .. 2 : m.ibuf[n * 3 + i] = s.q.tris[n + 1][i + 1]
VerticesIn(s, m) ==
  \A v \in 0 .. MaxVerts - 1 : v < Len(s.q.verts) => m.vout[v] = s.q.verts[v + 1]
IndexRead(s, i) == s.idx[i] = s.q.tris[s.tri_i + 1][i + 1]
WordRead(s, i, f) == s.vw[i][f] = Corners(s.q, s.tri_i + 1)[i + 1][f]
SeqTri(s) == [valid |-> TRUE, t |-> [i \in 1 .. 3 |-> s.vw[i - 1]], cull |-> FALSE,
              emit |-> TRUE, how |-> s.q.how]

Fetching(s, m, g) ==
  /\ s.state \in {"VS_GO", "VS_WAIT"} \cup Fetches => IndicesIn(s, m)
  /\ s.state = "VS_WAIT" /\ g = HasEnded => VerticesIn(s, m)
  /\ s.state \in Fetches => VerticesIn(s, m) /\ s.tri_i < Len(s.q.tris)
  /\ s.state = "TRI_IDX" => \A i \in 0 .. 2 : i < s.vsel => IndexRead(s, i)
  /\ s.state = "TRI_VTX" =>
       /\ \A i \in 0 .. 2 : IndexRead(s, i)
       /\ \A i \in 0 .. 2, w \in 0 .. 5 :
            i < s.vsel \/ (i = s.vsel /\ w < s.wsel) => WordRead(s, i, Fields[w + 1])
  /\ s.state \in {"TRI_GO", "TRI_WAIT"} => SeqTri(s).t = Corners(s.q, s.tri_i + 1)

LEMMA CornersAre ==
  ASSUME MeshesDrawable, NEW m \in Meshes, NEW n \in 1 .. Len(m.tris)
  PROVE  /\ Corners(m, n) \in Triangles
         /\ \A i \in 1 .. 3 : /\ m.tris[n][i] \in 0 .. MaxVerts - 1 /\ m.tris[n][i] < Len(m.verts)
                              /\ Corners(m, n)[i] = m.verts[m.tris[n][i] + 1]
                              /\ Corners(m, n)[i] \in VertexWords
  <1>1. m.verts \in Seq(VertexWords) /\ m.tris \in Seq([1 .. 3 -> 0 .. MaxVerts - 1]) /\ Drawable(m)
    BY CommandsAssumption DEF MeshesDrawable
  <1>2. m.tris[n] \in [1 .. 3 -> 0 .. MaxVerts - 1]
    BY <1>1
  <1>3. ASSUME NEW i \in 1 .. 3
        PROVE  /\ m.tris[n][i] \in 0 .. MaxVerts - 1 /\ m.tris[n][i] < Len(m.verts)
               /\ m.verts[m.tris[n][i] + 1] \in VertexWords
    <2> DEFINE v == m.tris[n][i]
    <2>1. v \in 0 .. MaxVerts - 1 /\ v < Len(m.verts)
      <3>1. m.tris[n][i] \in 0 .. MaxVerts - 1
        BY <1>2
      <3>2. m.tris[n][i] < Len(m.verts)
        BY <1>1 DEF Drawable
      <3> QED
        BY <3>1, <3>2
    <2>2. Len(m.verts) \in Nat /\ MaxVerts \in Nat \ {0}
      BY <1>1, DeviceAssumption
    <2> DEFINE l == Len(m.verts)
    <2> HIDE DEF v, l
    <2>3. v + 1 \in 1 .. l
      BY <2>1, <2>2 DEF l
    <2>4. m.verts[v + 1] \in VertexWords
      BY <1>1, <2>3 DEF l
    <2> QED
      BY <2>1, <2>4 DEF v
  <1>4. Corners(m, n) = [i \in 1 .. 3 |-> m.verts[m.tris[n][i] + 1]]
    BY DEF Corners
  <1> QED
    BY <1>3, <1>4 DEF Triangles

LEMMA VsGoFetches ==
  ASSUME GfxInv, During, VsGo, Fetching(seq, mem, grid)
  PROVE  Fetching(seq', mem', grid')
  <1>1. /\ seq.state = "VS_GO" /\ seq' = [seq EXCEPT !.state = "VS_WAIT"] /\ seq \in SeqRecords
        /\ mem' = mem /\ grid' = NoneRuns
    BY DEF VsGo, Goto, GfxInv, Types, During
  <1>2. seq'.state = "VS_WAIT" /\ seq'.q = seq.q
    BY <1>1 DEF SeqRecords
  <1>3. grid' # HasEnded
    BY <1>1, SubRuns
  <1>4. IndicesIn(seq', mem')
    BY <1>1, <1>2 DEF Fetching, IndicesIn
  <1> QED
    BY <1>2, <1>3, <1>4 DEF Fetching, Fetches

LEMMA VertexArrive ==
  ASSUME Types, grid = Runs(1, Len(seq.q.verts), "VS")
  PROVE  Stores(mem).ibuf = mem.ibuf /\ VerticesIn(seq, Stores(mem))
  <1> DEFINE n == Len(seq.q.verts)
  <1>1. /\ grid.run.grid = 1 /\ grid.run.tpb = n /\ grid.run.kernel = "VS"
    BY DEF Runs
  <1>2. n \in Nat /\ seq.q.verts \in Seq(VertexWords) /\ 1 * n = n
    BY MeshFacts
  <1>3. mem \in Buffers /\ mem.vout \in [0 .. MaxVerts - 1 -> VertexWords]
    BY DEF Types, Buffers
  <1> DEFINE v2 == [v \in DOMAIN mem.vout |-> IF v < n THEN seq.q.verts[v + 1] ELSE mem.vout[v]]
  <1>4. Stores(mem) = [mem EXCEPT !.vout = v2]
    BY <1>1, <1>2 DEF Stores
  <1>5. \A v \in 0 .. MaxVerts - 1 : v < n => v2[v] = seq.q.verts[v + 1]
    BY <1>3
  <1> HIDE DEF v2, n
  <1>6. Stores(mem).ibuf = mem.ibuf /\ Stores(mem).vout = v2
    BY <1>3, <1>4 DEF Buffers
  <1> QED
    BY <1>5, <1>6 DEF VerticesIn, n

LEMMA VsWaitFetches ==
  ASSUME GfxInv, During, VsWait, MeshesDrawable, Fetching(seq, mem, grid)
  PROVE  Fetching(seq', mem', grid')
  <1>1. seq.state = "VS_WAIT" /\ seq \in SeqRecords /\ ComputeSteps(1, Len(seq.q.verts), "VS")
        /\ seq.q \in Meshes
    BY SeqFacts DEF VsWait, GfxInv, Types, During
  <1>2. IndicesIn(seq, mem)
    BY <1>1 DEF Fetching
  <1>3. CASE grid = HasEnded
    <2>1. grid.done
      BY <1>3 DEF HasEnded
    <2>2. seq' = [seq EXCEPT !.tri_i = 0, !.vsel = 0, !.state = "TRI_IDX"]
      BY <2>1 DEF VsWait
    <2>3. seq'.state = "TRI_IDX" /\ seq'.tri_i = 0 /\ seq'.vsel = 0 /\ seq'.q = seq.q
      BY <1>1, <2>2 DEF SeqRecords
    <2>4. mem' = mem
      <3>1. grid # Runs(1, Len(seq.q.verts), "VS")
        BY <1>3 DEF Runs, HasEnded
      <3>2. out = Launched(1, Len(seq.q.verts), "VS") => out # Quiet
        BY DEF Launched, Quiet, Low
      <3>3. grid # NoneRuns
        BY <1>3 DEF NoneRuns, HasEnded
      <3> QED
        BY <1>1, <3>1, <3>2, <3>3 DEF ComputeSteps, GfxInv, GridRuns
    <2>5. VerticesIn(seq, mem)
      BY <1>1, <1>3 DEF Fetching
    <2>6. 0 < Len(seq.q.tris)
      <3>1. seq.q.tris # << >> /\ seq.q.tris \in Seq([1 .. 3 -> 0 .. MaxVerts - 1])
        BY <1>1, CommandsAssumption DEF MeshesDrawable, Drawable
      <3> QED
        BY <3>1
    <2>7. IndicesIn(seq', mem') /\ VerticesIn(seq', mem')
      BY <1>2, <2>3, <2>4, <2>5 DEF IndicesIn, VerticesIn
    <2>8. \A i \in 0 .. 2 : ~(i < 0)
      OBVIOUS
    <2> QED
      BY <2>3, <2>6, <2>7, <2>8 DEF Fetching, Fetches
  <1>4. CASE grid # HasEnded
    <2>1. ~grid.done
      <3>1. grid = NoneRuns \/ grid = Runs(1, Len(seq.q.verts), "VS")
        BY <1>1, <1>4 DEF GfxInv, GridRuns
      <3> QED
        BY <3>1 DEF NoneRuns, Runs
    <2>2. seq' = seq
      BY <2>1 DEF VsWait
    <2>3. CASE grid = Runs(1, Len(seq.q.verts), "VS") /\ mem' = Stores(mem)
      <3>1. mem'.ibuf = mem.ibuf /\ VerticesIn(seq, mem')
        BY <2>3, VertexArrive DEF GfxInv
      <3>2. IndicesIn(seq, mem')
        BY <1>2, <3>1 DEF IndicesIn
      <3> QED
        BY <1>1, <2>2, <3>1, <3>2 DEF Fetching, Fetches
    <2>4. CASE grid' # HasEnded /\ mem' = mem
      BY <1>1, <1>2, <2>2, <2>4 DEF Fetching, Fetches
    <2>5. Runs(1, Len(seq.q.verts), "VS") # HasEnded
      BY DEF Runs, HasEnded
    <2> QED
      BY <1>1, <1>4, <2>3, <2>4, <2>5 DEF ComputeSteps
  <1> QED
    BY <1>3, <1>4

LEMMA TriIdxFetches ==
  ASSUME GfxInv, During, TriIdx, MeshesDrawable, Fetching(seq, mem, grid)
  PROVE  Fetching(seq', mem', grid')
  <1>1. /\ seq.state = "TRI_IDX" /\ seq \in SeqRecords /\ mem' = mem
        /\ seq.idx \in [0 .. 2 -> 0 .. MaxVerts - 1] /\ seq.vsel \in 0 .. 2 /\ seq.tri_i \in Nat
        /\ seq.q.tris \in Seq([1 .. 3 -> 0 .. MaxVerts - 1])
    <2>1. seq.tri_i \in 0 .. MaxTris - 1
      BY SeqFacts DEF GfxInv
    <2> QED
      BY <2>1, SeqFacts, MeshFacts, DeviceAssumption DEF TriIdx, GfxInv, Types, During
  <1>2. /\ IndicesIn(seq, mem) /\ VerticesIn(seq, mem) /\ seq.tri_i < Len(seq.q.tris)
        /\ \A i \in 0 .. 2 : i < seq.vsel => IndexRead(seq, i)
    BY <1>1 DEF Fetching, Fetches
  <1> DEFINE v == mem.ibuf[seq.tri_i * 3 + seq.vsel]
             idx2 == [seq.idx EXCEPT ![seq.vsel] = v]
  <1>3. v = seq.q.tris[seq.tri_i + 1][seq.vsel + 1]
    <2>1. seq.tri_i \in 0 .. Len(seq.q.tris) - 1
      BY <1>1, <1>2
    <2> QED
      BY <1>1, <1>2, <2>1 DEF IndicesIn
  <1>4. \/ seq.vsel = 2 /\ seq' = [seq EXCEPT !.idx = idx2, !.vsel = 0, !.wsel = 0, !.state = "TRI_VTX"]
        \/ seq.vsel # 2 /\ seq' = [seq EXCEPT !.idx = idx2, !.vsel = seq.vsel + 1]
    BY DEF TriIdx
  <1>5. \A i \in 0 .. 2 : idx2[i] = IF i = seq.vsel THEN v ELSE seq.idx[i]
    BY <1>1
  <1> HIDE DEF v, idx2
  <1>6. /\ seq'.idx = idx2 /\ seq'.q = seq.q /\ seq'.tri_i = seq.tri_i
        /\ \/ seq.vsel = 2 /\ seq'.vsel = 0 /\ seq'.wsel = 0 /\ seq'.state = "TRI_VTX"
           \/ seq.vsel # 2 /\ seq'.vsel = seq.vsel + 1 /\ seq'.state = "TRI_IDX"
    BY <1>1, <1>4 DEF SeqRecords
  <1>7. \A i \in 0 .. 2 : i < seq.vsel + 1 => IndexRead(seq', i)
    <2> TAKE i \in 0 .. 2
    <2> HAVE i < seq.vsel + 1
    <2>1. CASE i = seq.vsel
      BY <1>3, <1>5, <1>6, <2>1 DEF IndexRead
    <2>2. CASE i < seq.vsel
      <3>1. i # seq.vsel
        BY <1>1, <2>2
      <3> QED
        BY <1>2, <1>5, <1>6, <2>2, <3>1 DEF IndexRead
    <2> QED
      BY <1>1, <2>1, <2>2
  <1>8. IndicesIn(seq', mem') /\ VerticesIn(seq', mem') /\ seq'.tri_i < Len(seq'.q.tris)
    BY <1>1, <1>2, <1>6 DEF IndicesIn, VerticesIn
  <1>9. CASE seq.vsel = 2 /\ seq'.vsel = 0 /\ seq'.wsel = 0 /\ seq'.state = "TRI_VTX"
    <2>1. \A i \in 0 .. 2 : IndexRead(seq', i)
      BY <1>7, <1>9
    <2>2. \A i \in 0 .. 2, w \in 0 .. 5 : ~(i < seq'.vsel \/ (i = seq'.vsel /\ w < seq'.wsel))
      BY <1>9
    <2> QED
      BY <1>8, <1>9, <2>1, <2>2 DEF Fetching, Fetches
  <1>10. CASE seq.vsel # 2 /\ seq'.vsel = seq.vsel + 1 /\ seq'.state = "TRI_IDX"
    BY <1>7, <1>8, <1>10 DEF Fetching, Fetches
  <1> QED
    BY <1>6, <1>9, <1>10

\* One vertex word of the triangle under way is read.
LEMMA WordIsRead ==
  ASSUME GfxInv, MeshesDrawable, Fetching(seq, mem, grid), seq.state = "TRI_VTX",
         NEW f \in {Fields[i] : i \in 1 .. 6}
  PROVE  mem.vout[seq.idx[seq.vsel]][f] = Corners(seq.q, seq.tri_i + 1)[seq.vsel + 1][f]
  <1> DEFINE n == seq.tri_i + 1
             i == seq.vsel + 1
             v == seq.q.tris[n][i]
  <1>1. /\ seq.vsel \in 0 .. 2 /\ seq.tri_i \in Nat /\ seq.tri_i < Len(seq.q.tris) /\ seq.q \in Meshes
        /\ seq.q.tris \in Seq([1 .. 3 -> 0 .. MaxVerts - 1])
        /\ VerticesIn(seq, mem) /\ IndexRead(seq, seq.vsel)
    <2>1. seq.tri_i \in 0 .. MaxTris - 1 /\ seq.vsel \in 0 .. 2
      BY SeqFacts DEF GfxInv
    <2>2. seq.q \in Meshes /\ seq.q.tris \in Seq([1 .. 3 -> 0 .. MaxVerts - 1])
      BY MeshFacts DEF GfxInv
    <2>3. /\ seq.tri_i < Len(seq.q.tris) /\ VerticesIn(seq, mem)
          /\ \A j \in 0 .. 2 : IndexRead(seq, j)
      BY DEF Fetching, Fetches
    <2>4. seq.tri_i \in Nat
      BY <2>1, DeviceAssumption
    <2> QED
      BY <2>1, <2>2, <2>3, <2>4
  <1>2. n \in 1 .. Len(seq.q.tris) /\ i \in 1 .. 3
    <2>1. Len(seq.q.tris) \in Nat
      BY <1>1
    <2> DEFINE l == Len(seq.q.tris)
    <2>2. l \in Nat /\ seq.tri_i < l /\ seq.tri_i \in Nat /\ seq.vsel \in 0 .. 2
      BY <1>1, <2>1
    <2> HIDE DEF l
    <2>3. seq.tri_i + 1 \in 1 .. l /\ seq.vsel + 1 \in 1 .. 3
      BY <2>2
    <2> QED
      BY <2>3 DEF l
  <1>3. seq.idx[seq.vsel] = v
    BY <1>1 DEF IndexRead
  <1> HIDE DEF n, i
  <1>4. /\ v \in 0 .. MaxVerts - 1 /\ v < Len(seq.q.verts)
        /\ Corners(seq.q, n)[i] = seq.q.verts[v + 1]
    BY <1>1, <1>2, CornersAre
  <1> HIDE DEF v
  <1>5. mem.vout[v] = seq.q.verts[v + 1]
    BY <1>1, <1>4 DEF VerticesIn
  <1> QED
    BY <1>3, <1>4, <1>5, Zenon DEF n, i

\* A vertex is its six words.
LEMMA VertexWhole ==
  ASSUME NEW v \in VertexWords, NEW u \in VertexWords, \A w \in 0 .. 5 : v[Fields[w + 1]] = u[Fields[w + 1]]
  PROVE  v = u
  <1>1. \A i \in 1 .. 6 : v[Fields[i]] = u[Fields[i]]
    <2> TAKE i \in 1 .. 6
    <2> DEFINE w == i - 1
    <2>1. w \in 0 .. 5 /\ w + 1 = i
      OBVIOUS
    <2> HIDE DEF w
    <2> QED
      BY <2>1
  <1> DEFINE F == {Fields[i] : i \in 1 .. 6}
  <1>2. \A f \in F : v[f] = u[f]
    BY <1>1
  <1>3. v \in [F -> Int] /\ u \in [F -> Int]
    BY DEF VertexWords
  <1> HIDE DEF F
  <1> QED
    BY <1>2, <1>3

LEMMA TriVtxFetches ==
  ASSUME GfxInv, During, TriVtx, MeshesDrawable, Fetching(seq, mem, grid), seq' \in SeqRecords
  PROVE  Fetching(seq', mem', grid')
  <1>1. /\ seq.state = "TRI_VTX" /\ seq \in SeqRecords /\ mem' = mem
        /\ seq.vw \in [0 .. 2 -> VertexWords] /\ seq.vsel \in 0 .. 2 /\ seq.wsel \in 0 .. 5
    BY SeqFacts DEF TriVtx, GfxInv, Types, During
  <1>2. /\ IndicesIn(seq, mem) /\ VerticesIn(seq, mem) /\ seq.tri_i < Len(seq.q.tris)
        /\ \A i \in 0 .. 2 : IndexRead(seq, i)
        /\ \A i \in 0 .. 2, w \in 0 .. 5 :
             i < seq.vsel \/ (i = seq.vsel /\ w < seq.wsel) => WordRead(seq, i, Fields[w + 1])
    BY <1>1 DEF Fetching, Fetches
  <1> DEFINE F == {Fields[i] : i \in 1 .. 6}
             f == Fields[seq.wsel + 1]
             word == mem.vout[seq.idx[seq.vsel]][f]
             vertex == [seq.vw[seq.vsel] EXCEPT ![f] = word]
             vw2 == [seq.vw EXCEPT ![seq.vsel] = vertex]
  <1>3. \/ /\ seq.wsel < 5 /\ seq' = [seq EXCEPT !.vw = vw2, !.wsel = seq.wsel + 1]
        \/ /\ ~(seq.wsel < 5) /\ seq.vsel < 2
           /\ seq' = [seq EXCEPT !.vw = vw2, !.wsel = 0, !.vsel = seq.vsel + 1]
        \/ /\ ~(seq.wsel < 5) /\ ~(seq.vsel < 2)
           /\ seq' = [seq EXCEPT !.vw = vw2, !.wsel = 0, !.state = "TRI_GO"]
    BY DEF TriVtx
  <1>4. f \in F
    <2>1. seq.wsel + 1 \in 1 .. 6
      BY <1>1
    <2> QED
      BY <2>1
  <1>5. word = Corners(seq.q, seq.tri_i + 1)[seq.vsel + 1][f]
    <2> HIDE DEF f
    <2> QED
      BY <1>1, <1>4, WordIsRead DEF f
  <1>6. \A g \in F : vertex[g] = IF g = f THEN word ELSE seq.vw[seq.vsel][g]
    <2>1. seq.vw[seq.vsel] \in [F -> Int]
      BY <1>1 DEF VertexWords
    <2> HIDE DEF F, word, f
    <2> QED
      BY <2>1
  <1>7. \A i \in 0 .. 2 : vw2[i] = IF i = seq.vsel THEN vertex ELSE seq.vw[i]
    <2> HIDE DEF vertex
    <2> QED
      BY <1>1
  <1> HIDE DEF word, vertex, vw2
  <1>8. /\ seq'.vw = vw2 /\ seq'.q = seq.q /\ seq'.tri_i = seq.tri_i /\ seq'.idx = seq.idx
        /\ \/ /\ seq.wsel < 5 /\ seq'.wsel = seq.wsel + 1 /\ seq'.vsel = seq.vsel
              /\ seq'.state = "TRI_VTX"
           \/ /\ seq.wsel = 5 /\ seq.vsel < 2 /\ seq'.wsel = 0 /\ seq'.vsel = seq.vsel + 1
              /\ seq'.state = "TRI_VTX"
           \/ seq.wsel = 5 /\ seq.vsel = 2 /\ seq'.state = "TRI_GO"
    <2>1. (~(seq.wsel < 5) => seq.wsel = 5) /\ (~(seq.vsel < 2) => seq.vsel = 2)
      BY <1>1
    <2> DEFINE w2 == seq.wsel + 1
               v2 == seq.vsel + 1
    <2> HIDE DEF w2, v2
    <2>2. CASE seq.wsel < 5 /\ seq' = [seq EXCEPT !.vw = vw2, !.wsel = w2]
      BY <1>1, <2>2 DEF SeqRecords, w2
    <2>3. CASE /\ ~(seq.wsel < 5) /\ seq.vsel < 2
               /\ seq' = [seq EXCEPT !.vw = vw2, !.wsel = 0, !.vsel = v2]
      BY <1>1, <2>1, <2>3 DEF SeqRecords, v2
    <2>4. CASE /\ ~(seq.wsel < 5) /\ ~(seq.vsel < 2)
               /\ seq' = [seq EXCEPT !.vw = vw2, !.wsel = 0, !.state = "TRI_GO"]
      BY <1>1, <2>1, <2>4 DEF SeqRecords
    <2> QED
      BY <1>3, <2>2, <2>3, <2>4 DEF w2, v2
  <1>9. /\ IndicesIn(seq', mem') /\ VerticesIn(seq', mem') /\ seq'.tri_i < Len(seq'.q.tris)
        /\ \A i \in 0 .. 2 : IndexRead(seq', i)
    BY <1>1, <1>2, <1>8 DEF IndicesIn, VerticesIn, IndexRead
  <1>10. ASSUME NEW i \in 0 .. 2, NEW w \in 0 .. 5,
                i < seq.vsel \/ (i = seq.vsel /\ w < seq.wsel + 1)
         PROVE  WordRead(seq', i, Fields[w + 1])
    <2> DEFINE g == Fields[w + 1]
    <2>1. g \in F
      <3>1. w + 1 \in 1 .. 6
        OBVIOUS
      <3> QED
        BY <3>1
    <2>2. CASE i = seq.vsel /\ w = seq.wsel
      <3>1. g = f /\ i = seq.vsel
        BY <2>2
      <3> DEFINE c == Corners(seq.q, seq.tri_i + 1)
      <3> HIDE DEF g, f, F, c
      <3>2. word = c[i + 1][g]
        BY <1>5, <3>1 DEF c
      <3>3. vw2[i][g] = word
        BY <1>6, <1>7, <2>1, <3>1
      <3> QED
        BY <1>8, <3>2, <3>3 DEF WordRead, c, g
    <2>3. CASE i < seq.vsel \/ (i = seq.vsel /\ w < seq.wsel)
      <3>1. seq.vw[i][g] = Corners(seq.q, seq.tri_i + 1)[i + 1][g]
        BY <1>2, <2>3 DEF WordRead
      <3> DEFINE c == Corners(seq.q, seq.tri_i + 1)
      <3> HIDE DEF g, f, F, c
      <3>2. vw2[i][g] = c[i + 1][g]
        <4>1. CASE i = seq.vsel /\ g = f
          BY <1>5, <1>6, <1>7, <2>1, <4>1 DEF c
        <4>2. CASE i = seq.vsel /\ g # f
          BY <1>6, <1>7, <2>1, <3>1, <4>2 DEF c
        <4>3. CASE i # seq.vsel
          BY <1>7, <3>1, <4>3 DEF c
        <4> QED
          BY <4>1, <4>2, <4>3
      <3> QED
        BY <1>8, <3>2 DEF WordRead, c, g
    <2> QED
      BY <1>1, <1>10, <2>2, <2>3
  <1> HIDE DEF f, F
  <1>11. CASE seq.wsel < 5 /\ seq'.wsel = seq.wsel + 1 /\ seq'.vsel = seq.vsel /\ seq'.state = "TRI_VTX"
    BY <1>9, <1>10, <1>11 DEF Fetching, Fetches
  <1>12. CASE seq.wsel = 5 /\ seq.vsel < 2 /\ seq'.wsel = 0 /\ seq'.vsel = seq.vsel + 1 /\ seq'.state = "TRI_VTX"
    <2>1. ASSUME NEW i \in 0 .. 2, NEW w \in 0 .. 5, i < seq'.vsel \/ (i = seq'.vsel /\ w < seq'.wsel)
          PROVE  WordRead(seq', i, Fields[w + 1])
      <3>1. i < seq.vsel \/ (i = seq.vsel /\ w < seq.wsel + 1)
        BY <1>1, <1>12, <2>1
      <3> QED
        BY <1>10, <3>1
    <2> QED
      BY <1>9, <1>12, <2>1 DEF Fetching, Fetches
  <1>13. CASE seq.wsel = 5 /\ seq.vsel = 2 /\ seq'.state = "TRI_GO"
    <2> DEFINE c == Corners(seq.q, seq.tri_i + 1)
    <2>1. ASSUME NEW i \in 0 .. 2 PROVE seq'.vw[i] = c[i + 1]
      <3>1. ASSUME NEW w \in 0 .. 5 PROVE seq'.vw[i][Fields[w + 1]] = c[i + 1][Fields[w + 1]]
        <4>1. i < seq.vsel \/ (i = seq.vsel /\ w < seq.wsel + 1)
          BY <1>13
        <4>2. WordRead(seq', i, Fields[w + 1])
          BY <1>10, <4>1
        <4> QED
          BY <1>8, <4>2 DEF WordRead
      <3>2. seq'.vw[i] \in VertexWords
        BY DEF SeqRecords, Fetched
      <3>3. c[i + 1] \in VertexWords
        <4>1. seq.tri_i + 1 \in 1 .. Len(seq.q.tris) /\ seq.q \in Meshes /\ i + 1 \in 1 .. 3
          <5>1. seq.tri_i \in 0 .. MaxTris - 1 /\ seq.q \in Meshes
            BY SeqFacts DEF GfxInv
          <5>2. Len(seq.q.tris) \in Nat
            BY MeshFacts DEF GfxInv
          <5> DEFINE l == Len(seq.q.tris)
          <5> HIDE DEF l
          <5>3. l \in Nat /\ seq.tri_i < l
            BY <1>2, <5>2 DEF l
          <5>4. seq.tri_i + 1 \in 1 .. l /\ i + 1 \in 1 .. 3
            BY <5>1, <5>3, DeviceAssumption
          <5> QED
            BY <5>1, <5>4 DEF l
        <4> QED
          BY <4>1, CornersAre
      <3> HIDE DEF c
      <3> QED
        BY <3>1, <3>2, <3>3, VertexWhole
    <2>2. SeqTri(seq').t = c
      <3>1. c = [i \in 1 .. 3 |-> c[i]]
        BY DEF Corners
      <3>2. \A i \in 1 .. 3 : seq'.vw[i - 1] = c[i]
        <4> HIDE DEF c
        <4> TAKE i \in 1 .. 3
        <4> DEFINE j == i - 1
        <4>1. j \in 0 .. 2 /\ j + 1 = i
          OBVIOUS
        <4> HIDE DEF j
        <4>2. seq'.vw[j] = c[i]
          BY <2>1, <4>1
        <4> QED
          BY <4>2 DEF j
      <3> HIDE DEF c
      <3> QED
        BY <3>1, <3>2 DEF SeqTri
    <2> QED
      BY <1>8, <1>9, <1>13, <2>2 DEF Fetching, Fetches
  <1> QED
    BY <1>8, <1>11, <1>12, <1>13

LEMMA TriGoFetches ==
  ASSUME GfxInv, During, TriGo, Fetching(seq, mem, grid)
  PROVE  Fetching(seq', mem', grid')
  <1>1. /\ seq.state = "TRI_GO" /\ seq' = [seq EXCEPT !.state = "TRI_WAIT"] /\ seq \in SeqRecords
        /\ mem' = mem
    BY DEF TriGo, Goto, GfxInv, Types, During
  <1>2. /\ seq'.state = "TRI_WAIT" /\ seq'.q = seq.q /\ seq'.tri_i = seq.tri_i /\ seq'.vw = seq.vw
    BY <1>1 DEF SeqRecords
  <1>3. /\ IndicesIn(seq, mem) /\ VerticesIn(seq, mem) /\ seq.tri_i < Len(seq.q.tris)
        /\ SeqTri(seq).t = Corners(seq.q, seq.tri_i + 1)
    BY <1>1 DEF Fetching, Fetches
  <1>4. IndicesIn(seq', mem') /\ VerticesIn(seq', mem') /\ SeqTri(seq').t = SeqTri(seq).t
    BY <1>1, <1>2, <1>3 DEF IndicesIn, VerticesIn, SeqTri
  <1> QED
    BY <1>2, <1>3, <1>4 DEF Fetching, Fetches

LEMMA TriWaitFetches ==
  ASSUME GfxInv, During, TriWait, Fetching(seq, mem, grid)
  PROVE  Fetching(seq', mem', grid')
  <1>1. seq.state = "TRI_WAIT" /\ seq \in SeqRecords /\ mem' = mem
    BY DEF TriWait, GfxInv, Types, During
  <1>2. /\ IndicesIn(seq, mem) /\ VerticesIn(seq, mem) /\ seq.tri_i < Len(seq.q.tris)
        /\ SeqTri(seq).t = Corners(seq.q, seq.tri_i + 1)
    BY <1>1 DEF Fetching, Fetches
  <1>3. CASE ~RasterFree
    <2>1. seq' = seq
      BY <1>3 DEF TriWait
    <2> QED
      BY <1>1, <1>2, <2>1 DEF Fetching, Fetches
  <1>4. CASE RasterFree /\ seq.tri_i + 1 >= Len(seq.q.tris)
    <2>1. seq' = [seq EXCEPT !.dma_k = 0, !.state = "DMA"]
      BY <1>4 DEF TriWait
    <2>2. seq'.state = "DMA"
      BY <1>1, <2>1 DEF SeqRecords
    <2> QED
      BY <2>2 DEF Fetching, Fetches
  <1>5. CASE RasterFree /\ ~(seq.tri_i + 1 >= Len(seq.q.tris))
    <2> DEFINE j == seq.tri_i + 1
    <2>1. seq' = [seq EXCEPT !.tri_i = j, !.vsel = 0, !.state = "TRI_IDX"]
      BY <1>5 DEF TriWait
    <2>2. j < Len(seq.q.tris)
      <3>1. seq.tri_i \in 0 .. MaxTris - 1 /\ Len(seq.q.tris) \in Nat
        BY SeqFacts, MeshFacts DEF GfxInv
      <3> QED
        BY <1>5, <3>1, DeviceAssumption
    <2> HIDE DEF j
    <2>3. seq'.state = "TRI_IDX" /\ seq'.q = seq.q /\ seq'.tri_i = j /\ seq'.vsel = 0
      BY <1>1, <2>1 DEF SeqRecords
    <2>4. IndicesIn(seq', mem') /\ VerticesIn(seq', mem')
      BY <1>1, <1>2, <2>3 DEF IndicesIn, VerticesIn
    <2>5. \A i \in 0 .. 2 : ~(i < 0)
      OBVIOUS
    <2> QED
      BY <2>2, <2>3, <2>4, <2>5 DEF Fetching, Fetches
  <1> QED
    BY <1>3, <1>4, <1>5

\* Once the triangles are done, nothing is fetched any more.
LEMMA LaterFetches ==
  ASSUME GfxInv, Dma \/ FsCb \/ FsGo \/ FsWait \/ RopR0 \/ RopR2 \/ RopGo \/ Done
  PROVE  Fetching(seq', mem', grid')
  <1>1. seq \in SeqRecords
    BY DEF GfxInv, Types
  <1>2. seq'.state \in {"DMA", "FS_CB", "FS_GO", "FS_WAIT", "ROP_R0", "ROP_R2", "ROP_GO", "DONE", "IDLE"}
    BY <1>1 DEF Dma, FsCb, FsGo, FsWait, RopR0, RopR2, RopGo, RopNext, Done, Goto, SeqRecords
  <1> QED
    BY <1>2 DEF Fetching, Fetches

\* What each command of the host does, clock by clock.
LEMMA HostDrawIs ==
  ASSUME GfxInv, HostDraw
  PROVE  \E mesh \in Meshes :
           /\ seq' = [seq EXCEPT !.state = "VS_GO", !.q = mesh] /\ seq.state = "IDLE"
           /\ mem' = [mem EXCEPT !.ibuf = [i \in DOMAIN mem.ibuf |->
                        IF i < 3 * Len(mesh.tris) THEN mesh.tris[(i \div 3) + 1][(i % 3) + 1]
                        ELSE mem.ibuf[i]]]
           /\ ras.st = "IDLE" /\ ras' = ras
  <1>1. PICK mesh \in Meshes :
          /\ Draw(mesh)
          /\ mem' = [mem EXCEPT !.ibuf = [i \in DOMAIN mem.ibuf |->
                       IF i < 3 * Len(mesh.tris) THEN mesh.tris[(i \div 3) + 1][(i % 3) + 1]
                       ELSE mem.ibuf[i]]]
    BY DEF HostDraw
  <1>2. /\ seq.state = "IDLE" /\ ras.st = "IDLE" /\ Rasterize(FALSE, Low)
    BY DEF HostDraw, Free, Clock
  <1>3. /\ ~out.fragRst /\ ~out.tri /\ ~out.fin.valid
    BY <1>2, HostClock
  <1>4. ras' = ras
    BY <1>2, <1>3 DEF Rasterize, RasterNext, Accept, Enter, Low
  <1>5. seq' = [seq EXCEPT !.state = "VS_GO", !.q = mesh]
    BY <1>1 DEF Draw
  <1> QED
    BY <1>1, <1>2, <1>4, <1>5

LEMMA HostDrawFetches ==
  ASSUME GfxInv, HostDraw
  PROVE  Fetching(seq', mem', grid')
  <1> DEFINE ibuf(m) == [i \in DOMAIN mem.ibuf |->
                          IF i < 3 * Len(m.tris) THEN m.tris[(i \div 3) + 1][(i % 3) + 1]
                          ELSE mem.ibuf[i]]
  <1>1. PICK m \in Meshes : /\ seq' = [seq EXCEPT !.state = "VS_GO", !.q = m]
                            /\ mem' = [mem EXCEPT !.ibuf = ibuf(m)]
    BY HostDrawIs
  <1>2. seq \in SeqRecords /\ mem \in Buffers /\ DOMAIN mem.ibuf = 0 .. 3 * MaxTris - 1
    BY DEF GfxInv, Types, Buffers
  <1>3. seq'.state = "VS_GO" /\ seq'.q = m
    BY <1>1, <1>2 DEF SeqRecords
  <1>4. mem'.ibuf = ibuf(m)
    <2> HIDE DEF ibuf
    <2> QED
      BY <1>1, <1>2 DEF Buffers
  <1>5. Len(m.tris) \in Nat /\ Len(m.tris) <= MaxTris
    BY CommandsAssumption
  <1>6. IndicesIn(seq', mem')
    <2> SUFFICES ASSUME NEW n \in 0 .. Len(m.tris) - 1, NEW i \in 0 .. 2
                 PROVE  ibuf(m)[n * 3 + i] = m.tris[n + 1][i + 1]
      BY <1>3, <1>4 DEF IndicesIn
    <2> DEFINE k == n * 3 + i
               l == Len(m.tris)
    <2>1. l \in Nat /\ l <= MaxTris
      BY <1>5
    <2> HIDE DEF l
    <2>2. k \in 0 .. 3 * MaxTris - 1 /\ k < 3 * l /\ k \div 3 = n /\ k % 3 = i
      <3>1. n \in 0 .. l - 1
        BY DEF l
      <3> QED
        BY <2>1, <3>1, DeviceAssumption
    <2> HIDE DEF k
    <2>3. ibuf(m)[k] = m.tris[(k \div 3) + 1][(k % 3) + 1]
      BY <1>2, <2>2 DEF l
    <2> QED
      BY <2>2, <2>3 DEF k
  <1> QED
    BY <1>3, <1>6 DEF Fetching, Fetches

LEMMA FetchingKept ==
  ASSUME GfxInv, GfxInv', MeshesDrawable, Fetching(seq, mem, grid), Next
  PROVE  Fetching(seq', mem', grid')
  <1>1. ASSUME NEW ends \in BOOLEAN, DrawRuns(ends)
        PROVE  Fetching(seq', mem', grid')
    <2>1. During /\ Busy
      BY <1>1, DrawClock
    <2>2. seq' \in SeqRecords
      BY DEF GfxInv, Types
    <2> QED
      BY <2>1, <2>2, VsGoFetches, VsWaitFetches, TriIdxFetches, TriVtxFetches, TriGoFetches,
         TriWaitFetches, LaterFetches DEF Busy
  <1>2. ASSUME HostClear \/ HostTriangle \/ RasterRuns \/ Sleep
        PROVE  Fetching(seq', mem', grid')
    <2>1. seq'.state = "IDLE"
      BY <1>2 DEF HostClear, HostTriangle, RasterRuns, Sleep, Rest
    <2> QED
      BY <2>1 DEF Fetching, Fetches
  <1> QED
    BY <1>1, <1>2, HostDrawFetches DEF Next

-----------------------------------------------------------------------------
\* What a draw call has collected.

\* What the fragment buffer holds while a draw call works: the golden model's fragments, as
\* they will be when shaded, of the triangles done and of the pixels the scan has passed.
MeshTris(m)      == [n \in 1 .. Len(m.tris) |-> Corners(m, n)]
TrisWrites(m, k) == TrianglesWrites(MeshTris(m), m.how, k)
Triangled == {"TRI_IDX", "TRI_VTX", "TRI_GO"}
Collected == {"DMA", "FS_CB", "FS_GO", "FS_WAIT", "ROP_R0", "ROP_R2", "ROP_GO", "DONE"}

Drawing(s, r, o) ==
  /\ s.state = "VS_WAIT" => r.frags = << >>
  /\ s.state \in Triangled => Shown(r.frags, s.q.how) = Fitting(TrisWrites(s.q, s.tri_i))
  /\ s.state = "TRI_WAIT" /\ o # Quiet => Shown(r.frags, s.q.how) = Fitting(TrisWrites(s.q, s.tri_i))
  /\ s.state = "TRI_WAIT" /\ o = Quiet =>
       /\ r.tri = SeqTri(s)
       /\ Shown(r.frags, s.q.how) =
            Fitting(TrisWrites(s.q, s.tri_i) \o ShadedOf(r.tri.t, s.q.how, Passed(r)))
  /\ s.state \in Collected => Shown(r.frags, s.q.how) = MeshWrites[s.q]

LEMMA MeshTrisAre ==
  ASSUME MeshesDrawable, NEW m \in Meshes
  PROVE  /\ MeshTris(m) \in Seq(Triangles) /\ Len(MeshTris(m)) = Len(m.tris) /\ Len(m.tris) \in Nat
         /\ m.how \in Settings
         /\ \A n \in 1 .. Len(m.tris) : MeshTris(m)[n] = Corners(m, n) /\ Corners(m, n) \in Triangles
         /\ MeshWrites[m] = Fitting(TrisWrites(m, Len(m.tris)))
  <1>1. m.tris \in Seq([1 .. 3 -> 0 .. MaxVerts - 1]) /\ m.how \in Settings
    BY CommandsAssumption
  <1>2. Len(m.tris) \in Nat
    BY <1>1
  <1>3. \A n \in 1 .. Len(m.tris) : Corners(m, n) \in Triangles
    BY CornersAre
  <1> DEFINE l == Len(m.tris)
  <1>4. MeshTris(m) = [n \in 1 .. l |-> Corners(m, n)] /\ l \in Nat
    BY <1>2 DEF MeshTris
  <1> HIDE DEF l
  <1>5. MeshTris(m) \in Seq(Triangles) /\ Len(MeshTris(m)) = l
    BY <1>3, <1>4 DEF l
  <1>6. \A n \in 1 .. l : MeshTris(m)[n] = Corners(m, n)
    BY <1>4
  <1>7. MeshWrites[m] = DrawWrites(MeshTris(m), m.how)
    BY DEF MeshWrites, MeshTris
  <1>8. DrawWrites(MeshTris(m), m.how) = Fitting(TrisWrites(m, l))
    BY <1>5 DEF DrawWrites, TrisWrites
  <1> QED
    BY <1>1, <1>2, <1>3, <1>5, <1>6, <1>7, <1>8 DEF l

\* One triangle more.
LEMMA TrisMore ==
  ASSUME MeshesDrawable, NEW m \in Meshes, NEW k \in 0 .. Len(m.tris) - 1
  PROVE  /\ TrisWrites(m, 0) = << >> /\ TrisWrites(m, k) \in Seq(AllShaded)
         /\ TrisWrites(m, k + 1) =
              TrisWrites(m, k) \o ShadedOf(Corners(m, k + 1), m.how, GoldenPixels(Corners(m, k + 1)))
  <1>1. /\ MeshTris(m) \in Seq(Triangles) /\ Len(MeshTris(m)) = Len(m.tris) /\ Len(m.tris) \in Nat
        /\ m.how \in Settings
        /\ \A n \in 1 .. Len(m.tris) : MeshTris(m)[n] = Corners(m, n) /\ Corners(m, n) \in Triangles
    BY MeshTrisAre
  <1> DEFINE ts == MeshTris(m)
             l == Len(m.tris)
             n == k + 1
  <1>2. l \in Nat /\ k \in 0 .. l - 1 /\ Len(ts) = l
    BY <1>1
  <1> HIDE DEF ts, l
  <1>3. k \in 0 .. l /\ n \in 1 .. l
    BY <1>2
  <1>4. /\ TrianglesWrites(ts, m.how, 0) = << >>
        /\ TrianglesWrites(ts, m.how, n) = TrianglesWrites(ts, m.how, k) \o ShadedWrites(ts[n], m.how)
    BY <1>2, TrianglesRecur
  <1> HIDE DEF n
  <1>5. TrianglesWrites(ts, m.how, k) \in Seq(AllShaded)
    BY <1>1, <1>2, <1>3, TrianglesTyped DEF ts
  <1>6. ts[n] = Corners(m, n) /\ Corners(m, n) \in Triangles
    BY <1>1, <1>3 DEF ts, l
  <1>7. ShadedWrites(Corners(m, n), m.how) = ShadedOf(Corners(m, n), m.how, GoldenPixels(Corners(m, n)))
    BY <1>1, <1>6, TriangleIs
  <1> QED
    BY <1>4, <1>5, <1>6, <1>7 DEF TrisWrites, ts, n

\* The shaded pixels of none, joined to what is there.
LEMMA ShadedNone ==
  ASSUME NEW S, NEW a \in Seq(S), NEW t, NEW how
  PROVE  a \o ShadedOf(t, how, << >>) = a
  <1>1. ShadedOf(t, how, << >>) = << >>
    BY DEF ShadedOf
  <1> QED
    BY <1>1

LEMMA FittingNone == Fitting(<< >>) = << >> /\ \A how : Shown(<< >>, how) = << >>
  <1>1. Len(<< >>) = 0 /\ 0 <= FragMax
    BY TargetAssumption
  <1> QED
    BY <1>1 DEF Fitting, Shown

LEMMA VsDrawing ==
  ASSUME GfxInv, During, MeshesDrawable, VsGo \/ VsWait, Drawing(seq, ras, out)
  PROVE  Drawing(seq', ras', out')
  <1>1. seq \in SeqRecords /\ ras \in RasterRecords /\ seq.q \in Meshes
    BY SeqFacts DEF GfxInv, Types, RasterOK
  <1>2. CASE VsGo
    <2>1. seq'.state = "VS_WAIT" /\ ras'.frags = << >>
      BY <1>1, <1>2 DEF VsGo, Goto, SeqRecords, RasterRecords, During
    <2> QED
      BY <2>1 DEF Drawing, Triangled, Collected
  <1>3. CASE VsWait
    <2>1. seq.state = "VS_WAIT" /\ ras' = ras /\ ras.frags = << >>
      BY <1>3 DEF VsWait, During, Drawing
    <2>2. CASE seq' = seq
      BY <2>1, <2>2 DEF Drawing, Triangled, Collected
    <2>3. CASE seq' = [seq EXCEPT !.tri_i = 0, !.vsel = 0, !.state = "TRI_IDX"]
      <3>1. seq'.state = "TRI_IDX" /\ seq'.tri_i = 0 /\ seq'.q = seq.q
        BY <1>1, <2>3 DEF SeqRecords
      <3>2. TrisWrites(seq.q, 0) = << >>
        <4>1. seq.q.tris # << >> /\ seq.q.tris \in Seq([1 .. 3 -> 0 .. MaxVerts - 1])
          BY <1>1, CommandsAssumption DEF MeshesDrawable, Drawable
        <4>2. 0 \in 0 .. Len(seq.q.tris) - 1
          BY <4>1
        <4> QED
          BY <1>1, <4>2, TrisMore
      <3>3. Shown(ras'.frags, seq'.q.how) = << >> /\ Fitting(TrisWrites(seq'.q, seq'.tri_i)) = << >>
        BY <2>1, <3>1, <3>2, FittingNone
      <3> QED
        BY <3>1, <3>3 DEF Drawing, Triangled, Collected
    <2> QED
      BY <1>3, <2>2, <2>3 DEF VsWait
  <1> QED
    BY <1>2, <1>3

LEMMA TriDrawing ==
  ASSUME GfxInv, During, TriIdx \/ TriVtx \/ TriGo, Drawing(seq, ras, out)
  PROVE  Drawing(seq', ras', out')
  <1>1. seq \in SeqRecords
    BY DEF GfxInv, Types
  <1>2. seq.state \in Triangled /\ seq'.q = seq.q /\ seq'.tri_i = seq.tri_i
        /\ \/ seq'.state \in Triangled
           \/ seq'.state = "TRI_WAIT" /\ out' = Given
    <2> DEFINE idx2 == [seq.idx EXCEPT ![seq.vsel] = mem.ibuf[seq.tri_i * 3 + seq.vsel]]
               f == Fields[seq.wsel + 1]
               vw2 == [seq.vw EXCEPT ![seq.vsel] =
                        [seq.vw[seq.vsel] EXCEPT ![f] = mem.vout[seq.idx[seq.vsel]][f]]]
    <2>1. CASE TriIdx
      <3>1. \/ seq' = [seq EXCEPT !.idx = idx2, !.vsel = 0, !.wsel = 0, !.state = "TRI_VTX"]
            \/ seq' = [seq EXCEPT !.idx = idx2, !.vsel = seq.vsel + 1]
        BY <2>1 DEF TriIdx
      <3> HIDE DEF idx2
      <3> QED
        BY <1>1, <2>1, <3>1 DEF TriIdx, SeqRecords, Triangled
    <2>2. CASE TriVtx
      <3>1. \/ seq' = [seq EXCEPT !.vw = vw2, !.wsel = seq.wsel + 1]
            \/ seq' = [seq EXCEPT !.vw = vw2, !.wsel = 0, !.vsel = seq.vsel + 1]
            \/ seq' = [seq EXCEPT !.vw = vw2, !.wsel = 0, !.state = "TRI_GO"]
        BY <2>2 DEF TriVtx
      <3> HIDE DEF vw2
      <3> QED
        BY <1>1, <2>2, <3>1 DEF TriVtx, SeqRecords, Triangled
    <2>3. CASE TriGo
      BY <1>1, <2>3 DEF TriGo, Goto, Pulse, Given, SeqRecords, Triangled
    <2> QED
      BY <2>1, <2>2, <2>3
  <1>3. ras' = ras
    BY <1>2 DEF During, Triangled
  <1>4. Shown(ras'.frags, seq'.q.how) = Fitting(TrisWrites(seq'.q, seq'.tri_i))
    BY <1>2, <1>3 DEF Drawing
  <1>5. CASE seq'.state \in Triangled
    BY <1>4, <1>5 DEF Drawing, Triangled, Collected
  <1>6. CASE seq'.state = "TRI_WAIT" /\ out' = Given
    <2>1. out' # Quiet
      BY <1>6 DEF Given, Quiet
    <2> QED
      BY <1>4, <1>6, <2>1 DEF Drawing, Triangled, Collected
  <1> QED
    BY <1>2, <1>5, <1>6

LEMMA TriWaitDrawing ==
  ASSUME GfxInv, During, MeshesDrawable, TriWait, Fetching(seq, mem, grid), Drawing(seq, ras, out)
  PROVE  Drawing(seq', ras', out')
  <1> DEFINE m == seq.q
             k == seq.tri_i
             before == TrisWrites(m, k)
             t == SeqTri(seq).t
  <1>1. /\ seq.state = "TRI_WAIT" /\ seq \in SeqRecords /\ m \in Meshes /\ out' = Quiet
        /\ RasterOK(ras) /\ ras \in RasterRecords
    BY SeqFacts DEF TriWait, Silent, GfxInv, Types, RasterOK
  <1>2. k < Len(m.tris) /\ t = Corners(m, k + 1)
    BY <1>1 DEF Fetching, Fetches
  <1>3. Len(m.tris) \in Nat /\ k \in 0 .. Len(m.tris) - 1
    <2>1. Len(m.tris) \in Nat /\ k \in 0 .. MaxTris - 1
      BY SeqFacts, MeshFacts DEF GfxInv
    <2> DEFINE l == Len(m.tris)
    <2>2. l \in Nat /\ k < l
      BY <1>2, <2>1
    <2> HIDE DEF l, k
    <2>3. k \in 0 .. l - 1
      BY <2>1, <2>2, DeviceAssumption
    <2> QED
      BY <2>1, <2>3 DEF l
  <1> HIDE DEF m, k
  <1>4. /\ before \in Seq(AllShaded)
        /\ TrisWrites(m, k + 1) = before \o ShadedOf(t, m.how, GoldenPixels(t))
    BY <1>1, <1>2, <1>3, TrisMore
  <1>5. SeqTriangle = SeqTri(seq)
    BY DEF SeqTriangle, SeqTri
  <1>6. SeqTriangle \in Submission
    BY <1>1, SeqFacts, MeshFacts DEF SeqTriangle, Submission, GfxInv
  <1> HIDE DEF before, t
  <1>7. CASE out = Given /\ ras.st = "IDLE" /\ ras' = Submitted(ras, SeqTriangle)
    <2>1. seq' = seq
      BY <1>7, GivenSignals DEF TriWait, RasterFree
    <2>2. /\ ras'.tri = SeqTriangle /\ Passed(ras') = << >> /\ ras'.frags = ras.frags
      BY <1>1, <1>6, <1>7, ScanStarts
    <2>3. out # Quiet
      BY <1>7 DEF Given, Quiet
    <2>4. Shown(ras.frags, m.how) = Fitting(before)
      BY <1>1, <2>3 DEF Drawing, m, k, before
    <2>5. before \o ShadedOf(ras'.tri.t, m.how, Passed(ras')) = before
      BY <1>4, <2>2, ShadedNone
    <2> QED
      BY <1>1, <1>5, <2>1, <2>2, <2>4, <2>5 DEF Drawing, Triangled, Collected, m, k, before
  <1>8. CASE out = Quiet /\ ras.st = "SCAN" /\ ras' = Scan(ras)
    <2>1. seq' = seq
      BY <1>8 DEF TriWait, RasterFree
    <2>2. /\ ras.tri = SeqTri(seq)
          /\ Shown(ras.frags, m.how) = Fitting(before \o ShadedOf(ras.tri.t, m.how, Passed(ras)))
      BY <1>1, <1>8 DEF Drawing, m, k, before
    <2>3. ras.tri.emit /\ ~ras.tri.cull /\ m.how \in Settings
      BY <2>2, MeshFacts DEF SeqTri, GfxInv, m
    <2>4. /\ Shown(ras'.frags, m.how) = Fitting(before \o ShadedOf(ras.tri.t, m.how, Passed(ras')))
          /\ ras'.tri = ras.tri
      BY <1>1, <1>4, <1>8, <2>2, <2>3, DrawScan
    <2> QED
      BY <1>1, <2>1, <2>2, <2>4 DEF Drawing, Triangled, Collected, m, k, before
  <1>9. CASE out = Quiet /\ ras.st = "IDLE" /\ ras' = ras
    <2>1. RasterFree
      BY <1>9, QuietSignals DEF RasterFree, ToRaster
    <2>2. /\ ras.tri = SeqTri(seq)
          /\ Shown(ras.frags, m.how) = Fitting(before \o ShadedOf(ras.tri.t, m.how, Passed(ras)))
      BY <1>1, <1>9 DEF Drawing, m, k, before
    <2>3. ras.tri.t = t /\ Passed(ras) = GoldenPixels(t)
      BY <1>9, <2>2 DEF Passed, t
    <2>4. Shown(ras.frags, m.how) = Fitting(TrisWrites(m, k + 1))
      BY <1>4, <2>2, <2>3, Zenon
    <2>5. CASE k + 1 >= Len(m.tris)
      <3>1. seq' = [seq EXCEPT !.dma_k = 0, !.state = "DMA"]
        BY <2>1, <2>5 DEF TriWait, m, k
      <3>2. seq'.state = "DMA" /\ seq'.q = m
        BY <1>1, <3>1 DEF SeqRecords, m
      <3>3. k + 1 = Len(m.tris)
        BY <1>3, <2>5
      <3>4. MeshWrites[m] = Fitting(TrisWrites(m, Len(m.tris)))
        BY <1>1, MeshTrisAre
      <3>5. Shown(ras'.frags, seq'.q.how) = MeshWrites[seq'.q]
        BY <1>9, <2>4, <3>2, <3>3, <3>4
      <3> QED
        BY <3>2, <3>5 DEF Drawing, Triangled, Collected
    <2>6. CASE ~(k + 1 >= Len(m.tris))
      <3> DEFINE j == k + 1
      <3>1. seq' = [seq EXCEPT !.tri_i = j, !.vsel = 0, !.state = "TRI_IDX"]
        BY <2>1, <2>6 DEF TriWait, m, k
      <3> HIDE DEF j
      <3>2. seq'.state = "TRI_IDX" /\ seq'.q = m /\ seq'.tri_i = j
        BY <1>1, <3>1 DEF SeqRecords, m
      <3>3. Shown(ras'.frags, seq'.q.how) = Fitting(TrisWrites(seq'.q, seq'.tri_i))
        BY <1>9, <2>4, <3>2 DEF j
      <3> QED
        BY <3>2, <3>3 DEF Drawing, Triangled, Collected
    <2> QED
      BY <2>5, <2>6
  <1> QED
    BY <1>1, <1>7, <1>8, <1>9 DEF During

\* After the triangles the buffer stays.
LEMMA LaterDrawing ==
  ASSUME GfxInv, During, Dma \/ FsCb \/ FsGo \/ FsWait \/ RopR0 \/ RopR2 \/ RopGo \/ Done,
         Drawing(seq, ras, out)
  PROVE  Drawing(seq', ras', out')
  <1>1. seq \in SeqRecords /\ ras \in RasterRecords
    BY DEF GfxInv, Types, RasterOK
  <1>2. seq.state \in Collected /\ seq'.state \in Collected \cup {"IDLE"} /\ seq'.q = seq.q
    BY <1>1 DEF Dma, FsCb, FsGo, FsWait, RopR0, RopR2, RopGo, RopNext, Done, Goto, SeqRecords, Collected
  <1>3. ras'.frags = ras.frags
    BY <1>1, <1>2 DEF During, Collected, Blended, RasterRecords
  <1>4. Shown(ras'.frags, seq'.q.how) = MeshWrites[seq'.q]
    BY <1>2, <1>3 DEF Drawing
  <1>5. seq'.state \notin Triangled /\ seq'.state # "VS_WAIT" /\ seq'.state # "TRI_WAIT"
    BY <1>2 DEF Collected, Triangled
  <1> QED
    BY <1>4, <1>5 DEF Drawing

LEMMA DrawingKept ==
  ASSUME GfxInv, MeshesDrawable, Fetching(seq, mem, grid), Drawing(seq, ras, out), Next
  PROVE  Drawing(seq', ras', out')
  <1>1. ASSUME NEW ends \in BOOLEAN, DrawRuns(ends)
        PROVE  Drawing(seq', ras', out')
    <2>1. During /\ Busy
      BY <1>1, DrawClock
    <2> QED
      BY <2>1, VsDrawing, TriDrawing, TriWaitDrawing, LaterDrawing DEF Busy
  <1>2. ASSUME HostClear \/ HostTriangle \/ HostDraw \/ RasterRuns \/ Sleep
        PROVE  Drawing(seq', ras', out')
    <2>1. seq \in SeqRecords
      BY DEF GfxInv, Types
    <2>2. seq'.state \in {"IDLE", "VS_GO"}
      BY <1>2, <2>1 DEF HostClear, HostTriangle, HostDraw, Draw, RasterRuns, Sleep, Rest, SeqRecords
    <2> QED
      BY <2>2 DEF Drawing, Triangled, Collected
  <1> QED
    BY <1>1, <1>2 DEF Next

-----------------------------------------------------------------------------
\* The refinement, step by step.

\* What is left of a draw call, and of whatever the device does.
DrawLeft(s) ==
  IF s.state \in {"ROP_R0", "ROP_R2", "ROP_GO", "DONE"} THEN Remaining(MeshWrites[s.q], s.rop_k)
  ELSE MeshWrites[s.q]
TodoOf(s, r, c) ==
  CASE r.st = "CLEAR" -> Remaining(ClearWrites(c), r.cidx)
    [] r.st = "SCAN" /\ ~r.tri.emit ->
         Remaining(HostWrites[r.tri], Len(PixelsBefore(r.tri.t, Pidx(r))))
    [] s.state # "IDLE" -> DrawLeft(s)
    [] OTHER -> << >>

LEMMA TodoIs == Todo = TodoOf(seq, ras, clear_color) /\ Todo' = TodoOf(seq', ras', clear_color')
  BY DEF Todo, TodoOf, DrawLeft, Pidx

LEMMA TodoHost ==
  ASSUME NEW s, NEW r, NEW c, s.state = "IDLE"
  PROVE  /\ r.st = "IDLE" => TodoOf(s, r, c) = << >>
         /\ r.st = "CLEAR" => TodoOf(s, r, c) = Remaining(ClearWrites(c), r.cidx)
         /\ r.st = "SCAN" /\ ~r.tri.emit => TodoOf(s, r, c) = LeftOf(r)
         /\ r.st = "SCAN" /\ r.tri.emit => TodoOf(s, r, c) = << >>
  <1>1. ASSUME r.st = "IDLE" PROVE TodoOf(s, r, c) = << >>
    BY <1>1 DEF TodoOf
  <1>2. ASSUME r.st = "CLEAR" PROVE TodoOf(s, r, c) = Remaining(ClearWrites(c), r.cidx)
    BY <1>2 DEF TodoOf
  <1>3. ASSUME r.st = "SCAN", ~r.tri.emit PROVE TodoOf(s, r, c) = LeftOf(r)
    BY <1>3 DEF TodoOf, LeftOf
  <1>4. ASSUME r.st = "SCAN", r.tri.emit PROVE TodoOf(s, r, c) = << >>
    BY <1>4 DEF TodoOf
  <1> QED
    BY <1>1, <1>2, <1>3, <1>4

\* While a draw call works the rasterizer writes nothing itself.
Works(s, r, o) ==
  /\ r.st \in {"IDLE", "CLEAR", "SCAN"}
  /\ s.state \notin {"IDLE", "TRI_WAIT"} => r.st = "IDLE"
  /\ s.state = "TRI_WAIT" => IF o = Quiet THEN r.st # "CLEAR" ELSE r.st = "IDLE"

LEMMA TodoDraw ==
  ASSUME NEW s, NEW r, NEW o, NEW c, s.state # "IDLE", Works(s, r, o), Drawing(s, r, o)
  PROVE  TodoOf(s, r, c) = DrawLeft(s)
  <1>1. r.st = "IDLE" \/ (r.st = "SCAN" /\ r.tri.emit)
    <2>1. CASE s.state # "TRI_WAIT"
      BY <2>1 DEF Works
    <2>2. CASE s.state = "TRI_WAIT" /\ o = Quiet
      <3>1. r.tri = SeqTri(s)
        BY <2>2 DEF Drawing
      <3>2. r.tri.emit
        BY <3>1 DEF SeqTri
      <3> QED
        BY <2>2, <3>2 DEF Works
    <2>3. CASE s.state = "TRI_WAIT" /\ o # Quiet
      BY <2>3 DEF Works
    <2> QED
      BY <2>1, <2>2, <2>3
  <1> QED
    BY <1>1 DEF TodoOf

LEMMA WorksNow ==
  /\ GfxInv => Works(seq, ras, out)
  /\ GfxInv' => Works(seq', ras', out')
  BY DEF GfxInv, Types, RasterOK, RasterRecords, RasterWorks, Works

\* A step of the golden model, or none.
Rendered(fb1, before, fb2, after) ==
  \/ fb2 = fb1 /\ after = before
  \/ OneWrite(fb1, before, fb2, after)
  \/ before = << >> /\ after # << >> /\ after \in Commands /\ fb2 = fb1

LEMMA GoldenStep ==
  ASSUME Rendered(ras.fb, Todo, ras'.fb, Todo')
  PROVE  [Golden!Next]_<< ras.fb, Todo >>
  <1>1. CASE ras'.fb = ras.fb /\ Todo' = Todo
    BY <1>1
  <1>2. CASE OneWrite(ras.fb, Todo, ras'.fb, Todo')
    BY <1>2 DEF OneWrite, Golden!Next, Golden!Write
  <1>3. CASE Todo = << >> /\ Todo' # << >> /\ Todo' \in Commands /\ ras'.fb = ras.fb
    BY <1>3 DEF Golden!Next, Golden!Begin
  <1> QED
    BY <1>1, <1>2, <1>3 DEF Rendered

\* A command begins with all of its writes left, if it has any.
LEMMA Begun ==
  ASSUME NEW S, NEW all \in Seq(S), all \in Commands, NEW fb
  PROVE  Rendered(fb, << >>, fb, all) /\ Rendered(fb, << >>, fb, Remaining(all, 0))
  <1>1. Remaining(all, 0) = all
    BY RemainingOf
  <1>2. Rendered(fb, << >>, fb, all)
    BY DEF Rendered
  <1> QED
    BY <1>1, <1>2, Zenon

LEMMA ClearTypes ==
  ASSUME NEW c
  PROVE  \E S : ClearWrites(c) \in Seq(S)
  <1> DEFINE S == {[pidx |-> i - 1, clear |-> TRUE, rgb |-> c] : i \in 1 .. W * H}
             n == W * H
  <1>1. n \in Nat
    BY TargetSize
  <1>2. ClearWrites(c) = [i \in 1 .. n |-> [pidx |-> i - 1, clear |-> TRUE, rgb |-> c]]
    BY DEF ClearWrites
  <1>3. \A i \in 1 .. n : [pidx |-> i - 1, clear |-> TRUE, rgb |-> c] \in S
    OBVIOUS
  <1> HIDE DEF S, n
  <1>4. ClearWrites(c) \in Seq(S)
    BY <1>1, <1>2, <1>3
  <1> QED
    BY <1>4

\* A scan for the fragment buffer leaves the framebuffer alone.
LEMMA EmitScan ==
  ASSUME NEW r, RasterOK(r), r.st = "SCAN", r.tri.emit
  PROVE  Scan(r).fb = r.fb /\ Scan(r).tri = r.tri
  <1>1. r \in RasterRecords
    BY DEF RasterOK
  <1>2. CASE Culled(r.tri)
    BY <1>1, <1>2 DEF Scan, RasterRecords
  <1>3. CASE ~Culled(r.tri)
    <2>1. Scan(r).tri = r.tri /\ Scan(r).fb = Plot(r).fb
      BY <1>3, ScanPasses
    <2> DEFINE frags == Append(r.frags, Record(r))
    <2>2. Plot(r) = r \/ Plot(r) = [r EXCEPT !.frags = frags]
      BY DEF Plot
    <2> HIDE DEF frags
    <2>3. Plot(r).fb = r.fb
      BY <1>1, <2>2 DEF RasterRecords
    <2> QED
      BY <2>1, <2>3
  <1> QED
    BY <1>2, <1>3

HostScanning(s, r) == s.state = "IDLE" /\ r.st = "SCAN" => r.tri \in HostTriangles

\* One lemma for each step: it is one of the golden model, or none.
LEMMA HostClearRefines ==
  ASSUME GfxInv, HostClear
  PROVE  Rendered(ras.fb, Todo, ras'.fb, Todo') /\ HostScanning(seq', ras')
  <1>1. /\ seq.state = "IDLE" /\ ras.st = "IDLE" /\ seq' = seq /\ clear_color' \in ClearColours
        /\ Rasterize(TRUE, Low)
    BY DEF HostClear, Free, Clock, Rest
  <1>2. /\ ~out.fragRst /\ ~out.fin.valid /\ ras \in RasterRecords
    BY <1>1, HostClock DEF RasterOK
  <1>3. ras' = Cleared(ras)
    BY <1>1, <1>2 DEF Rasterize, RasterNext, Accept, Enter, Cleared, Low
  <1>4. ras'.fb = ras.fb /\ ras'.st = "CLEAR" /\ ras'.cidx = 0
    BY <1>2, <1>3 DEF Cleared, RasterRecords
  <1>5. Todo = << >> /\ Todo' = Remaining(ClearWrites(clear_color'), 0)
    BY <1>1, <1>4, TodoIs, TodoHost
  <1> DEFINE all == ClearWrites(clear_color')
  <1>6. all \in Commands
    BY <1>1 DEF Commands
  <1>7. PICK S : all \in Seq(S)
    BY ClearTypes
  <1> HIDE DEF all
  <1>8. Rendered(ras.fb, << >>, ras.fb, Remaining(all, 0))
    BY <1>6, <1>7, Begun
  <1> QED
    BY <1>4, <1>5, <1>8 DEF all, HostScanning

LEMMA HostTriangleRefines ==
  ASSUME GfxInv, HostTriangle
  PROVE  Rendered(ras.fb, Todo, ras'.fb, Todo') /\ HostScanning(seq', ras')
  <1>1. /\ seq.state = "IDLE" /\ ras.st = "IDLE" /\ seq' = seq
        /\ \E tri \in HostTriangles : Clock(FALSE, FALSE, tri)
    BY DEF HostTriangle, Free, Rest
  <1>2. PICK tri \in HostTriangles : Clock(FALSE, FALSE, tri)
    BY <1>1
  <1>3. ~out.fragRst /\ ~out.fin.valid /\ RasterOK(ras)
    BY <1>1, HostClock
  <1>4. tri \in Submission /\ tri.valid
    BY CommandsAssumption DEF Submission
  <1>5. ras' = Submitted(ras, tri)
    BY <1>1, <1>2, <1>3, <1>4 DEF Clock, Rasterize, RasterNext, Accept, Enter, Submitted
  <1>6. /\ ras'.st = "SCAN" /\ ras'.tri = tri /\ Passed(ras') = << >> /\ ras'.fb = ras.fb
    BY <1>3, <1>4, <1>5, ScanStarts
  <1>7. Todo = << >>
    BY <1>1, TodoIs, TodoHost
  <1>8. ASSUME tri.emit PROVE Rendered(ras.fb, Todo, ras'.fb, Todo')
    <2>1. Todo' = << >>
      BY <1>1, <1>6, <1>8, TodoIs, TodoHost
    <2> QED
      BY <1>6, <1>7, <2>1 DEF Rendered
  <1>9. ASSUME ~tri.emit PROVE Rendered(ras.fb, Todo, ras'.fb, Todo')
    <2> DEFINE all == HostWrites[tri]
    <2>1. Todo' = LeftOf(ras')
      BY <1>1, <1>6, <1>9, TodoIs, TodoHost
    <2>2. LeftOf(ras') = Remaining(all, Len(Passed(ras')))
      BY <1>6 DEF LeftOf, Passed
    <2>3. Len(Passed(ras')) = 0
      BY <1>6
    <2>4. all \in Seq(AllPlain)
      BY HostWritesIs
    <2>5. all \in Commands
      BY DEF Commands
    <2> HIDE DEF all
    <2>6. Rendered(ras.fb, << >>, ras.fb, Remaining(all, 0))
      BY <2>4, <2>5, Begun
    <2> QED
      BY <1>6, <1>7, <2>1, <2>2, <2>3, <2>6
  <1> QED
    BY <1>6, <1>8, <1>9 DEF HostScanning

LEMMA MeshWritesType ==
  ASSUME MeshesDrawable, NEW m \in Meshes
  PROVE  MeshWrites[m] \in Seq(AllShaded) /\ MeshWrites[m] \in Commands
  <1>1. /\ MeshTris(m) \in Seq(Triangles) /\ Len(MeshTris(m)) = Len(m.tris) /\ Len(m.tris) \in Nat
        /\ m.how \in Settings /\ MeshWrites[m] = Fitting(TrisWrites(m, Len(m.tris)))
    BY MeshTrisAre
  <1> DEFINE k == Len(m.tris)
  <1>2. k \in 0 .. Len(MeshTris(m))
    BY <1>1
  <1> HIDE DEF k
  <1>3. TrisWrites(m, k) \in Seq(AllShaded)
    BY <1>1, <1>2, TrianglesTyped DEF TrisWrites
  <1>4. Fitting(TrisWrites(m, k)) \in Seq(AllShaded)
    BY <1>3, FittingTypes
  <1>5. MeshWrites[m] \in Commands
    BY DEF Commands
  <1> QED
    BY <1>1, <1>4, <1>5 DEF k

LEMMA HostDrawRefines ==
  ASSUME GfxInv, MeshesDrawable, HostDraw
  PROVE  Rendered(ras.fb, Todo, ras'.fb, Todo') /\ HostScanning(seq', ras')
  <1>1. PICK m \in Meshes :
          /\ seq' = [seq EXCEPT !.state = "VS_GO", !.q = m] /\ seq.state = "IDLE"
          /\ ras.st = "IDLE" /\ ras' = ras
    BY HostDrawIs
  <1>2. seq'.state = "VS_GO" /\ seq'.q = m
    BY <1>1 DEF GfxInv, Types, SeqRecords
  <1>3. Todo = << >>
    BY <1>1, TodoIs, TodoHost
  <1>4. Todo' = MeshWrites[m]
    <2>1. TodoOf(seq', ras', clear_color') = DrawLeft(seq')
      BY <1>1, <1>2 DEF TodoOf
    <2> QED
      BY <1>2, <2>1, TodoIs DEF DrawLeft
  <1>5. Rendered(ras.fb, << >>, ras.fb, MeshWrites[m])
    BY MeshWritesType, Begun
  <1> QED
    BY <1>1, <1>2, <1>3, <1>4, <1>5 DEF HostScanning

LEMMA SleepRefines ==
  ASSUME GfxInv, Sleep
  PROVE  Rendered(ras.fb, Todo, ras'.fb, Todo') /\ HostScanning(seq', ras')
  <1>1. /\ seq.state = "IDLE" /\ ras.st = "IDLE" /\ seq' = seq /\ Rasterize(FALSE, Low)
    BY DEF Sleep, Clock, Rest
  <1>2. ~out.fragRst /\ ~out.fin.valid
    BY <1>1, HostClock
  <1>3. ras' = ras
    BY <1>1, <1>2 DEF Rasterize, RasterNext, Accept, Enter, Low
  <1>4. Todo = << >> /\ Todo' = << >>
    BY <1>1, <1>3, TodoIs, TodoHost
  <1> QED
    BY <1>1, <1>3, <1>4 DEF Rendered, HostScanning

LEMMA RasterRunsRefines ==
  ASSUME GfxInv, TrianglesBlendable, HostScanning(seq, ras), RasterRuns
  PROVE  Rendered(ras.fb, Todo, ras'.fb, Todo') /\ HostScanning(seq', ras')
  <1>1. /\ seq.state = "IDLE" /\ ras.st # "IDLE" /\ seq' = seq /\ clear_color' = clear_color
        /\ Rasterize(FALSE, Low)
    BY DEF RasterRuns, Clock, Rest
  <1>2. ~out.fragRst /\ ~out.fin.valid /\ RasterOK(ras)
    BY <1>1, HostClock
  <1>3. ras.st \in {"CLEAR", "SCAN"} /\ clear_color \in Colours
    BY <1>1, <1>2 DEF RasterOK, RasterRecords, GfxInv, Types
  <1>4. CASE ras.st = "CLEAR"
    <2>1. ras' = ClearPixel(ras, clear_color)
      BY <1>1, <1>2, <1>4 DEF Rasterize, RasterNext, Enter
    <2>2. OneWrite(ras.fb, Remaining(ClearWrites(clear_color), ras.cidx), ras'.fb,
                   IF ras'.st = "CLEAR" THEN Remaining(ClearWrites(clear_color), ras'.cidx) ELSE << >>)
      BY <1>2, <1>3, <1>4, <2>1, ClearWrite
    <2>3. ras'.st \in {"CLEAR", "IDLE"}
      BY <1>2, <2>1 DEF ClearPixel, RasterOK, RasterRecords
    <2>4. Todo = Remaining(ClearWrites(clear_color), ras.cidx)
      BY <1>1, <1>4, TodoIs, TodoHost
    <2>5. Todo' = IF ras'.st = "CLEAR" THEN Remaining(ClearWrites(clear_color), ras'.cidx) ELSE << >>
      BY <1>1, <2>3, TodoIs, TodoHost
    <2> QED
      BY <2>2, <2>3, <2>4, <2>5 DEF Rendered, HostScanning
  <1>5. CASE ras.st = "SCAN"
    <2>1. ras' = Scan(ras)
      BY <1>1, <1>2, <1>5 DEF Rasterize, RasterNext, Enter
    <2>2. ras.tri \in HostTriangles
      BY <1>1, <1>5 DEF HostScanning
    <2>3. ras'.st \in {"SCAN", "IDLE"}
      BY <1>2, <1>5, <2>1, ScanKeeps
    <2>4. ras'.tri = ras.tri
      <3>1. CASE Culled(ras.tri)
        BY <1>2, <2>1, <3>1 DEF Scan, RasterOK, RasterRecords
      <3>2. CASE ~Culled(ras.tri)
        BY <1>2, <1>5, <2>1, <3>2, ScanPasses
      <3> QED
        BY <3>1, <3>2
    <2>5. ASSUME ras.tri.emit PROVE Rendered(ras.fb, Todo, ras'.fb, Todo')
      <3>1. ras'.fb = ras.fb
        BY <1>2, <1>5, <2>1, <2>5, EmitScan
      <3>2. Todo = << >>
        BY <1>1, <1>5, <2>5, TodoIs, TodoHost
      <3>3. Todo' = << >>
        BY <1>1, <2>3, <2>4, <2>5, TodoIs, TodoHost
      <3> QED
        BY <3>1, <3>2, <3>3 DEF Rendered
    <2>6. ASSUME ~ras.tri.emit PROVE Rendered(ras.fb, Todo, ras'.fb, Todo')
      <3>1. \/ ras'.fb = ras.fb /\ LeftOf(ras') = LeftOf(ras)
            \/ OneWrite(ras.fb, LeftOf(ras), ras'.fb, LeftOf(ras'))
        BY <1>2, <1>5, <2>1, <2>2, <2>6, HostScan DEF TrianglesBlendable
      <3>2. Todo = LeftOf(ras)
        BY <1>1, <1>5, <2>6, TodoIs, TodoHost
      <3>3. Todo' = LeftOf(ras')
        <4>1. CASE ras'.st = "SCAN"
          BY <1>1, <2>4, <2>6, <4>1, TodoIs, TodoHost
        <4>2. CASE ras'.st = "IDLE"
          BY <1>1, <4>2, TodoIs, TodoHost DEF LeftOf
        <4> QED
          BY <2>3, <4>1, <4>2
      <3> QED
        BY <3>1, <3>2, <3>3 DEF Rendered
    <2> QED
      BY <2>2, <2>4, <2>5, <2>6 DEF HostScanning
  <1> QED
    BY <1>3, <1>4, <1>5

\* Before the output unit takes them, all the fragments of a draw call are left to write.
LEMMA DrawWaits ==
  ASSUME GfxInv, During, Drawing(seq, ras, out),
         VsGo \/ VsWait \/ TriIdx \/ TriVtx \/ TriGo \/ TriWait \/ Dma \/ FsCb \/ FsGo
  PROVE  /\ seq'.state \notin {"IDLE", "ROP_R0", "ROP_R2", "ROP_GO", "DONE"} /\ seq'.q = seq.q
         /\ seq.state \notin {"IDLE", "ROP_R0", "ROP_R2", "ROP_GO", "DONE"}
         /\ ras'.fb = ras.fb
  <1>1. seq \in SeqRecords /\ ras \in RasterRecords /\ RasterOK(ras)
    BY DEF GfxInv, Types, RasterOK
  <1>2. /\ seq'.state \notin {"IDLE", "ROP_R0", "ROP_R2", "ROP_GO", "DONE"} /\ seq'.q = seq.q
        /\ seq.state \notin {"IDLE", "ROP_R0", "ROP_R2", "ROP_GO", "DONE"}
    <2>1. CASE VsGo \/ TriGo \/ FsGo
      BY <1>1, <2>1 DEF VsGo, TriGo, FsGo, Goto, SeqRecords
    <2>2. CASE VsWait
      BY <1>1, <2>2 DEF VsWait, SeqRecords
    <2>3. CASE TriIdx
      <3> DEFINE idx2 == [seq.idx EXCEPT ![seq.vsel] = mem.ibuf[seq.tri_i * 3 + seq.vsel]]
      <3>1. \/ seq' = [seq EXCEPT !.idx = idx2, !.vsel = 0, !.wsel = 0, !.state = "TRI_VTX"]
            \/ seq' = [seq EXCEPT !.idx = idx2, !.vsel = seq.vsel + 1]
        BY <2>3 DEF TriIdx
      <3> HIDE DEF idx2
      <3> QED
        BY <1>1, <2>3, <3>1 DEF TriIdx, SeqRecords
    <2>4. CASE TriVtx
      <3> DEFINE f == Fields[seq.wsel + 1]
                 vw2 == [seq.vw EXCEPT ![seq.vsel] =
                          [seq.vw[seq.vsel] EXCEPT ![f] = mem.vout[seq.idx[seq.vsel]][f]]]
      <3>1. \/ seq' = [seq EXCEPT !.vw = vw2, !.wsel = seq.wsel + 1]
            \/ seq' = [seq EXCEPT !.vw = vw2, !.wsel = 0, !.vsel = seq.vsel + 1]
            \/ seq' = [seq EXCEPT !.vw = vw2, !.wsel = 0, !.state = "TRI_GO"]
        BY <2>4 DEF TriVtx
      <3> HIDE DEF vw2
      <3> QED
        BY <1>1, <2>4, <3>1 DEF TriVtx, SeqRecords
    <2>5. CASE TriWait
      BY <1>1, <2>5 DEF TriWait, SeqRecords
    <2>6. CASE Dma \/ FsCb
      BY <1>1, <2>6 DEF Dma, FsCb, SeqRecords
    <2> QED
      BY <2>1, <2>2, <2>3, <2>4, <2>5, <2>6
  <1>3. ASSUME seq.state # "TRI_WAIT" PROVE ras'.fb = ras.fb
    <2>1. ras' = ras \/ ras' = [ras EXCEPT !.frags = << >>]
      BY <1>2, <1>3 DEF During
    <2> QED
      BY <1>1, <2>1 DEF RasterRecords
  <1>4. ASSUME ras' = Submitted(ras, SeqTriangle) PROVE ras'.fb = ras.fb
    <2> DEFINE x == MinX(SeqTriangle.t)
               y == MinY(SeqTriangle.t)
    <2>1. ras' = [ras EXCEPT !.st = "SCAN", !.tri = SeqTriangle, !.px = x, !.py = y]
      BY <1>4 DEF Submitted
    <2> HIDE DEF x, y
    <2> QED
      BY <1>1, <2>1 DEF RasterRecords
  <1>5. ASSUME seq.state = "TRI_WAIT", out = Quiet, ras.st = "SCAN", ras' = Scan(ras)
        PROVE  ras'.fb = ras.fb
    <2>1. ras.tri = SeqTri(seq)
      BY <1>5 DEF Drawing
    <2>2. ras.tri.emit
      BY <2>1 DEF SeqTri
    <2> QED
      BY <1>1, <1>5, <2>2, EmitScan
  <1> QED
    BY <1>2, <1>3, <1>4, <1>5 DEF During

LEMMA ShownWritten ==
  ASSUME NEW d \in Texel, NEW f \in Fragment, NEW how \in Settings
  PROVE  Golden!Written(d, ShownAs(f, how)) = Rop(d, f.z, Shade(f.uv, f.rgb), how)
  <1> DEFINE c == Shade(f.uv, f.rgb)
             w == ShownAs(f, how)
  <1>1. f.z \in Int /\ c \in Colours /\ c \in Int /\ c % ColourSpace = c
    <2>1. f.uv + f.rgb \in Int
      BY DEF Fragment
    <2> QED
      BY <2>1, TargetAssumption DEF Fragment, Colours, Shade
  <1>2. ~w.clear /\ w.z = f.z /\ w.rgb = c /\ w.how = how
    BY DEF ShownAs
  <1> HIDE DEF w, c
  <1>3. Golden!Written(d, w) = Rop(d, f.z, c % ColourSpace, how)
    BY <1>1, <1>2, WrittenIs
  <1> QED
    BY <1>1, <1>3 DEF w, c

\* Nothing but the end of the fragment shader, and the hand-over of a fragment, moves it on.
LEMMA DrawEmits ==
  ASSUME GfxInv, During, MeshesDrawable, Drawing(seq, ras, out), FsWait \/ RopR0 \/ RopR2 \/ RopGo
  PROVE  /\ seq'.state # "IDLE"
         /\ Rendered(ras.fb, DrawLeft(seq), ras'.fb, DrawLeft(seq'))
  <1> DEFINE all == MeshWrites[seq.q]
  <1>1. seq \in SeqRecords /\ RasterOK(ras) /\ ras \in RasterRecords /\ seq.q \in Meshes
    BY SeqFacts DEF GfxInv, Types, RasterOK
  <1>2. all \in Seq(AllShaded)
    BY <1>1, MeshWritesType
  <1>3. CASE FsWait
    <2>1. seq.state = "FS_WAIT" /\ ras' = ras
      BY <1>3 DEF FsWait, During
    <2>2. \/ seq'.state = "FS_WAIT" /\ seq'.q = seq.q
          \/ seq'.state = "ROP_R0" /\ seq'.q = seq.q /\ seq'.rop_k = 0
      BY <1>1, <1>3 DEF FsWait, SeqRecords
    <2>3. Remaining(all, 0) = all
      BY <1>2, RemainingOf
    <2>4. DrawLeft(seq) = all
      BY <2>1 DEF DrawLeft
    <2>5. DrawLeft(seq') = all
      BY <2>2, <2>3 DEF DrawLeft
    <2> QED
      BY <2>1, <2>2, <2>4, <2>5 DEF Rendered
  <1>4. CASE RopR0 \/ RopR2
    <2>1. /\ seq.state \in {"ROP_R0", "ROP_R2"} /\ seq'.state \in {"ROP_R2", "ROP_GO", "DONE"}
          /\ seq'.q = seq.q /\ seq'.rop_k = seq.rop_k
      BY <1>1, <1>4 DEF RopR0, RopR2, Goto, SeqRecords
    <2>2. ras' = ras
      BY <2>1 DEF During
    <2>3. DrawLeft(seq) = Remaining(all, seq.rop_k) /\ DrawLeft(seq') = Remaining(all, seq.rop_k)
      BY <2>1 DEF DrawLeft
    <2> QED
      BY <2>1, <2>2, <2>3 DEF Rendered
  <1>5. CASE RopGo
    <2> DEFINE k == seq.rop_k
               f == ras.frags[k + 1]
               w == ShownAs(f, seq.q.how)
    <2>1. /\ seq.state = "ROP_GO" /\ seq' = [seq EXCEPT !.rop_k = k + 1, !.state = "ROP_R0"]
          /\ ras' = Blended(ras, Fin(k)) /\ k < Count
      BY <1>5 DEF RopGo, RopNext, During, GfxInv, Records
    <2> DEFINE j == k + 1
    <2>2. seq'.state = "ROP_R0" /\ seq'.q = seq.q /\ seq'.rop_k = j
      <3> HIDE DEF j
      <3> QED
        BY <1>1, <2>1 DEF SeqRecords, j
    <2>3. Shown(ras.frags, seq.q.how) = all
      BY <2>1 DEF Drawing, Collected
    <2>4. k \in Nat /\ j \in 1 .. Len(ras.frags) /\ ras.frags \in Seq(Fragment)
      <3>1. k \in 0 .. FragMax /\ Count \in Nat
        BY SeqFacts DEF GfxInv, Types, RasterOK, RasterRecords, Count
      <3> QED
        BY <1>1, <2>1, <3>1, TargetAssumption DEF Count, RasterRecords
    <2>5. all[j] = w /\ Len(all) = Len(ras.frags)
      <3>1. Len(Shown(ras.frags, seq.q.how)) = Len(ras.frags)
        BY <2>4, ShownLen
      <3>2. Shown(ras.frags, seq.q.how)[j] = ShownAs(ras.frags[j], seq.q.how)
        <4> HIDE DEF j
        <4> QED
          BY <2>4 DEF Shown
      <3> QED
        BY <2>3, <3>1, <3>2
    <2>6. ras'.fb = [ras.fb EXCEPT ![f.pidx] = Rop(ras.fb[f.pidx], f.z, Shade(f.uv, f.rgb), seq.q.how)]
      <3> DEFINE g == Fin(k)
                 fb2 == [ras.fb EXCEPT ![g.pidx] = Rop(ras.fb[g.pidx], g.z, g.rgb, g.how)]
      <3>1. /\ g.pidx = f.pidx /\ g.z = f.z /\ g.rgb = Shade(f.uv, f.rgb) /\ g.how = seq.q.how
        BY DEF Fin
      <3>2. ras' = [ras EXCEPT !.fb = fb2]
        BY <2>1 DEF Blended
      <3> HIDE DEF fb2
      <3>3. ras'.fb = fb2
        BY <1>1, <3>2 DEF RasterRecords
      <3> HIDE DEF g, f
      <3> QED
        BY <3>1, <3>3, Zenon DEF fb2
    <2>7. /\ w.pidx = f.pidx
          /\ Golden!Written(ras.fb[f.pidx], w) = Rop(ras.fb[f.pidx], f.z, Shade(f.uv, f.rgb), seq.q.how)
      <3>1. f \in Fragment
        BY <2>4
      <3>2. seq.q.how \in Settings
        BY MeshFacts DEF GfxInv
      <3> HIDE DEF f
      <3>3. w.pidx = f.pidx
        BY DEF ShownAs
      <3>4. ras.fb[f.pidx] \in Texel
        BY <1>1, <3>1 DEF RasterRecords, Fragment
      <3> QED
        BY <3>1, <3>2, <3>3, <3>4, ShownWritten
    <2> HIDE DEF f, w, all, j
    <2>8. ras'.fb = [ras.fb EXCEPT ![all[j].pidx] = Golden!Written(ras.fb[all[j].pidx], all[j])]
      BY <2>5, <2>6, <2>7, Zenon
    <2> HIDE DEF k
    <2>9. k < Len(all) /\ j = k + 1
      BY <2>4, <2>5 DEF j
    <2>10. OneWrite(ras.fb, Remaining(all, k), ras'.fb, Remaining(all, k + 1))
      <3>1. ras'.fb = [ras.fb EXCEPT ![all[k + 1].pidx] =
                         Golden!Written(ras.fb[all[k + 1].pidx], all[k + 1])]
        BY <2>8, <2>9
      <3> QED
        BY <1>2, <2>4, <2>9, <3>1, WriteOf
    <2>11. DrawLeft(seq) = Remaining(all, k) /\ DrawLeft(seq') = Remaining(all, k + 1)
      BY <2>1, <2>2, <2>9 DEF DrawLeft, all, k
    <2> QED
      BY <2>2, <2>10, <2>11 DEF Rendered
  <1> QED
    BY <1>3, <1>4, <1>5

LEMMA DrawRefines ==
  ASSUME GfxInv, GfxInv', MeshesDrawable, Drawing(seq, ras, out), Drawing(seq', ras', out'),
         NEW ends \in BOOLEAN, DrawRuns(ends)
  PROVE  Rendered(ras.fb, Todo, ras'.fb, Todo') /\ HostScanning(seq', ras')
  <1>1. During /\ Busy /\ seq.state # "IDLE"
    BY DrawClock
  <1>2. Todo = DrawLeft(seq)
    BY <1>1, TodoIs, WorksNow, TodoDraw
  <1>3. ASSUME seq'.state # "IDLE" PROVE Todo' = DrawLeft(seq') /\ HostScanning(seq', ras')
    BY <1>3, TodoIs, WorksNow, TodoDraw DEF HostScanning
  <1>4. CASE VsGo \/ VsWait \/ TriIdx \/ TriVtx \/ TriGo \/ TriWait \/ Dma \/ FsCb \/ FsGo
    <2>1. /\ seq'.state \notin {"IDLE", "ROP_R0", "ROP_R2", "ROP_GO", "DONE"} /\ seq'.q = seq.q
          /\ seq.state \notin {"IDLE", "ROP_R0", "ROP_R2", "ROP_GO", "DONE"}
          /\ ras'.fb = ras.fb
      BY <1>1, <1>4, DrawWaits
    <2>2. DrawLeft(seq') = DrawLeft(seq)
      BY <2>1 DEF DrawLeft
    <2> QED
      BY <1>2, <1>3, <2>1, <2>2 DEF Rendered
  <1>5. CASE FsWait \/ RopR0 \/ RopR2 \/ RopGo
    BY <1>1, <1>2, <1>3, <1>5, DrawEmits
  <1>6. CASE Done
    <2> DEFINE all == MeshWrites[seq.q]
               k == seq.rop_k
    <2>1. /\ seq.state = "DONE" /\ seq'.state = "IDLE" /\ ras' = ras /\ ras.st = "IDLE" /\ k = Count
      BY <1>1, <1>6 DEF Done, Goto, During, GfxInv, Types, SeqRecords, RasterWorks, Records
    <2>2. Shown(ras.frags, seq.q.how) = all /\ ras.frags \in Seq(Fragment)
      BY <2>1 DEF Drawing, Collected, GfxInv, Types, RasterOK, RasterRecords
    <2>3. Len(all) = k /\ k \in Nat
      BY <2>1, <2>2, ShownLen DEF Count
    <2>4. all \in Seq(AllShaded)
      BY SeqFacts, MeshWritesType DEF GfxInv
    <2> HIDE DEF all, k
    <2>5. Remaining(all, k) = << >>
      BY <2>3, <2>4, RemainingOf
    <2>6. Todo = << >>
      BY <1>2, <2>1, <2>5 DEF DrawLeft, all, k
    <2>7. Todo' = << >>
      BY <2>1, TodoIs, TodoHost
    <2> QED
      BY <2>1, <2>6, <2>7 DEF Rendered, HostScanning
  <1> QED
    BY <1>1, <1>4, <1>5, <1>6 DEF Busy

\* The invariant that the refinement needs.
Renders == /\ GfxInv /\ Fetching(seq, mem, grid) /\ Drawing(seq, ras, out) /\ HostScanning(seq, ras)

LEMMA RendersInitially ==
  ASSUME Init
  PROVE  Renders /\ Golden!Init
  <1>1. GfxInv
    BY GfxInitially
  <1>2. seq.state = "IDLE" /\ ras.st = "IDLE"
    BY DEF Init
  <1>3. Fetching(seq, mem, grid) /\ Drawing(seq, ras, out) /\ HostScanning(seq, ras)
    BY <1>2 DEF Fetching, Fetches, Drawing, Triangled, Collected, HostScanning
  <1>4. Todo = << >>
    BY <1>2, TodoIs, TodoHost
  <1>5. ras.fb \in [Pixels -> Texel]
    BY <1>1 DEF GfxInv, Types, RasterOK, RasterRecords
  <1>6. Golden!Pixels = Pixels /\ Golden!Texel = Texel
    BY DEF Golden!Pixels, Golden!Texel, Pixels, Texel
  <1> QED
    BY <1>1, <1>3, <1>4, <1>5, <1>6 DEF Renders, Golden!Init

LEMMA RendersStep ==
  ASSUME Renders, MeshesDrawable, TrianglesBlendable, [Next]_vars
  PROVE  Renders' /\ [Golden!Next]_<< ras.fb, Todo >>
  <1>0. GfxInv /\ Fetching(seq, mem, grid) /\ Drawing(seq, ras, out) /\ HostScanning(seq, ras)
    BY DEF Renders
  <1>1. GfxInv'
    BY <1>0, GfxStep
  <1>2. CASE Next
    <2>1. Fetching(seq', mem', grid')
      BY <1>0, <1>1, <1>2, FetchingKept
    <2>2. Drawing(seq', ras', out')
      BY <1>0, <1>2, DrawingKept
    <2>3. Rendered(ras.fb, Todo, ras'.fb, Todo') /\ HostScanning(seq', ras')
      BY <1>0, <1>1, <1>2, <2>2, HostClearRefines, HostTriangleRefines, HostDrawRefines,
         RasterRunsRefines, SleepRefines, DrawRefines DEF Next
    <2> QED
      BY <1>1, <2>1, <2>2, <2>3, GoldenStep DEF Renders
  <1>3. CASE UNCHANGED vars
    <2>1. /\ seq' = seq /\ out' = out /\ ras' = ras /\ mem' = mem /\ grid' = grid
          /\ clear_color' = clear_color
      BY <1>3 DEF vars
    <2>2. Fetching(seq', mem', grid') /\ Drawing(seq', ras', out') /\ HostScanning(seq', ras')
      BY <1>0, <2>1
    <2>3. Todo' = Todo /\ ras'.fb = ras.fb
      BY <2>1, TodoIs
    <2> QED
      BY <1>1, <2>2, <2>3 DEF Renders
  <1> QED
    BY <1>2, <1>3

\* A mean of three colours with weights that are not negative, divided as the code divides
\* it, is a colour.
LEMMA MeanColour ==
  ASSUME NEW a1 \in Nat, NEW a2 \in Nat, NEW a3 \in Nat, a1 + a2 + a3 # 0,
         NEW c1 \in Colours, NEW c2 \in Colours, NEW c3 \in Colours
  PROVE  LET n == c1 * a1 + c2 * a2 + c3 * a3
             d == a1 + a2 + a3
         IN  n \in Nat /\ Quotient(n, d) \in Colours /\ Quotient(-n, -d) \in Colours
  <1> DEFINE m == ColourSpace - 1
             n == c1 * a1 + c2 * a2 + c3 * a3
             d == a1 + a2 + a3
  <1>1. m \in Nat /\ \A c \in Colours : c \in Nat /\ c <= m
    BY TargetAssumption DEF Colours
  <1>2. d \in Nat \ {0}
    OBVIOUS
  <1> HIDE DEF m
  <1>3. /\ c1 * a1 \in Nat /\ c2 * a2 \in Nat /\ c3 * a3 \in Nat
        /\ m * a1 \in Nat /\ m * a2 \in Nat /\ m * a3 \in Nat
        /\ c1 * a1 <= m * a1 /\ c2 * a2 <= m * a2 /\ c3 * a3 <= m * a3
    BY <1>1, ProductsOrder
  <1>4. m * d = m * a1 + m * a2 + m * a3
    BY <1>1
  <1>5. n \in Nat /\ n <= m * d
    BY <1>3, <1>4
  <1> HIDE DEF n, d
  <1>6. n \div d \in 0 .. m
    <2>1. n \div d \in Nat /\ d * (n \div d) <= n
      BY <1>2, <1>5
    <2>2. ASSUME n \div d >= m + 1 PROVE FALSE
      <3>1. (m + 1) * d <= (n \div d) * d
        BY <1>1, <1>2, <2>1, <2>2, ProductsOrder
      <3>2. (m + 1) * d = m * d + d /\ m * d \in Nat
        BY <1>1, <1>2
      <3>3. (n \div d) * d = d * (n \div d) /\ (n \div d) * d \in Nat
        BY <1>2, <2>1
      <3> QED
        BY <3>1, <3>2, <3>3, <2>1, <1>2, <1>5
    <2> QED
      BY <1>1, <2>1, <2>2
  <1>7. Quotient(n, d) = n \div d
    BY <1>2, <1>5 DEF Quotient
  <1>8. Quotient(-n, -d) = n \div d \/ (n = 0 /\ Quotient(-n, -d) = 0)
    <2>1. CASE n = 0
      <3>1. 0 \div d = 0
        BY <1>2
      <3>2. Quotient(0, -d) = 0
        BY <1>2, <3>1 DEF Quotient
      <3> QED
        BY <2>1, <3>2
    <2>2. CASE n # 0
      <3>1. -n < 0 /\ -d < 0 /\ -(-n) = n /\ -(-d) = d
        BY <1>2, <1>5, <2>2
      <3> QED
        BY <3>1 DEF Quotient
    <2> QED
      BY <2>1, <2>2
  <1>9. 0 \in 0 .. m /\ Colours = 0 .. m
    BY <1>1 DEF Colours, m
  <1> QED
    BY <1>5, <1>6, <1>7, <1>8, <1>9 DEF n, d

\* The triangles of a host that draws what it can see: where no weight 1/w is negative and
\* the corners have colours of 8 bits, no interpolated colour leaves its range, and the
\* rasterizer blends it as the golden model does.
THEOREM SeenBlendable ==
  ASSUME NEW tri \in HostTriangles,
         \A i \in 1 .. 3 : tri.t[i].q >= 0 /\ tri.t[i].rgb \in Colours
  PROVE  Blendable(tri)
  <1> DEFINE t == tri.t
  <1> SUFFICES ASSUME NEW p \in Places, Covered(t, p) PROVE Colour(t, p) \in Colours
    BY DEF Blendable, Places, Colours
  <1> DEFINE w1 == Weights(t, p)[1]
             w2 == Weights(t, p)[2]
             w3 == Weights(t, p)[3]
             q1 == t[1].q
             q2 == t[2].q
             q3 == t[3].q
             c1 == t[1].rgb
             c2 == t[2].rgb
             c3 == t[3].rgb
  <1>1. t \in [1 .. 3 -> VertexWords] /\ Inside(t, p) /\ Persp(t, p) # 0
    BY HostWritesIs DEF Covered, Triangles
  <1>2. /\ q1 \in Nat /\ q2 \in Nat /\ q3 \in Nat
        /\ c1 \in Colours /\ c2 \in Colours /\ c3 \in Colours
        /\ c1 \in Nat /\ c2 \in Nat /\ c3 \in Nat
    BY <1>1, VertexFields DEF Colours
  <1>3. w1 \in Int /\ w2 \in Int /\ w3 \in Int
    <2>1. p = [x |-> p.x, y |-> p.y] /\ p.x \in Int /\ p.y \in Int
      BY DEF Places
    <2> QED
      BY <1>1, <2>1, WeightTypes
  <1>4. \/ w1 >= 0 /\ w2 >= 0 /\ w3 >= 0
        \/ w1 <= 0 /\ w2 <= 0 /\ w3 <= 0
    BY <1>1 DEF Inside
  <1>5. /\ Persp(t, p) = w1 * q1 + w2 * q2 + w3 * q3
        /\ Colour(t, p) = Quotient(w1 * (c1 * q1) + w2 * (c2 * q2) + w3 * (c3 * q3), Persp(t, p))
    BY DEF Persp, Colour, Attribute, Blend3
  <1> HIDE DEF w1, w2, w3, q1, q2, q3, c1, c2, c3
  <1>6. /\ \A w \in Int : \A c, q \in Nat : w * (c * q) = c * (w * q) /\ w * q \in Int
        /\ \A w, q \in Nat : w * q \in Nat
    BY SMTT(30)
  <1>7. CASE w1 >= 0 /\ w2 >= 0 /\ w3 >= 0
    <2>1. w1 * q1 \in Nat /\ w2 * q2 \in Nat /\ w3 * q3 \in Nat
      BY <1>2, <1>3, <1>6, <1>7
    <2>2. /\ w1 * (c1 * q1) = c1 * (w1 * q1) /\ w2 * (c2 * q2) = c2 * (w2 * q2)
          /\ w3 * (c3 * q3) = c3 * (w3 * q3)
      BY <1>2, <1>3, <1>6
    <2> DEFINE d == w1 * q1 + w2 * q2 + w3 * q3
               n == c1 * (w1 * q1) + c2 * (w2 * q2) + c3 * (w3 * q3)
    <2>3. d # 0
      BY <1>1, <1>5
    <2>4. Quotient(n, d) \in Colours
      BY <1>2, <2>1, <2>3, MeanColour
    <2> QED
      BY <1>5, <2>2, <2>4
  <1>8. CASE w1 <= 0 /\ w2 <= 0 /\ w3 <= 0
    <2> DEFINE v1 == -w1
               v2 == -w2
               v3 == -w3
    <2>1. v1 \in Nat /\ v2 \in Nat /\ v3 \in Nat
      BY <1>3, <1>8
    <2>2. v1 * q1 \in Nat /\ v2 * q2 \in Nat /\ v3 * q3 \in Nat
      BY <1>2, <1>6, <2>1
    <2>3. \A w \in Int : \A c, q \in Nat :
            w * q = -((-w) * q) /\ w * (c * q) = -(c * ((-w) * q))
      BY SMTT(30)
    <2>4. /\ w1 * q1 = -(v1 * q1) /\ w2 * q2 = -(v2 * q2) /\ w3 * q3 = -(v3 * q3)
          /\ w1 * (c1 * q1) = -(c1 * (v1 * q1)) /\ w2 * (c2 * q2) = -(c2 * (v2 * q2))
          /\ w3 * (c3 * q3) = -(c3 * (v3 * q3))
      BY <1>2, <1>3, <2>3
    <2> DEFINE d == v1 * q1 + v2 * q2 + v3 * q3
               n == c1 * (v1 * q1) + c2 * (v2 * q2) + c3 * (v3 * q3)
    <2>5. /\ c1 * (v1 * q1) \in Int /\ c2 * (v2 * q2) \in Int /\ c3 * (v3 * q3) \in Int
      BY <1>2, <2>2, Products
    <2>6. /\ w1 * q1 + w2 * q2 + w3 * q3 = -d
          /\ w1 * (c1 * q1) + w2 * (c2 * q2) + w3 * (c3 * q3) = -n
      BY <2>2, <2>4, <2>5
    <2>7. d # 0
      BY <1>1, <1>5, <2>2, <2>6
    <2>8. Quotient(-n, -d) \in Colours
      BY <1>2, <2>2, <2>7, MeanColour
    <2> QED
      BY <1>5, <2>6, <2>8
  <1> QED
    BY <1>4, <1>7, <1>8

\* What the host draws, by itself or with a draw call, appears as the golden model draws it:
\* of meshes with a triangle at least, whose vertices have room and whose indices name one of
\* them, and of host triangles whose colours stay in range where they are blended, every
\* fragment is written, once, shaded, in the golden model's order, and nothing else is.
THEOREM DeviceRenders ==
  ASSUME MeshesDrawable, TrianglesBlendable
  PROVE  Spec => GoldenSpec
  <1>1. Init => Renders /\ Golden!Init
    BY RendersInitially
  <1>2. Renders /\ [Next]_vars => Renders' /\ [Golden!Next]_<< ras.fb, Todo >>
    BY RendersStep
  <1> QED
    BY <1>1, <1>2, PTL DEF Spec, GoldenSpec, Golden!Spec
=============================================================================
