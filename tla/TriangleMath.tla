---------------------------- MODULE TriangleMath ----------------------------
(***************************************************************************)
(* The integer arithmetic of a triangle, which the rasterizer and the      *)
(* golden model share: edge functions and the weights they give a pixel,   *)
(* screen-linear depth and perspective-correct attributes.  A vertex has   *)
(* a place x, y, a depth z, a weight q = 1/w, a colour and a texture       *)
(* coordinate (each standing for the components it packs).                 *)
(***************************************************************************)
EXTENDS Integers, Sequences

CONSTANTS W, H,          \* the render target
          Far,           \* FAR, above every depth
          ZSpace,        \* 2^16: the depths a fragment record holds
          ColourSpace,   \* values of a colour
          MaxAlpha,      \* 255
          FragMax        \* FRAG_MAX, the fragments a draw call may have

ASSUME TargetAssumption ==
  /\ W \in Nat \ {0} /\ H \in Nat \ {0}
  /\ Far \in Nat /\ ColourSpace \in Nat \ {0} /\ MaxAlpha \in Nat \ {0}
  /\ FragMax \in Nat /\ ZSpace \in Nat \ {0} /\ ZSpace <= Far

Pixels == 0 .. W * H - 1
Texel  == [z : Int, rgb : 0 .. ColourSpace - 1]     \* a pixel's depth and colour

Least(a, b, c)    == CHOOSE m \in {a, b, c} : \A n \in {a, b, c} : m <= n
Greatest(a, b, c) == CHOOSE m \in {a, b, c} : \A n \in {a, b, c} : m >= n

\* Division truncates toward zero.
Quotient(n, d) ==
  LET Magnitude(i) == IF i < 0 THEN -i ELSE i
      size == Magnitude(n) \div Magnitude(d)
  IN  IF (n < 0) = (d < 0) THEN size ELSE -size

\* Which side of the edge from a to b the point p is on.
Edge(a, b, p) == (b.x - a.x) * (p.y - a.y) - (b.y - a.y) * (p.x - a.x)

\* A triangle is a sequence of three vertices; a weight belongs to the vertex
\* opposite its edge.
Area(t)      == Edge(t[1], t[2], t[3])
Weights(t, p) == << Edge(t[2], t[3], p), Edge(t[3], t[1], p), Edge(t[1], t[2], p) >>
Inside(t, p) ==
  \A i \in 1 .. 3 : IF Area(t) > 0 THEN Weights(t, p)[i] >= 0 ELSE Weights(t, p)[i] <= 0

Blend3(w, a) == w[1] * a[1] + w[2] * a[2] + w[3] * a[3]
Depth(t, p)  == Quotient(Blend3(Weights(t, p), [i \in 1 .. 3 |-> t[i].z]), Area(t))
Persp(t, p)  == Blend3(Weights(t, p), [i \in 1 .. 3 |-> t[i].q])
Attribute(t, p, a) ==
  Quotient(Blend3(Weights(t, p), [i \in 1 .. 3 |-> a[i] * t[i].q]), Persp(t, p))

Colour(t, p)  == Attribute(t, p, [i \in 1 .. 3 |-> t[i].rgb])
Texture(t, p) == Attribute(t, p, [i \in 1 .. 3 |-> t[i].uv])

\* What the fragment shader makes of them.
Shade(uv, rgb) == (uv + rgb) % ColourSpace
=============================================================================
