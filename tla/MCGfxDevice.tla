----------------------------- MODULE MCGfxDevice -----------------------------
(* GfxDevice on a target of two by two pixels.                             *)
EXTENDS GfxDevice, TLC

Vertex(x, y, z, q, c) == [x |-> x, y |-> y, z |-> z, q |-> q, rgb |-> c, uv |-> c + 1]
Opaque == [blend |-> FALSE, alpha |-> MaxAlpha, dwrite |-> TRUE]
Glass  == [blend |-> TRUE, alpha |-> 1, dwrite |-> FALSE]

\* A large triangle with depths below zero, a near small one, one that is degenerate and one off the target.
Verts == << Vertex(0, 0, 2, 1, 0), Vertex(2, 0, 2, 1, 3), Vertex(0, 2, -4, 2, 3),
            Vertex(1, 0, 0, 1, 1), Vertex(1, 1, 0, 1, 1), Vertex(-1, 0, 1, 1, 2) >>
Big   == << 0, 1, 2 >>
Small == << 4, 3, 0 >>
Flat  == << 3, 4, 4 >>
Out   == << 5, 5, 5 >>
MeshOf(tris, how) == [verts |-> Verts, tris |-> tris, how |-> how]

DrawMeshes ==
  {MeshOf(ts, how) : ts \in {<< Big >>, << Big, Small >>, << Small, Big >>, << Flat >>,
                             << Flat, Small >>}, how \in {Opaque, Glass}}

\* The theorem about draw calls is about meshes like these.
ASSUME DrawMeshesAssumption == \A m \in DrawMeshes : Drawable(m)

\* A draw call with a triangle and one without any.
EmptyMeshes == {MeshOf(<< Big >>, Glass), MeshOf(<< >>, Glass)}

\* Triangles with any corners of a few on the target and around it, in any order;
\* some culled, some emitted for a pass that never comes.
Points == {<< 0, 0 >>, << 1, 1 >>, << -1, 1 >>, << 2, 0 >>}
Placed(a, b, c) == << Vertex(a[1], a[2], 0, 1, 1), Vertex(b[1], b[2], 3, 1, 2),
                      Vertex(c[1], c[2], 1, 2, 3) >>
Submit(t, cull, emit, how) ==
  [valid |-> TRUE, t |-> t, cull |-> cull, emit |-> emit, how |-> how]
OffTarget == {Placed(<< 2, 0 >>, << 3, 0 >>, << 2, 1 >>), Placed(<< -1, 1 >>, << -2, 0 >>, << -1, 0 >>)}
Turns == {Placed(<< 0, 0 >>, << 2, 0 >>, << 1, 1 >>), Placed(<< 0, 0 >>, << 1, 1 >>, << 2, 0 >>)}

\* Triangles whose weights have both signs: a colour that leaves its range, and one that
\* has no weight in one pixel, drawn opaque; a colour that stays, blended.
Skewed(a, b, c) == << Vertex(0, 0, 0, 2, a), Vertex(2, 0, 1, -1, b), Vertex(0, 2, 1, 1, c) >>

PlacedTriangles ==
  {Submit(Placed(a, b, c), FALSE, FALSE, Opaque) : a \in Points, b \in Points, c \in Points}
  \cup {Submit(t, FALSE, FALSE, Opaque) : t \in OffTarget}
  \cup {Submit(t, TRUE, FALSE, Glass) : t \in Turns}
  \cup {Submit(t, FALSE, TRUE, Opaque) : t \in Turns}
  \cup {Submit(Skewed(0, 3, 1), FALSE, FALSE, Opaque), Submit(Skewed(5, 5, 5), FALSE, FALSE, Glass)}

\* The theorem about host triangles is about triangles like these.
ASSUME PlacedTrianglesAssumption == \A tri \in PlacedTriangles : Blendable(tri)
=============================================================================
