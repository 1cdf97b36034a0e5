------------------------------ MODULE GfxDevice ------------------------------
(***************************************************************************)
(* The graphics side of gpu_gfx_top: gfx_seq, which executes a draw call,  *)
(* and the rasterizer it shares with the host.  One step is one clock.     *)
(* The compute side is what a draw call needs of it: a grid that is        *)
(* launched runs its kernel on that many threads and pulses grid_done some *)
(* clocks later (CtaDispatch), when memory holds all its stores            *)
(* (MemSystem).                                                            *)
(***************************************************************************)
EXTENDS Raster, GoldenRaster, FiniteSets

CONSTANTS Meshes,        \* the vertices, triangles and settings of a draw call
          HostTriangles, \* the triangles the host submits itself
          ClearColours,
          BlockThreads,  \* 256, the threads of a fragment shader's block
          MaxVerts,      \* the vertices the vertex buffer has room for
          MaxTris,       \* the triangles the index buffer has room for
          MaxCommands    \* bound on the host's commands

ASSUME DeviceAssumption ==
  /\ BlockThreads \in Nat \ {0} /\ MaxVerts \in Nat \ {0} /\ MaxTris \in Nat \ {0}
  /\ MaxCommands \in Nat

VARIABLES
  seq,        \* gfx_seq's state, latched descriptor and counters
  out,        \* its registered outputs to the rasterizer, memory and compute side
  draw_done,
  ras,        \* the rasterizer
  mem,        \* the buffers in global memory: vout, ibuf and fbuf
  cbank,      \* constants 0 to 2
  grid,       \* the grid that runs, and the pulse of its end
  clear_color, commands   \* what the host drives, and how often it did
vars == << seq, out, draw_done, ras, mem, cbank, grid, clear_color, commands >>

Fields == << "x", "y", "z", "q", "rgb", "uv" >>   \* the words of a vertex
VertexWords == [{Fields[i] : i \in 1 .. 6} -> Int]
NoVertex == [f \in {Fields[i] : i \in 1 .. 6} |-> 0]

\* What a host may ask for: meshes that fit their buffers, triangles and colours.
Settings   == [blend : BOOLEAN, alpha : 0 .. MaxAlpha, dwrite : BOOLEAN]
Submission ==
  [valid : {TRUE}, t : [1 .. 3 -> VertexWords], cull : BOOLEAN, emit : BOOLEAN, how : Settings]
ASSUME CommandsAssumption ==
  /\ Meshes # {}
  /\ \A m \in Meshes :
       /\ m.verts \in Seq(VertexWords) /\ m.how \in Settings
       /\ m.tris \in Seq([1 .. 3 -> 0 .. MaxVerts - 1]) /\ Len(m.tris) <= MaxTris
  /\ HostTriangles \subseteq Submission /\ ClearColours \subseteq 0 .. ColourSpace - 1

\* What constants 0 and 2 may hold: the host's vertex shader parameters, and the
\* addresses the fragment shader expects.
HostParam == -1
FbufAddr  == -2
TexAddr   == -3

\* The registered outputs when none is high.
Low   == [valid |-> FALSE]
Quiet == [fragRst |-> FALSE, tri |-> FALSE, launch |-> Low, we |-> Low, cb |-> Low, fin |-> Low]

-----------------------------------------------------------------------------
\* gfx_seq.  An output not named by a step is low after it.
Goto(s)      == seq' = [seq EXCEPT !.state = s]
Silent       == out' = Quiet
Pulse(field) == out' = [Quiet EXCEPT ![field] = TRUE]
Launch(n, t, k) ==
  out' = [Quiet EXCEPT !.launch = [valid |-> TRUE, grid |-> n, tpb |-> t, kernel |-> k]]

Count == Len(ras.frags)   \* r_frag_count

\* S_IDLE: the descriptor is latched and the fragment buffer emptied.
Draw(mesh) ==
  /\ seq.state = "IDLE"
  /\ seq' = [seq EXCEPT !.state = "VS_GO", !.q = mesh]
  /\ Pulse("fragRst")
Rest == seq.state = "IDLE" /\ UNCHANGED seq /\ Silent

\* The vertex shader, in one block.
VsGo   == seq.state = "VS_GO" /\ Goto("VS_WAIT") /\ Launch(1, Len(seq.q.verts), "VS")
VsWait ==
  /\ seq.state = "VS_WAIT" /\ Silent
  /\ IF grid.done THEN seq' = [seq EXCEPT !.tri_i = 0, !.vsel = 0, !.state = "TRI_IDX"]
     ELSE UNCHANGED seq

\* Three indices are read, then the six words of each of their vertices.
TriIdx ==
  /\ seq.state = "TRI_IDX" /\ Silent
  /\ LET s == [seq EXCEPT !.idx = [seq.idx EXCEPT ![seq.vsel] = mem.ibuf[seq.tri_i * 3 + seq.vsel]]]
     IN  seq' = IF seq.vsel = 2 THEN [s EXCEPT !.vsel = 0, !.wsel = 0, !.state = "TRI_VTX"]
                ELSE [s EXCEPT !.vsel = seq.vsel + 1]
TriVtx ==
  /\ seq.state = "TRI_VTX" /\ Silent
  /\ LET f == Fields[seq.wsel + 1]
         s == [seq EXCEPT !.vw = [seq.vw EXCEPT ![seq.vsel] =
                 [seq.vw[seq.vsel] EXCEPT ![f] = mem.vout[seq.idx[seq.vsel]][f]]]]
     IN  seq' = IF seq.wsel < 5 THEN [s EXCEPT !.wsel = seq.wsel + 1]
                ELSE IF seq.vsel < 2 THEN [s EXCEPT !.wsel = 0, !.vsel = seq.vsel + 1]
                ELSE [s EXCEPT !.wsel = 0, !.state = "TRI_GO"]

TriGo == seq.state = "TRI_GO" /\ Goto("TRI_WAIT") /\ Pulse("tri")

\* Fault: the pulse that is still on the way is not waited for.
RasterFree_Pulsed == ras.st = "IDLE"
RasterFree == ras.st = "IDLE" /\ ~out.tri

TriWait ==
  /\ seq.state = "TRI_WAIT" /\ Silent
  /\ seq' = IF ~RasterFree THEN seq
            ELSE IF seq.tri_i + 1 >= Len(seq.q.tris) THEN [seq EXCEPT !.dma_k = 0, !.state = "DMA"]
            ELSE [seq EXCEPT !.tri_i = seq.tri_i + 1, !.vsel = 0, !.state = "TRI_IDX"]

\* The fragment records go to memory, word by word.
RecordWord(f, sel) ==
  CASE sel = 0 -> [pidx |-> f.pidx, z |-> f.z] [] sel = 1 -> f.uv [] sel = 2 -> f.rgb
Dma ==
  /\ seq.state = "DMA"
  /\ IF seq.dma_k >= Count * 3
     THEN seq' = [seq EXCEPT !.cb_k = 0, !.state = "FS_CB"] /\ Silent
     ELSE LET rec == seq.dma_k \div 3
              sel == seq.dma_k % 3
          IN  /\ seq' = [seq EXCEPT !.dma_k = seq.dma_k + 1]
              /\ out' = [Quiet EXCEPT !.we = [valid |-> TRUE, rec |-> rec, sel |-> sel,
                                              word |-> RecordWord(ras.frags[rec + 1], sel)]]

\* The fragment shader's three constants, and its launch.
FsCb ==
  /\ seq.state = "FS_CB"
  /\ out' = [Quiet EXCEPT !.cb = [valid |-> TRUE, addr |-> seq.cb_k,
                word |-> CASE seq.cb_k = 0 -> FbufAddr [] seq.cb_k = 1 -> Count
                           [] seq.cb_k = 2 -> TexAddr]]
  /\ seq' = IF seq.cb_k = 2 THEN [seq EXCEPT !.state = "FS_GO"] ELSE [seq EXCEPT !.cb_k = seq.cb_k + 1]

\* Fault: the last block, not full, is not launched.
Blocks_Full == Count \div BlockThreads
Blocks == (Count + BlockThreads - 1) \div BlockThreads
FsGo   == seq.state = "FS_GO" /\ Goto("FS_WAIT") /\ Launch(Blocks, BlockThreads, "FS")
FsWait ==
  /\ seq.state = "FS_WAIT" /\ Silent
  /\ seq' = IF grid.done THEN [seq EXCEPT !.rop_k = 0, !.state = "ROP_R0"] ELSE seq

\* Each shaded record is read in two words and handed to the output unit.
RopR0 ==
  /\ seq.state = "ROP_R0" /\ Silent
  /\ seq' = IF seq.rop_k >= Count THEN [seq EXCEPT !.state = "DONE"]
            ELSE [seq EXCEPT !.rop_w0 = mem.fbuf[seq.rop_k].w0, !.state = "ROP_R2"]
RopR2 ==
  /\ seq.state = "ROP_R2" /\ Goto("ROP_GO")
  /\ out' = [Quiet EXCEPT !.fin =
               [valid |-> TRUE, pidx |-> seq.rop_w0.pidx, z |-> seq.rop_w0.z,
                rgb |-> mem.fbuf[seq.rop_k].w2, how |-> seq.q.how]]

\* Fault: the same record is handed over for ever.
RopNext_Same == [seq EXCEPT !.state = "ROP_R0"]
RopNext == [seq EXCEPT !.rop_k = seq.rop_k + 1, !.state = "ROP_R0"]
RopGo == seq.state = "ROP_GO" /\ seq' = RopNext /\ Silent
Done  == seq.state = "DONE" /\ Goto("IDLE") /\ Silent

Busy == \/ VsGo \/ VsWait \/ TriIdx \/ TriVtx \/ TriGo \/ TriWait \/ Dma
        \/ FsCb \/ FsGo \/ FsWait \/ RopR0 \/ RopR2 \/ RopGo \/ Done

-----------------------------------------------------------------------------
\* The compute side.  A grid of no blocks is done at once.
NoGrid(done)   == [st |-> "idle", done |-> done]

Grid(ends) ==
  grid' = CASE out.launch.valid -> IF out.launch.grid = 0 THEN NoGrid(TRUE)
                                   ELSE [st |-> "runs", done |-> FALSE, run |-> out.launch]
            [] ~out.launch.valid /\ grid.st = "runs" /\ ~ends -> grid
            [] OTHER -> NoGrid(grid.st = "runs")

\* The stores of the kernel that ends: the vertex shader's vertices, or the
\* fragment shader's colours in place.
Stores(m) ==
  LET threads == grid.run.grid * grid.run.tpb
      shaded  == {k \in DOMAIN m.fbuf : k < cbank[1] /\ k < threads}
  IN  CASE grid.run.kernel = "VS" ->
             [m EXCEPT !.vout = [v \in DOMAIN m.vout |->
                IF v < threads THEN seq.q.verts[v + 1] ELSE m.vout[v]]]
        [] grid.run.kernel = "FS" ->
             IF cbank[0] = FbufAddr /\ cbank[2] = TexAddr
             THEN [m EXCEPT !.fbuf = [k \in DOMAIN m.fbuf |->
                     IF k \in shaded
                     THEN [m.fbuf[k] EXCEPT !.w2 = Shade(m.fbuf[k].w1, m.fbuf[k].w2)]
                     ELSE m.fbuf[k]]]
             ELSE m

Words == << "w0", "w1", "w2" >>
Memory(ends) ==
  mem' = IF out.we.valid
         THEN [mem EXCEPT !.fbuf = [mem.fbuf EXCEPT ![out.we.rec] =
                [mem.fbuf[out.we.rec] EXCEPT ![Words[out.we.sel + 1]] = out.we.word]]]
         ELSE IF grid.st = "runs" /\ ends THEN Stores(mem) ELSE mem

Constants ==
  cbank' = IF out.cb.valid THEN [cbank EXCEPT ![out.cb.addr] = out.cb.word] ELSE cbank

\* The rasterizer takes a triangle from the sequencer while a draw call is
\* executed, and from the host otherwise.
SeqTriangle == [valid |-> TRUE, t |-> [i \in 1 .. 3 |-> seq.vw[i - 1]], cull |-> FALSE,
                emit |-> TRUE, how |-> seq.q.how]

Rasterize(clear, tri) ==
  ras' = RasterNext(ras, [valid |-> clear, rgb |-> clear_color],
                    IF seq.state = "IDLE" THEN tri ELSE IF out.tri THEN SeqTriangle ELSE Low,
                    seq.state # "IDLE" /\ out.fragRst, out.fin)

-----------------------------------------------------------------------------
\* The host gives a command when the one before is over, and waits for its end.
Free == seq.state = "IDLE" /\ ras.st = "IDLE" /\ commands < MaxCommands

Clock(ends, clear, tri) ==
  /\ Rasterize(clear, tri) /\ Grid(ends)
  /\ draw_done' = (seq.state = "DONE")

HostClear ==
  /\ Free /\ Rest /\ clear_color' \in ClearColours /\ commands' = commands + 1
  /\ Clock(FALSE, TRUE, Low)
  /\ UNCHANGED << mem, cbank >>

HostTriangle ==
  /\ Free /\ Rest /\ commands' = commands + 1
  /\ \E tri \in HostTriangles : Clock(FALSE, FALSE, tri)
  /\ UNCHANGED << mem, cbank, clear_color >>

\* Before a draw call the host writes the index buffer and the vertex shader's
\* constants.
HostDraw ==
  /\ Free /\ commands' = commands + 1
  /\ \E mesh \in Meshes :
        /\ Draw(mesh)
        /\ mem' = [mem EXCEPT !.ibuf = [i \in DOMAIN mem.ibuf |->
                     IF i < 3 * Len(mesh.tris) THEN mesh.tris[(i \div 3) + 1][(i % 3) + 1]
                     ELSE mem.ibuf[i]]]
  /\ cbank' = [k \in 0 .. 2 |-> HostParam]
  /\ Clock(FALSE, FALSE, Low)
  /\ UNCHANGED clear_color

\* The rasterizer works for the host, or the sequencer for a draw call.
RasterRuns ==
  /\ seq.state = "IDLE" /\ ras.st # "IDLE" /\ Rest
  /\ Clock(FALSE, FALSE, Low)
  /\ UNCHANGED << mem, cbank, clear_color, commands >>

DrawRuns(ends) ==
  /\ Busy /\ Clock(ends, FALSE, Low) /\ Memory(ends) /\ Constants
  /\ UNCHANGED << clear_color, commands >>

Sleep == seq.state = "IDLE" /\ ras.st = "IDLE" /\ draw_done
         /\ Rest /\ Clock(FALSE, FALSE, Low)
         /\ UNCHANGED << mem, cbank, clear_color, commands >>

\* The host has cleared the framebuffer.
Init ==
  /\ clear_color \in ClearColours /\ commands = 0
  /\ seq = [state |-> "IDLE", q |-> CHOOSE m \in Meshes : TRUE, tri_i |-> 0, vsel |-> 0,
            wsel |-> 0, idx |-> [i \in 0 .. 2 |-> 0], vw |-> [i \in 0 .. 2 |-> NoVertex],
            dma_k |-> 0, cb_k |-> 0, rop_k |-> 0, rop_w0 |-> [pidx |-> 0, z |-> 0]]
  /\ out = Quiet /\ draw_done = FALSE
  /\ ras = [st |-> "IDLE", cidx |-> 0, px |-> 0, py |-> 0, tri |-> Low, frags |-> << >>,
            fb |-> [p \in Pixels |-> [z |-> Far, rgb |-> clear_color]]]
  /\ mem = [vout |-> [v \in 0 .. MaxVerts - 1 |-> NoVertex], ibuf |-> [i \in 0 .. 3 * MaxTris - 1 |-> 0],
            fbuf |-> [k \in 0 .. FragMax - 1 |-> [w0 |-> [pidx |-> 0, z |-> 0], w1 |-> 0, w2 |-> 0]]]
  /\ cbank = [k \in 0 .. 2 |-> HostParam] /\ grid = NoGrid(FALSE)

Next == \/ HostClear \/ HostTriangle \/ HostDraw \/ RasterRuns \/ Sleep
        \/ \E ends \in BOOLEAN : DrawRuns(ends)
Spec == Init /\ [][Next]_vars

\* The clock never stops, and a grid ends (GridCompletes in CtaDispatch).
FairSpec == Spec /\ WF_vars(RasterRuns) /\ WF_vars(DrawRuns(TRUE))

-----------------------------------------------------------------------------
TypeOK ==
  /\ seq.state \in {"IDLE", "VS_GO", "VS_WAIT", "TRI_IDX", "TRI_VTX", "TRI_GO", "TRI_WAIT",
                    "DMA", "FS_CB", "FS_GO", "FS_WAIT", "ROP_R0", "ROP_R2", "ROP_GO", "DONE"}
  /\ seq.vsel \in 0 .. 2 /\ seq.wsel \in 0 .. 5 /\ seq.cb_k \in 0 .. 2
  /\ seq.rop_k \in 0 .. FragMax /\ seq.dma_k \in 0 .. 3 * FragMax
  /\ ras.st \in {"IDLE", "CLEAR", "SCAN"} /\ ras.cidx \in Pixels
  /\ ras.px \in 0 .. W - 1 /\ ras.py \in 0 .. H - 1
  /\ ras.frags \in Seq(Fragment) /\ Len(ras.frags) <= FragMax
  /\ ras.fb \in [Pixels -> Texel]
  /\ \A k \in 0 .. 2 : cbank[k] \in {HostParam, FbufAddr, TexAddr} \cup 0 .. FragMax
  /\ grid.st \in {"idle", "runs"} /\ draw_done \in BOOLEAN

\* Every draw call ends, one without a single fragment too.
DrawEnds == seq.state # "IDLE" ~> draw_done

------------------------------------------------------------------------------
\* The device implements Rendering: what is left to write is what the clear or the host's
\* triangle has not yet reached, and of a draw call all its fragments until the output unit
\* has taken them.

Corners(mesh, tri) == [i \in 1 .. 3 |-> mesh.verts[mesh.tris[tri][i] + 1]]
MeshWrites == [mesh \in Meshes |->
  DrawWrites([n \in 1 .. Len(mesh.tris) |-> Corners(mesh, n)], mesh.how)]
HostWrites == [tri \in HostTriangles |-> TriangleWrites(tri.t, tri.cull, tri.how)]

Remaining(all, n) == SubSeq(all, n + 1, Len(all))   \* all but the first n
Todo ==
  CASE ras.st = "CLEAR" -> Remaining(ClearWrites(clear_color), ras.cidx)
    [] ras.st = "SCAN" /\ ~ras.tri.emit ->
         Remaining(HostWrites[ras.tri], Len(PixelsBefore(ras.tri.t, Pidx(ras))))
    [] seq.state # "IDLE" ->
         IF seq.state \in {"ROP_R0", "ROP_R2", "ROP_GO", "DONE"}
         THEN Remaining(MeshWrites[seq.q], seq.rop_k) ELSE MeshWrites[seq.q]
    [] OTHER -> << >>

Commands == {ClearWrites(c) : c \in ClearColours}
            \cup {MeshWrites[m] : m \in Meshes} \cup {HostWrites[t] : t \in HostTriangles}

Golden == INSTANCE Rendering WITH fb <- ras.fb, todo <- Todo, Writes <- Commands

\* Whatever the host draws, by itself or with a draw call, the framebuffer takes
\* exactly the golden model's writes, in its order: no fragment is lost, drawn
\* twice, left unshaded or taken from an earlier draw call. It takes meshes that are
\* Drawable and triangles that are Blendable, as they are defined below.
GoldenSpec == Golden!Spec

\* The meshes of a draw call that is drawn whole: they have a triangle at least, the vertex
\* buffer has room for their vertices, and their indices name one of them.
Drawable(m) ==
  /\ m.tris # << >> /\ Len(m.verts) <= MaxVerts
  /\ \A n \in 1 .. Len(m.tris) : \A i \in 1 .. 3 : m.tris[n][i] < Len(m.verts)
MeshesDrawable == \A m \in Meshes : Drawable(m)

\* The host's triangles on which the two output units agree. The rasterizer cuts an
\* interpolated colour before it blends it, the golden model after: where a colour leaves
\* its range, as it can when the weights q have different signs, the two blends differ.
Blendable(tri) ==
  tri.how.blend =>
    \A p \in [x : 0 .. W - 1, y : 0 .. H - 1] :
      Covered(tri.t, p) => Colour(tri.t, p) \in 0 .. ColourSpace - 1
TrianglesBlendable == \A tri \in HostTriangles : Blendable(tri)
=============================================================================
