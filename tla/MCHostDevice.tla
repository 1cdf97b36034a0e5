----------------------------- MODULE MCHostDevice -----------------------------
(****************************************************************************)
(* GoldenSession on small sessions: sirion_run with good and damaged files, *)
(* programs of one entry or another side by side, and grids of any size one *)
(* after another, by hosts that wait for ever and by hosts that give up.    *)
(****************************************************************************)
EXTENDS GoldenSession

-----------------------------------------------------------------------------
Short == [code |-> <<3, EXIT>>, kconst |-> <<>>, entry |-> 0]
Long  == [code |-> <<EXIT, 5, 1, EXIT>>, kconst |-> <<>>, entry |-> 1]

\* sirion_run: whole files, and files cut in their body and in their header.
Run(p, lost, nx) ==
  main([prog |-> p, lost |-> lost, grid |-> nx, tpb |-> 2, consts |-> <<<<1, 7>>, <<0, 2>>>>,
        stores |-> <<<<4, 9>>>>, fills |-> <<<<0, 3, 10, 20>>>>, dumps |-> <<<<0, 4>>>>])
Runs == {Run(p, 0, nx) : p \in {Short, Long}, nx \in GridSizes} \cup {Run(Short, lost, 1) : lost \in {1, 4}}

\* Programs side by side, with a constant of its own for each grid and a word in between.
Grids(sizes, impatient) ==
  [strict |-> FALSE, impatient |-> impatient,
   calls |-> <<Load(Long, 0, 0), Load(Short, 0, 4), Const(<<0, 1>>), Call(sizes[1], 1, 2),
               Const(<<0, 3>>), Call(sizes[2], 2, 1), Read(0), Store(<<4, 8>>), Call(sizes[3], 1, 1),
               Read(0), Read(4), Read(12)>>]
Patient   == {Grids(s, FALSE) : s \in GridSizes \X GridSizes \X {1, 4}}
Impatient == {Grids(s, TRUE) : s \in {2} \X {0, 2} \X {1, 4}}

MCSessions == Runs \cup Patient \cup Impatient
MCDescriptors == {[tpb |-> t, entry |-> e] : t \in {1, 2}, e \in {0, 1, 4}}
================================================================================
