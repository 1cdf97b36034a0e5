------------------------------ MODULE MCCuCore ------------------------------
(* CuCore on small programs.                                               *)
EXTENDS CuCore, TLC

I(o)      == [op |-> o, guarded |-> FALSE, off |-> 0]
If(o)     == [op |-> o, guarded |-> TRUE, off |-> 0]
Bra(d)    == [op |-> "BRA", guarded |-> FALSE, off |-> d]
IfBra(d)  == [op |-> "BRA", guarded |-> TRUE, off |-> d]
Ssy(d)    == [op |-> "SSY", guarded |-> FALSE, off |-> d]

CONSTANT Body   \* what the instructions before the last may be

MemBody == {I("ALU"), If("LDS"), If("ATOMG"), If("STG"), I("BAR"), If("EXIT"), IfBra(1)}

TailBody == {I("ALU"), If("LDS"), I("BAR"), If("EXIT")}

\* Every program of two instructions of Body, one of TailBody and a final EXIT.
StraightPrograms ==
  {(0 :> a) @@ (1 :> b) @@ (2 :> c) @@ (3 :> I("EXIT")) @@ (4 :> I("EXIT")) :
     a \in Body, b \in Body, c \in TailBody}

\* Two paths of a divergent branch, with the barrier and memory accesses on
\* either side of the reconvergence point.
DivergentPrograms ==
  {(0 :> Ssy(3)) @@ (1 :> IfBra(2)) @@ (2 :> a) @@ (3 :> b) @@ (4 :> I("EXIT")) :
     a \in Body, b \in Body}

BlockPrograms == StraightPrograms \cup DivergentPrograms

\* Loops that never end, the barrier and the memory unit in use all the while.
LoopBody == {I("ALU"), I("LDS"), I("BAR"), If("EXIT")}
LoopPrograms ==
  {(0 :> a) @@ (1 :> Bra(-1)) @@ (2 :> I("EXIT")) : a \in Body}
=============================================================================
