--------------------------- MODULE MCSimtLockstep ---------------------------
(* SimtLockstep on every program of three instructions and a last one.     *)
EXTENDS SimtLockstep, TLC

CONSTANTS Ops, LastOps

Offsets(i) == {t - i : t \in 0 .. 3}
InsnsAt(i) ==
  {[op |-> "BRA", guarded |-> g, off |-> d] : g \in BOOLEAN, d \in Offsets(i)}
  \cup {[op |-> o, guarded |-> FALSE, off |-> d] :
     o \in {"SSY", "CALL"} \cap Ops, d \in Offsets(i)}
  \cup {[op |-> "EXIT", guarded |-> g, off |-> 0] : g \in BOOLEAN}
  \cup {[op |-> o, guarded |-> FALSE, off |-> 0] : o \in {"ALU", "SYNC"} \cap Ops}

LastInsns == {[op |-> o, guarded |-> FALSE, off |-> 0] : o \in LastOps}

AllPrograms ==
  {(0 :> a) @@ (1 :> b) @@ (2 :> c) @@ (3 :> z) :
     a \in InsnsAt(0), b \in InsnsAt(1), c \in InsnsAt(2), z \in LastInsns}

LaneSymmetry == Permutations(Lanes)   \* where no liveness is checked
==============================================================================
