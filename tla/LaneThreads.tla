----------------------------- MODULE LaneThreads -----------------------------
(***************************************************************************)
(* What SIMT execution promises a kernel: every lane is a thread with a pc *)
(* of its own.  A step executes one instruction for a set of threads that  *)
(* all stand at it; each takes its own side of a guarded branch, and a     *)
(* thread ends only by executing EXIT.  There is no stack here, no mask    *)
(* and no reconvergence.                                                   *)
(***************************************************************************)
EXTENDS SimtFrames

VARIABLES imem,
          thread    \* the pc of every live thread

Init == \E entry \in 0 .. ImemWords - 1, live \in (SUBSET Lanes) \ {{}} :
          /\ imem \in Imem
          /\ thread = [l \in live |-> entry]

\* The threads S, all at pc, execute the instruction there; its guard holds on gm.
Step(S, pc, gm) ==
  LET insn == Fetch(imem, pc)
      After(l) == IF insn.op = "BRA" /\ l \in gm
                  THEN BrTarget(pc, insn.off) ELSE NextPc(pc)
      Live == IF insn.op = "EXIT" THEN DOMAIN thread \ gm ELSE DOMAIN thread
  IN  /\ \A l \in S : thread[l] = pc
      /\ gm \subseteq S /\ (~insn.guarded => gm = S)
      /\ thread' = [l \in Live |-> IF l \in S THEN After(l) ELSE thread[l]]
      /\ UNCHANGED imem

Next == \E S \in (SUBSET DOMAIN thread) \ {{}}, pc \in Pcs :
          \E gm \in SUBSET S : Step(S, pc, gm)

Spec == Init /\ [][Next]_<< imem, thread >>
=============================================================================
