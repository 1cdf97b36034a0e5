---------------------------- MODULE SimtLockstep ----------------------------
(***************************************************************************)
(* The warp of cu_core and the warp of the instruction-set simulator run   *)
(* the same program side by side on the same predicate values: one step of *)
(* the one with one step of the other, as the co-simulation benches do.    *)
(***************************************************************************)
EXTENDS SimtStack, IssWarp

lvars == << imem, stack, exited, finished, st, iexited, ifinished >>

\* The entry of a program is one of its instructions.
LInit ==
  /\ Init /\ stack[1].pc < CodeSize
  /\ IssInit(stack[1].mask, stack[1].pc)

SimtStep(p) == Finish \/ Pop \/ Exec(p)

LNext == \E p \in SUBSET (Active(stack, exited) \cup IssActive) :
           SimtStep(p) /\ IssStep(imem, p)

LSpec == LInit /\ [][LNext]_lvars

\* The unit keeps picking a ready warp, so the warp keeps stepping.
LFairSpec == LSpec /\ WF_lvars(LNext)

\* The simulator's word for a pc of the hardware.
Widen(pc) == IF pc = DONE THEN IssDone ELSE pc

\* The same frame on both sides.  A SYNC without an enclosing reconvergence point
\* ends its lanes: cu_core moves the frame to DONE, the simulator past the code.
SameFrame(f, g) ==
  /\ g.mask = f.mask
  /\ g.pc = Widen(f.pc) \/ (f.pc = DONE /\ g.pc = CodeSize)
  /\ g.rpc = Widen(f.rpc)
  /\ g.pend = Widen(f.pend)

\* cu_core and the golden model agree frame by frame after every instruction,
\* on the lanes each instruction executes for, and on when the warp is finished;
\* the comment at the head of cu_core claims it ("RTL == golden ISS bit-exact").
BitExact ==
  /\ Len(st) = Len(stack)
  /\ \A i \in 1 .. Len(stack) : SameFrame(stack[i], st[i])
  /\ PickIssue(stack, exited) => IssActive = Active(stack, exited)
  /\ exited \subseteq iexited
  /\ ifinished = finished
=============================================================================
