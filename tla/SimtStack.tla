------------------------------ MODULE SimtStack ------------------------------
(***************************************************************************)
(* One warp of cu_core running one program: its reconvergence stack, the   *)
(* lanes that have exited, and whether it is finished.  An instruction is  *)
(* atomic here, from the PICK that reads the frame to the EXEC that writes *)
(* it back; CuCore shows that the pipeline keeps it so.  Predicate values  *)
(* are data: a guarded instruction may see any subset of its lanes.        *)
(***************************************************************************)
EXTENDS SimtFrames

CONSTANTS Programs,    \* the instruction memories considered
          StackDepth   \* STACK_DEPTH

ASSUME ProgramsAssumption == Programs \subseteq Imem
ASSUME StackDepthAssumption ==
  /\ Lanes # {}
  /\ StackDepth \in Nat
  /\ StackDepth >= 2 * Cardinality(Lanes) - 1

VARIABLES imem, stack, exited, finished
vars == << imem, stack, exited, finished >>

BaseFrame(present, entry) ==
  [mask |-> present, pc |-> entry, rpc |-> DONE, pend |-> DONE]

\* Launch of a block that gives this warp the lanes `present`.
Init ==
  \E prog \in Programs, present \in (SUBSET Lanes) \ {{}}, entry \in 0 .. ImemWords - 1 :
     /\ imem = prog
     /\ stack = << BaseFrame(present, entry) >>
     /\ exited = Lanes \ present
     /\ finished = FALSE

Finish ==
  /\ ~finished
  /\ PickFin(stack)
  /\ finished' = TRUE
  /\ UNCHANGED << imem, stack, exited >>

Pop ==
  /\ PickPop(stack, exited)
  /\ stack' = PopFrame(stack)
  /\ UNCHANGED << imem, exited, finished >>

\* The instruction at the top frame retires with the predicate true on p.
Exec(p) ==
  LET pc   == Top(stack).pc
      insn == Fetch(imem, pc)
      gm   == GuardMask(Active(stack, exited), insn, p)
  IN  /\ PickIssue(stack, exited)
      /\ stack' = ExecStack(stack, exited, insn, pc, gm)
      /\ exited' = ExecExited(exited, insn, gm)
      /\ UNCHANGED << imem, finished >>

Next == Finish \/ Pop \/ \E p \in SUBSET Active(stack, exited) : Exec(p)
Spec == Init /\ [][Next]_vars

-----------------------------------------------------------------------------
TypeOK ==
  /\ imem \in Imem
  /\ stack \in Seq(Frame)
  /\ exited \in SUBSET Lanes
  /\ finished \in BOOLEAN

\* Every frame holds a lane, and a frame at height i holds few enough lanes
\* that the divergence it can still cause fits above it.
FrameBudget ==
  \A i \in 1 .. Len(stack) :
     /\ stack[i].mask # {}
     /\ i + 2 * Cardinality(stack[i].mask) <= 2 * Cardinality(Lanes) + 1

\* The stack never outgrows STACK_DEPTH, whatever the program and the branch
\* outcomes: the depth cu_core declares enough for a fully divergent loop, and
\* what its assertion a_stack_bounds watches.  The bound is reached: a loop
\* that peels off one lane per iteration pushes two frames for each.
DepthBound == Len(stack) <= StackDepth

\* The frame the lane l falls back to when the frame at height i pops.
Below(i, l) == {j \in 1 .. i - 1 : l \in stack[j].mask}

\* A frame that pops because its pc reached its rpc leaves each of its lanes in
\* a frame that resumes exactly there: the highest frame below that holds the
\* lane waits at the rpc of this one.
ResumePoint ==
  \A i \in 2 .. Len(stack) : \A l \in stack[i].mask :
     \E j \in Below(i, l) :
        /\ \A k \in Below(i, l) : k <= j
        /\ stack[j].pc = stack[i].rpc

\* A SYNC in the base frame ends the warp whatever its lanes have left to do, and
\* so does a way out of the instruction memory to the pc DONE. The next three are
\* of programs with neither: no SYNC, and every target and every instruction that
\* is followed on lies in the memory.
Ends(i)     == i.op \in {"EXIT", "BRA"} /\ ~i.guarded
Inside(a)   == a \in 0 .. ImemWords - 1
Plain ==
  \A a \in DOMAIN imem :
    /\ imem[a].op # "SYNC"
    /\ imem[a].op \in {"BRA", "SSY"} => Inside(a + imem[a].off)
    /\ Ends(imem[a]) \/ Inside(a + 1)

\* No lane is dropped: a lane that has not executed EXIT is in some frame, so a
\* finished warp has only exited lanes.
NoLaneLost ==
  Plain => \A l \in Lanes \ exited : \E i \in 1 .. Len(stack) : l \in stack[i].mask

\* A program that only branches forward and ends in EXIT ends, on every lane.
Forward    == \A a \in DOMAIN imem : imem[a].op = "BRA" => imem[a].off > 0
Terminates == Plain /\ Forward => <>(finished /\ exited = Lanes)

-----------------------------------------------------------------------------
\* The threads the warp stands for: a lane is at the pc of the highest frame
\* that holds it.
Height(l) == CHOOSE i \in 1 .. Len(stack) :
               /\ l \in stack[i].mask
               /\ \A j \in i + 1 .. Len(stack) : l \notin stack[j].mask
InFrame   == {l \in Lanes \ exited : \E i \in 1 .. Len(stack) : l \in stack[i].mask}

PcOf    == [l \in InFrame |-> stack[Height(l)].pc]
Threads == INSTANCE LaneThreads WITH thread <- PcOf

\* The lanes of a warp behave as independent threads: each step of the stack is
\* a step of some lanes that stand at the same instruction, or of none.
ThreadsSpec == Threads!Init /\ [][Plain => Threads!Next]_<< imem, PcOf >>
=============================================================================
