----------------------------- MODULE SimtFrames -----------------------------
(***************************************************************************)
(* The reconvergence-stack arithmetic of cu_core: what a frame is, when    *)
(* the frame on top is dead, and what one retired instruction does to the  *)
(* stack of the warp that retired it.  No state here: SimtStack (one warp) *)
(* and CuCore (a whole compute unit) are built from these operators.       *)
(***************************************************************************)
EXTENDS Integers, Sequences, FiniteSets

CONSTANTS Lanes,       \* the lanes of a warp (WARP_SIZE of them)
          ImemWords    \* IMEM_WORDS

ASSUME LanesAssumption == IsFiniteSet(Lanes)
ASSUME ImemAssumption  == ImemWords \in Nat \ {0}

\* A pc has one bit more than an imem address, so that the all-ones value
\* DONE names no instruction.
PcSpace == 2 * ImemWords
Pcs     == 0 .. PcSpace - 1
DONE    == PcSpace - 1

Frame == [mask : SUBSET Lanes, pc : Pcs, rpc : Pcs, pend : Pcs]

\* An instruction, as far as control and the pipeline tell instructions apart.
\* ALU stands for every opcode that retires at EXEC without a control effect
\* (arithmetic, RDSR, LDC, set-predicate, NOP, RET).  guarded is psel # 0 or a
\* negated guard; off is the signed branch displacement.
SharedOps == {"LDS", "STS", "ATOMS"}
GlobalOps == {"LDG", "STG", "ATOMG"}
MemOps    == SharedOps \cup GlobalOps
Opcodes   == {"ALU", "BRA", "SSY", "SYNC", "CALL", "EXIT", "BAR"} \cup MemOps
Insn    == [op : Opcodes, guarded : BOOLEAN, off : Int]
Imem    == [0 .. ImemWords - 1 -> Insn]

Fetch(imem, pc)   == imem[pc % ImemWords]
BrTarget(pc, off) == (pc + off) % PcSpace
NextPc(pc)        == (pc + 1) % PcSpace

\* The frame on top; all zeroes when there is none.
NoFrame == [mask |-> {}, pc |-> 0, rpc |-> 0, pend |-> 0]

Top(stk)         == IF stk = << >> THEN NoFrame ELSE stk[Len(stk)]
Active(stk, exd) == Top(stk).mask \ exd
PickFin(stk)     == stk = << >>
PickPop(stk, exd) ==
  /\ stk # << >>
  /\ Active(stk, exd) = {} \/ Top(stk).pc = Top(stk).rpc
PickIssue(stk, exd) == stk # << >> /\ ~PickPop(stk, exd)

PopFrame(stk) == SubSeq(stk, 1, Len(stk) - 1)

\* The lanes whose guard holds, given the lanes p on which the predicate does.
GuardMask(active, insn, p) == IF insn.guarded THEN active \cap p ELSE active

\* Fault: the target recorded by SSY is ignored.
ReconR_NoSsy(f) == f.rpc

ReconR(f) == IF f.pend # DONE THEN f.pend ELSE f.rpc

SetPc(stk, pc) == [stk EXCEPT ![Len(stk)].pc = pc]

\* Faults of the divergent branch: the join frame resumes after the branch; the
\* frame below is left out; the masks of the two paths are swapped; the
\* fall-through path keeps every lane.
Diverge_JoinHere(stk, active, gm, pc, target) ==
  LET r == ReconR(Top(stk))
      Path(m, at) == [mask |-> m, pc |-> at, rpc |-> r, pend |-> DONE]
  IN  SubSeq(stk, 1, Len(stk) - 1) \o
        << [Path(active, NextPc(pc)) EXCEPT !.rpc = Top(stk).rpc],
           Path(active \ gm, NextPc(pc)), Path(gm, target) >>
Diverge_NoJoin(stk, active, gm, pc, target) ==
  LET Path(m, at) == [mask |-> m, pc |-> at, rpc |-> ReconR(Top(stk)), pend |-> DONE]
  IN  SubSeq(stk, 1, Len(stk) - 1) \o
        << Path(active \ gm, NextPc(pc)), Path(gm, target) >>
Diverge_WholeMask(stk, active, gm, pc, target) ==
  LET r == ReconR(Top(stk))
      Path(m, at) == [mask |-> m, pc |-> at, rpc |-> r, pend |-> DONE]
  IN  SubSeq(stk, 1, Len(stk) - 1) \o
        << [Path(active, r) EXCEPT !.rpc = Top(stk).rpc],
           Path(active, NextPc(pc)), Path(gm, target) >>

\* A divergent branch at pc: the frame becomes the join frame, and the two paths
\* are pushed above it with the join point as their reconvergence point.
Diverge(stk, active, gm, pc, target) ==
  LET f    == Top(stk)
      r    == ReconR(f)
      join == [mask |-> active, pc |-> r, rpc |-> f.rpc, pend |-> DONE]
      Path(m, at) == [mask |-> m, pc |-> at, rpc |-> r, pend |-> DONE]
  IN  Append(Append([stk EXCEPT ![Len(stk)] = join],
                    Path(active \ gm, NextPc(pc))),
             Path(gm, target))

\* Fault: a branch taken by every lane is handled as divergent.
BranchStack_NoUniform(stk, active, gm, pc, target) ==
  IF gm = {} THEN SetPc(stk, NextPc(pc)) ELSE Diverge(stk, active, gm, pc, target)

BranchStack(stk, active, gm, pc, target) ==
  IF gm = {} THEN SetPc(stk, NextPc(pc))
  ELSE IF gm = active THEN SetPc(stk, target)
  ELSE Diverge(stk, active, gm, pc, target)

\* Fault: SSY records the displacement, not the address it leads to.
SsyStack_Relative(stk, pc, target) ==
  [stk EXCEPT ![Len(stk)] = [Top(stk) EXCEPT !.pend = target - pc, !.pc = NextPc(pc)]]

SsyStack(stk, pc, target) ==
  [stk EXCEPT ![Len(stk)] = [Top(stk) EXCEPT !.pend = target, !.pc = NextPc(pc)]]

\* The stack after the instruction insn, fetched from pc, retires on the guard
\* mask gm.
ExecStack(stk, exd, insn, pc, gm) ==
  LET target == BrTarget(pc, insn.off)
  IN  CASE insn.op = "BRA"  -> BranchStack(stk, Active(stk, exd), gm, pc, target)
        [] insn.op = "SSY"  -> SsyStack(stk, pc, target)
        [] insn.op = "SYNC" -> SetPc(stk, Top(stk).rpc)
        [] OTHER            -> SetPc(stk, NextPc(pc))

\* Fault: EXIT overwrites the exited lanes instead of adding to them.
ExecExited_Overwrites(exd, insn, gm) == IF insn.op = "EXIT" THEN gm ELSE exd

ExecExited(exd, insn, gm) == IF insn.op = "EXIT" THEN exd \cup gm ELSE exd
=============================================================================
