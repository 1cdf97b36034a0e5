------------------------------- MODULE IssWarp -------------------------------
(***************************************************************************)
(* Iss::step_warp of the golden model: one warp of the instruction-set     *)
(* simulator.  Program counters are 32-bit words that never wrap onto the  *)
(* code, and the code ends where the loaded program does.                  *)
(***************************************************************************)
EXTENDS SimtFrames

CONSTANTS IssPcSpace,   \* 2^32 in the code; TLC uses a smaller one
          CodeSize      \* bin.code.size()

ASSUME CodeSizeAssumption == CodeSize \in 1 .. ImemWords
ASSUME IssPcAssumption ==
  IssPcSpace \in Nat /\ IssPcSpace > 2 * PcSpace /\ IssPcSpace % PcSpace = 0

VARIABLES st, iexited, ifinished

IssDone == IssPcSpace - 1
IssWrap(pc) == pc % IssPcSpace

IssInit(present, entry) ==
  /\ st = << [mask |-> present, pc |-> entry, rpc |-> IssDone, pend |-> IssDone] >>
  /\ iexited = Lanes \ present
  /\ ifinished = FALSE

IssActive  == Active(st, iexited)
IssPops    == st # << >> /\ (IssActive = {} \/ Top(st).pc = Top(st).rpc)
IssRunsOff == st # << >> /\ ~IssPops /\ Top(st).pc >= CodeSize

IssFinish ==
  /\ st = << >>
  /\ ~ifinished /\ ifinished' = TRUE
  /\ UNCHANGED << st, iexited >>

IssPop ==
  /\ IssPops
  /\ st' = PopFrame(st)
  /\ UNCHANGED << iexited, ifinished >>

\* Past the last instruction the active lanes exit.
IssRunOff ==
  /\ IssRunsOff
  /\ iexited' = iexited \cup IssActive
  /\ st' = PopFrame(st)
  /\ UNCHANGED ifinished

IssDiverge(gm, target) ==
  LET f == Top(st)
      r == IF f.pend # IssDone THEN f.pend ELSE f.rpc
      Path(m, pc) == [mask |-> m, pc |-> pc, rpc |-> r, pend |-> IssDone]
  IN  Append(Append([st EXCEPT ![Len(st)] = [Path(IssActive, r) EXCEPT !.rpc = f.rpc]],
                    Path(IssActive \ gm, IssWrap(f.pc + 1))),
             Path(gm, target))

IssExec(imem, p) ==
  LET pc     == Top(st).pc
      insn   == imem[pc]
      gm     == GuardMask(IssActive, insn, p)
      target == IssWrap(pc + insn.off)
      Goto(t) == SetPc(st, t)
  IN  /\ st # << >> /\ ~IssPops /\ ~IssRunsOff
      /\ st' = CASE insn.op = "BRA" /\ gm = IssActive      -> Goto(target)
                 [] insn.op = "BRA" /\ gm # {} /\ gm # IssActive -> IssDiverge(gm, target)
                 [] insn.op = "SSY"  -> [st EXCEPT ![Len(st)].pend = target,
                                                   ![Len(st)].pc = IssWrap(pc + 1)]
                 [] insn.op = "SYNC" -> Goto(IF Top(st).rpc = IssDone
                                             THEN CodeSize ELSE Top(st).rpc)
                 [] insn.op = "CALL" -> Goto(target)
                 [] OTHER            -> Goto(IssWrap(pc + 1))
      /\ iexited' = IF insn.op = "EXIT" THEN iexited \cup gm ELSE iexited
      /\ UNCHANGED ifinished

IssStep(imem, p) == IssFinish \/ IssPop \/ IssRunOff \/ IssExec(imem, p)
=============================================================================
