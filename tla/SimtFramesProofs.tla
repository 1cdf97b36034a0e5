-------------------------- MODULE SimtFramesProofs --------------------------
(***************************************************************************)
(* Lemmas about the operators of SimtFrames: they keep stacks well typed.  *)
(***************************************************************************)
EXTENDS SimtFrames, SequenceTheorems, TLAPS

\* Program counters: the modulus keeps every computed pc in range.
LEMMA PcSpaceType == PcSpace \in Nat /\ PcSpace >= 2 /\ DONE \in Pcs /\ 0 \in Pcs
  BY ImemAssumption DEF PcSpace, DONE, Pcs

\* An address computation that wraps at the width of a pc yields a pc.
LEMMA ModType == \A a \in Int : a % PcSpace \in Pcs
  BY PcSpaceType DEF Pcs

\* NextPc and BrTarget return pcs.
LEMMA PcTypes ==
  ASSUME NEW pc \in Pcs, NEW off \in Int
  PROVE  NextPc(pc) \in Pcs /\ BrTarget(pc, off) \in Pcs
  <1>1. pc + 1 \in Int /\ pc + off \in Int
    BY DEF Pcs
  <1> QED
    BY <1>1, ModType DEF NextPc, BrTarget

\* The instruction fetched is an instruction: the address wraps inside imem.
LEMMA FetchType ==
  ASSUME NEW imem \in Imem, NEW pc \in Pcs
  PROVE  Fetch(imem, pc) \in Insn
  <1>1. pc % ImemWords \in 0 .. ImemWords - 1
    BY ImemAssumption DEF Pcs
  <1> QED
    BY <1>1 DEF Fetch, Imem

\* The height of a non-empty stack is the index of its top frame.
LEMMA HeightType ==
  ASSUME NEW stk \in Seq(Frame), stk # << >>
  PROVE  /\ Len(stk) \in Nat /\ Len(stk) >= 1
         /\ Len(stk) \in 1 .. Len(stk)
         /\ Top(stk) = stk[Len(stk)] /\ stk[Len(stk)] \in Frame
  <1>1. Len(stk) \in Nat /\ Len(stk) >= 1
    BY EmptySeq
  <1> QED
    BY <1>1, ElementOfSeq DEF Top

\* The top of a stack of frames is a frame, also of the empty stack.
LEMMA TopType ==
  ASSUME NEW stk \in Seq(Frame)
  PROVE  Top(stk) \in Frame
  <1>1. CASE stk = << >>
    BY <1>1, PcSpaceType DEF Top, NoFrame, Frame
  <1>2. CASE stk # << >>
    BY <1>2, HeightType
  <1> QED
    BY <1>1, <1>2

\* ReconR picks one of the two pcs of its frame.
LEMMA ReconType ==
  ASSUME NEW f \in Frame
  PROVE  ReconR(f) \in Pcs
  BY DEF ReconR, Frame

\* Replacing the top frame by the frame f.
LEMMA ReplaceTop ==
  ASSUME NEW stk \in Seq(Frame), stk # << >>, NEW f \in Frame
  PROVE  /\ [stk EXCEPT ![Len(stk)] = f] \in Seq(Frame)
         /\ Len([stk EXCEPT ![Len(stk)] = f]) = Len(stk)
         /\ \A i \in 1 .. Len(stk) :
              [stk EXCEPT ![Len(stk)] = f][i] = IF i = Len(stk) THEN f ELSE stk[i]
  BY HeightType, ExceptSeq

\* Moving the top frame to another pc touches nothing else.
LEMMA SetPcIsReplace ==
  ASSUME NEW stk \in Seq(Frame), stk # << >>, NEW pc \in Pcs
  PROVE  /\ [Top(stk) EXCEPT !.pc = pc] \in Frame
         /\ SetPc(stk, pc) = [stk EXCEPT ![Len(stk)] = [Top(stk) EXCEPT !.pc = pc]]
  BY HeightType DEF SetPc, Frame

-----------------------------------------------------------------------------
\* The two shapes a retired instruction gives the stack.  It moves the top frame
\* on, keeping its lanes and its reconvergence point ...
Moves(stk, t) ==
  /\ t \in Seq(Frame) /\ Len(t) = Len(stk)
  /\ t[Len(stk)].mask = Top(stk).mask /\ t[Len(stk)].rpc = Top(stk).rpc
  /\ \A i \in 1 .. Len(stk) : i # Len(stk) => t[i] = stk[i]

\* ... or it splits the active lanes over two frames that both reconverge at the
\* pc of the frame left below them.
Splits(stk, active, gm, t) ==
  LET n == Len(stk)
  IN  /\ gm # {} /\ gm # active
      /\ t \in Seq(Frame) /\ Len(t) = n + 2
      /\ t[n].mask = active /\ t[n].rpc = Top(stk).rpc
      /\ t[n + 1].mask = active \ gm /\ t[n + 1].rpc = t[n].pc
      /\ t[n + 2].mask = gm /\ t[n + 2].rpc = t[n].pc
      /\ \A i \in 1 .. n : i # n => t[i] = stk[i]

\* Moving on to another pc changes nothing else of the frame.
LEMMA SetPcMoves ==
  ASSUME NEW stk \in Seq(Frame), stk # << >>, NEW pc \in Pcs
  PROVE  Moves(stk, SetPc(stk, pc))
  <1> DEFINE f == [Top(stk) EXCEPT !.pc = pc]
  <1>1. f \in Frame /\ SetPc(stk, pc) = [stk EXCEPT ![Len(stk)] = f]
    BY SetPcIsReplace
  <1>2. f.mask = Top(stk).mask /\ f.rpc = Top(stk).rpc
    BY TopType DEF Frame
  <1> HIDE DEF f
  <1> QED
    BY <1>1, <1>2, ReplaceTop, HeightType DEF Moves

\* SSY changes the pc and the recorded target of the frame, not its mask or rpc.
LEMMA SsyMoves ==
  ASSUME NEW stk \in Seq(Frame), stk # << >>, NEW pc \in Pcs, NEW target \in Pcs
  PROVE  Moves(stk, SsyStack(stk, pc, target))
  <1> DEFINE f == [Top(stk) EXCEPT !.pend = target, !.pc = NextPc(pc)]
  <1>0. Top(stk) \in Frame
    BY TopType
  <1>1. NextPc(pc) \in Pcs
    BY PcTypes
  <1>2. f \in Frame /\ f.mask = Top(stk).mask /\ f.rpc = Top(stk).rpc
    BY <1>0, <1>1 DEF Frame
  <1>3. SsyStack(stk, pc, target) = [stk EXCEPT ![Len(stk)] = f]
    BY HeightType DEF SsyStack
  <1> HIDE DEF f
  <1> QED
    BY <1>2, <1>3, ReplaceTop, HeightType DEF Moves

\* A divergent branch leaves a join frame and two paths above it.
Branches(stk, active, gm, pc, target, t) ==
  LET n == Len(stk)
      f == Top(stk)
      r == ReconR(f)
  IN  /\ t \in Seq(Frame) /\ Len(t) = n + 2
      /\ t[n]     = [mask |-> active, pc |-> r, rpc |-> f.rpc, pend |-> DONE]
      /\ t[n + 1] = [mask |-> active \ gm, pc |-> NextPc(pc), rpc |-> r, pend |-> DONE]
      /\ t[n + 2] = [mask |-> gm, pc |-> target, rpc |-> r, pend |-> DONE]
      /\ \A i \in 1 .. n : i # n => t[i] = stk[i]

LEMMA DivergeFrames ==
  ASSUME NEW stk \in Seq(Frame), stk # << >>,
         NEW active \in SUBSET Lanes, NEW gm \in SUBSET active,
         NEW pc \in Pcs, NEW target \in Pcs,
         gm # {}, gm # active
  PROVE  Branches(stk, active, gm, pc, target, Diverge(stk, active, gm, pc, target))
  <1> DEFINE f == Top(stk)
             r == ReconR(f)
             n == Len(stk)
             join == [mask |-> active, pc |-> r, rpc |-> f.rpc, pend |-> DONE]
             fall == [mask |-> active \ gm, pc |-> NextPc(pc), rpc |-> r, pend |-> DONE]
             take == [mask |-> gm, pc |-> target, rpc |-> r, pend |-> DONE]
             s1 == [stk EXCEPT ![n] = join]
             s2 == Append(s1, fall)
  <1>1. f \in Frame /\ r \in Pcs /\ NextPc(pc) \in Pcs /\ DONE \in Pcs
    <2>1. f \in Frame
      BY TopType
    <2> QED
      BY <2>1, ReconType, PcTypes, PcSpaceType DEF Frame
  <1>2. join \in Frame /\ fall \in Frame /\ take \in Frame
    BY <1>1 DEF Frame
  <1>3. /\ s1 \in Seq(Frame) /\ Len(s1) = n /\ n \in Nat /\ n >= 1
        /\ \A i \in 1 .. n : s1[i] = IF i = n THEN join ELSE stk[i]
    BY <1>2, ReplaceTop, HeightType
  <1>4. Diverge(stk, active, gm, pc, target) = Append(s2, take)
    BY DEF Diverge
  <1> HIDE DEF join, fall, take, s1
  <1>7. /\ s2 \in Seq(Frame) /\ Len(s2) = n + 1 /\ s2[n + 1] = fall
        /\ \A i \in 1 .. n : s2[i] = s1[i]
    BY <1>2, <1>3, AppendProperties
  <1> HIDE DEF s2
  <1>8. /\ Append(s2, take) \in Seq(Frame) /\ Len(Append(s2, take)) = n + 2
        /\ Append(s2, take)[n + 2] = take
        /\ \A i \in 1 .. n + 1 : Append(s2, take)[i] = s2[i]
    <2>1. \A i \in 1 .. Len(s2) : Append(s2, take)[i] = s2[i]
      BY <1>2, <1>7, AppendProperties
    <2>2. Append(s2, take)[Len(s2) + 1] = take /\ Len(s2) + 1 = n + 2
      BY <1>2, <1>3, <1>7, AppendProperties
    <2> QED
      BY <1>2, <1>3, <1>7, <2>1, <2>2, AppendProperties
  <1> DEFINE t == Append(s2, take)
  <1>9. t[n] = join /\ t[n + 1] = fall /\ t[n + 2] = take
    BY <1>3, <1>7, <1>8
  <1>10. \A i \in 1 .. n : i # n => t[i] = stk[i]
    BY <1>3, <1>7, <1>8
  <1> HIDE DEF t, n
  <1> QED
    BY <1>4, <1>8, <1>9, <1>10 DEF Branches, t, n, join, fall, take

\* So its lanes are shared out between two frames that come back to the join frame.
LEMMA DivergeSplits ==
  ASSUME NEW stk \in Seq(Frame), stk # << >>,
         NEW active \in SUBSET Lanes, NEW gm \in SUBSET active,
         NEW pc \in Pcs, NEW target \in Pcs,
         gm # {}, gm # active
  PROVE  Splits(stk, active, gm, Diverge(stk, active, gm, pc, target))
  <1> DEFINE t == Diverge(stk, active, gm, pc, target)
             n == Len(stk)
             r == ReconR(Top(stk))
  <1>1. Branches(stk, active, gm, pc, target, t)
    BY DivergeFrames
  <1> HIDE DEF t
  <1>2. /\ t \in Seq(Frame) /\ Len(t) = n + 2
        /\ t[n]     = [mask |-> active, pc |-> r, rpc |-> Top(stk).rpc, pend |-> DONE]
        /\ t[n + 1] = [mask |-> active \ gm, pc |-> NextPc(pc), rpc |-> r, pend |-> DONE]
        /\ t[n + 2] = [mask |-> gm, pc |-> target, rpc |-> r, pend |-> DONE]
        /\ \A i \in 1 .. n : i # n => t[i] = stk[i]
    BY <1>1 DEF Branches
  <1> HIDE DEF n, r
  <1> QED
    BY <1>2 DEF Splits, t, n

\* Every instruction gives the stack one of the two shapes.
LEMMA ExecShape ==
  ASSUME NEW stk \in Seq(Frame), stk # << >>, NEW exd \in SUBSET Lanes,
         NEW insn \in Insn, NEW pc \in Pcs, NEW gm \in SUBSET Active(stk, exd)
  PROVE  \/ Moves(stk, ExecStack(stk, exd, insn, pc, gm))
         \/ Splits(stk, Active(stk, exd), gm, ExecStack(stk, exd, insn, pc, gm))
  <1> DEFINE target == BrTarget(pc, insn.off)
  <1>1. Top(stk) \in Frame /\ insn.off \in Int
    BY TopType DEF Insn
  <1>2. NextPc(pc) \in Pcs /\ target \in Pcs /\ Top(stk).rpc \in Pcs
    BY <1>1, PcTypes DEF Frame
  <1>3. Active(stk, exd) \in SUBSET Lanes
    BY <1>1 DEF Active, Frame
  <1> HIDE DEF target
  <1>4. CASE insn.op = "BRA"
    <2>1. ExecStack(stk, exd, insn, pc, gm) = BranchStack(stk, Active(stk, exd), gm, pc, target)
      BY <1>4 DEF ExecStack, target
    <2>2. CASE gm = {}
      BY <1>2, <2>1, <2>2, SetPcMoves DEF BranchStack
    <2>3. CASE gm # {} /\ gm = Active(stk, exd)
      BY <1>2, <2>1, <2>3, SetPcMoves DEF BranchStack
    <2>4. CASE gm # {} /\ gm # Active(stk, exd)
      BY <1>2, <1>3, <2>1, <2>4, DivergeSplits DEF BranchStack
    <2> QED
      BY <2>2, <2>3, <2>4
  <1>5. CASE insn.op = "SSY"
    BY <1>2, <1>5, SsyMoves DEF ExecStack, target
  <1>6. CASE insn.op = "SYNC"
    BY <1>2, <1>6, SetPcMoves DEF ExecStack
  <1>7. CASE insn.op \notin {"BRA", "SSY", "SYNC"}
    BY <1>2, <1>7, SetPcMoves DEF ExecStack
  <1> QED
    BY <1>4, <1>5, <1>6, <1>7

\* Popping keeps the frames below the top.
LEMMA PopShape ==
  ASSUME NEW stk \in Seq(Frame), stk # << >>
  PROVE  /\ PopFrame(stk) \in Seq(Frame)
         /\ Len(PopFrame(stk)) = Len(stk) - 1
         /\ \A i \in 1 .. Len(stk) - 1 : PopFrame(stk)[i] = stk[i]
  <1>1. Len(stk) \in Nat /\ Len(stk) >= 1
    BY HeightType
  <1>2. \A i \in 1 .. Len(stk) - 1 : stk[i] \in Frame
    BY <1>1, ElementOfSeq
  <1> DEFINE t == SubSeq(stk, 1, Len(stk) - 1)
  <1>3. /\ t \in Seq(Frame)
        /\ Len(t) = IF 1 <= Len(stk) - 1 THEN Len(stk) - 1 - 1 + 1 ELSE 0
        /\ \A i \in 1 .. Len(stk) - 1 - 1 + 1 : t[i] = stk[1 + i - 1]
    <2>1. 1 \in Int /\ Len(stk) - 1 \in Int
      BY <1>1
    <2> QED
      BY <1>2, <2>1, SubSeqProperties
  <1>4. PopFrame(stk) = t
    BY DEF PopFrame
  <1> HIDE DEF t
  <1> QED
    BY <1>1, <1>3, <1>4
=============================================================================
