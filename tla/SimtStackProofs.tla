--------------------------- MODULE SimtStackProofs ---------------------------
(***************************************************************************)
(* The reconvergence stack of a warp, for any finite set of lanes, any     *)
(* instruction memory and any branch outcomes; the threads it stands for,  *)
(* and the golden simulator's stack in lockstep with it.                   *)
(***************************************************************************)
EXTENDS SimtLockstep, SimtFramesProofs, FiniteSetTheorems

\* What Exec does, spelled out once for the invariants below.
LEMMA ExecStep ==
  ASSUME TypeOK, NEW p \in SUBSET Active(stack, exited), Exec(p)
  PROVE  \E gm \in SUBSET Active(stack, exited) :
           /\ stack # << >>
           /\ exited' \in SUBSET Lanes /\ exited \subseteq exited'
           /\ \/ Moves(stack, stack')
              \/ Splits(stack, Active(stack, exited), gm, stack')
  <1> DEFINE pc == Top(stack).pc
             insn == Fetch(imem, pc)
             gm == GuardMask(Active(stack, exited), insn, p)
  <1>1. Top(stack) \in Frame
    BY TopType DEF TypeOK
  <1>2. pc \in Pcs /\ insn \in Insn
    BY <1>1, FetchType DEF TypeOK, Frame
  <1>3. gm \in SUBSET Active(stack, exited) /\ Active(stack, exited) \in SUBSET Lanes
    BY <1>1 DEF GuardMask, Active, Frame
  <1>4. /\ stack # << >>
        /\ stack' = ExecStack(stack, exited, insn, pc, gm)
        /\ exited' = ExecExited(exited, insn, gm)
    BY DEF Exec, PickIssue
  <1>5. exited' \in SUBSET Lanes /\ exited \subseteq exited'
    BY <1>3, <1>4 DEF ExecExited, TypeOK
  <1> HIDE DEF pc, insn, gm
  <1>6. \/ Moves(stack, stack')
        \/ Splits(stack, Active(stack, exited), gm, stack')
    BY <1>2, <1>3, <1>4, ExecShape DEF TypeOK
  <1> QED
    BY <1>3, <1>4, <1>5, <1>6

\* Type correctness: every frame the hardware writes is a frame.
THEOREM TypeCorrect == Spec => []TypeOK
  <1>1. Init => TypeOK
    <2> SUFFICES ASSUME Init PROVE TypeOK
      OBVIOUS
    <2> PICK prog \in Programs, present \in (SUBSET Lanes) \ {{}}, entry \in 0 .. ImemWords - 1 :
          /\ imem = prog
          /\ stack = << BaseFrame(present, entry) >>
          /\ exited = Lanes \ present
          /\ finished = FALSE
      BY DEF Init
    <2>1. entry \in Pcs
      BY ImemAssumption DEF Pcs, PcSpace
    <2>2. BaseFrame(present, entry) \in Frame
      BY <2>1, PcSpaceType DEF BaseFrame, Frame
    <2>3. << BaseFrame(present, entry) >> \in Seq(Frame)
      BY <2>2
    <2>4. imem \in Imem /\ exited \in SUBSET Lanes
      BY ProgramsAssumption
    <2> QED
      BY <2>3, <2>4 DEF TypeOK
  <1>2. TypeOK /\ [Next]_vars => TypeOK'
    <2> SUFFICES ASSUME TypeOK, [Next]_vars PROVE TypeOK'
      OBVIOUS
    <2>1. CASE Finish
      BY <2>1 DEF Finish, TypeOK
    <2>2. CASE Pop
      BY <2>2, PopShape DEF Pop, PickPop, TypeOK
    <2>3. ASSUME NEW p \in SUBSET Active(stack, exited), Exec(p) PROVE TypeOK'
      <3>1. imem' = imem /\ finished' = finished
        BY <2>3 DEF Exec
      <3> QED
        BY <2>3, <3>1, ExecStep DEF TypeOK, Moves, Splits
    <2>4. CASE UNCHANGED vars
      BY <2>4 DEF vars, TypeOK
    <2> QED
      BY <2>1, <2>2, <2>3, <2>4 DEF Next
  <1> QED
    BY <1>1, <1>2, PTL DEF Spec

-----------------------------------------------------------------------------
\* The budget of one frame, as a predicate of its height and its mask.
Fits(i, mask) == mask # {} /\ i + 2 * Cardinality(mask) <= 2 * Cardinality(Lanes) + 1

\* Sets of lanes are finite, and a proper part of one is smaller.
LEMMA LaneSets ==
  ASSUME NEW m \in SUBSET Lanes
  PROVE  /\ IsFiniteSet(m) /\ Cardinality(m) \in Nat
         /\ Cardinality(m) <= Cardinality(Lanes) /\ Cardinality(Lanes) \in Nat
         /\ m # {} => Cardinality(m) >= 1
         /\ \A q \in SUBSET m : Cardinality(q) \in Nat /\ Cardinality(q) <= Cardinality(m)
         /\ \A q \in SUBSET m : q # m => Cardinality(q) + 1 <= Cardinality(m)
  <1>1. IsFiniteSet(m) /\ Cardinality(m) <= Cardinality(Lanes)
    BY LanesAssumption, FS_Subset
  <1>2. Cardinality(m) \in Nat /\ Cardinality(Lanes) \in Nat
    BY <1>1, LanesAssumption, FS_CardinalityType
  <1>3. m # {} => Cardinality(m) # 0
    BY <1>1, FS_EmptySet
  <1>4. ASSUME NEW q \in SUBSET m
        PROVE  /\ Cardinality(q) \in Nat /\ Cardinality(q) <= Cardinality(m)
               /\ q # m => Cardinality(q) # Cardinality(m)
    BY <1>1, FS_Subset, FS_CardinalityType
  <1> QED
    BY <1>1, <1>2, <1>3, <1>4

\* Fewer lanes, at the same height, fit as well.
LEMMA FitsSubset ==
  ASSUME NEW i \in Nat, NEW m \in SUBSET Lanes, NEW q \in SUBSET m, q # {}, Fits(i, m)
  PROVE  Fits(i, q)
  BY LaneSets DEF Fits

\* A proper part of the lanes fits one and two frames higher.
LEMMA FitsAbove ==
  ASSUME NEW i \in Nat, NEW m \in SUBSET Lanes, NEW q \in SUBSET m,
         q # {}, q # m, Fits(i, m)
  PROVE  Fits(i + 1, q) /\ Fits(i + 2, q)
  BY LaneSets DEF Fits

\* The budget holds in every state.
THEOREM BudgetHolds == Spec => []FrameBudget
  <1> DEFINE Budget == \A i \in 1 .. Len(stack) : Fits(i, stack[i].mask)
  <1>0. Budget <=> FrameBudget
    BY DEF Fits, FrameBudget
  <1>1. Init => FrameBudget
    <2> SUFFICES ASSUME Init PROVE FrameBudget
      OBVIOUS
    <2> PICK present \in (SUBSET Lanes) \ {{}}, entry \in 0 .. ImemWords - 1 :
          stack = << BaseFrame(present, entry) >>
      BY DEF Init
    <2>1. Len(stack) = 1 /\ stack[1].mask = present
      BY DEF BaseFrame
    <2>2. Fits(1, present)
      BY LaneSets DEF Fits
    <2> QED
      BY <2>1, <2>2, <1>0
  <1>2. TypeOK /\ FrameBudget /\ [Next]_vars => FrameBudget'
    <2> SUFFICES ASSUME TypeOK, FrameBudget, [Next]_vars PROVE FrameBudget'
      OBVIOUS
    <2>0. ASSUME NEW i \in 1 .. Len(stack)
          PROVE  /\ i \in Nat /\ Len(stack) \in Nat /\ stack[i] \in Frame
                 /\ stack[i].mask \in SUBSET Lanes /\ Fits(i, stack[i].mask)
      <3>1. stack[i] \in Frame
        BY ElementOfSeq DEF TypeOK
      <3> QED
        BY <3>1, LenProperties DEF TypeOK, FrameBudget, Fits, Frame
    <2>1. CASE UNCHANGED stack
      BY <2>1 DEF FrameBudget
    <2>2. CASE Pop
      <3>1. stack # << >> /\ stack' = PopFrame(stack)
        BY <2>2 DEF Pop, PickPop
      <3>2. /\ Len(stack') = Len(stack) - 1 /\ Len(stack) \in Nat
            /\ \A i \in 1 .. Len(stack) - 1 : stack'[i] = stack[i]
        BY <3>1, PopShape, HeightType DEF TypeOK
      <3> QED
        BY <3>2 DEF FrameBudget
    <2>3. ASSUME NEW p \in SUBSET Active(stack, exited), Exec(p) PROVE FrameBudget'
      <3> DEFINE n == Len(stack)
                 active == Active(stack, exited)
      <3>1. PICK gm \in SUBSET active :
              /\ stack # << >>
              /\ Moves(stack, stack') \/ Splits(stack, active, gm, stack')
        BY <2>3, ExecStep
      <3>2. n \in 1 .. n /\ n \in Nat /\ Top(stack) = stack[n]
        BY <3>1, HeightType DEF TypeOK
      <3>3. active \in SUBSET stack[n].mask /\ active # {}
        BY <2>3, <3>1, <3>2 DEF Active, Exec, PickIssue, PickPop
      <3>4. stack[n].mask \in SUBSET Lanes /\ Fits(n, stack[n].mask)
        BY <2>0, <3>2
      <3> HIDE DEF active, n
      <3>5. Fits(n, active) /\ active \in SUBSET Lanes
        BY <3>2, <3>3, <3>4, FitsSubset
      <3>6. CASE Moves(stack, stack')
        <4>1. \A i \in 1 .. Len(stack') : Fits(i, stack'[i].mask)
          BY <2>0, <3>2, <3>4, <3>6 DEF Moves, n
        <4> QED
          BY <4>1 DEF FrameBudget, Fits
      <3>7. CASE Splits(stack, active, gm, stack')
        <4>1. Fits(n + 1, active \ gm) /\ Fits(n + 2, gm)
          <5>1. gm # {} /\ gm # active
            BY <3>7 DEF Splits
          <5>2. active \ gm # {} /\ active \ gm # active /\ active \ gm \in SUBSET active
            BY <5>1
          <5> QED
            BY <3>2, <3>5, <5>1, <5>2, FitsAbove
        <4>2. /\ Len(stack') = n + 2
              /\ stack'[n].mask = active
              /\ stack'[n + 1].mask = active \ gm
              /\ stack'[n + 2].mask = gm
              /\ \A i \in 1 .. n : i # n => stack'[i] = stack[i]
          BY <3>7 DEF Splits, n
        <4>3. ASSUME NEW i \in 1 .. n + 2 PROVE Fits(i, stack'[i].mask)
          <5>1. CASE i = n
            BY <5>1, <4>2, <3>5
          <5>2. CASE i = n + 1
            BY <5>2, <4>1, <4>2
          <5>3. CASE i = n + 2
            BY <5>3, <4>1, <4>2
          <5>4. CASE i \in 1 .. n /\ i # n
            BY <5>4, <4>2, <2>0 DEF n
          <5> QED
            BY <5>1, <5>2, <5>3, <5>4, <3>2
        <4> QED
          BY <4>2, <4>3 DEF FrameBudget, Fits
      <3> QED
        BY <3>1, <3>6, <3>7
    <2> QED
      BY <2>1, <2>2, <2>3 DEF Next, Finish, vars
  <1> HIDE DEF Budget
  <1> QED
    BY <1>1, <1>2, TypeCorrect, PTL DEF Spec

\* STACK_DEPTH is deep enough: with WARP_SIZE lanes the stack never holds more
\* than 2 * WARP_SIZE - 1 frames (63 of the 64 the hardware has).
THEOREM DepthBounded == Spec => []DepthBound
  <1>1. TypeOK /\ FrameBudget => DepthBound
    <2> SUFFICES ASSUME TypeOK, FrameBudget PROVE DepthBound
      OBVIOUS
    <2>1. CASE stack = << >>
      BY <2>1, EmptySeq, StackDepthAssumption DEF DepthBound
    <2>2. CASE stack # << >>
      <3> DEFINE n == Len(stack)
      <3>1. n \in 1 .. n /\ n \in Nat /\ stack[n] \in Frame
        BY <2>2, HeightType DEF TypeOK
      <3>2. stack[n].mask # {} /\ n + 2 * Cardinality(stack[n].mask) <= 2 * Cardinality(Lanes) + 1
        BY <3>1 DEF FrameBudget
      <3>3. stack[n].mask \in SUBSET Lanes
        BY <3>1 DEF Frame
      <3>4. /\ Cardinality(stack[n].mask) \in Nat /\ Cardinality(stack[n].mask) >= 1
            /\ Cardinality(Lanes) \in Nat
        BY <3>2, <3>3, LaneSets
      <3> QED
        BY <3>1, <3>2, <3>4, StackDepthAssumption DEF DepthBound
    <2> QED
      BY <2>1, <2>2
  <1> QED
    BY <1>1, TypeCorrect, BudgetHolds, PTL

-----------------------------------------------------------------------------
\* A popped frame's lanes resume exactly where the frame stopped: the frame left
\* on top of them waits at its reconvergence point.
THEOREM ResumePointHolds == Spec => []ResumePoint
  <1>1. Init => ResumePoint
    <2> SUFFICES ASSUME Init PROVE ResumePoint
      OBVIOUS
    <2>1. Len(stack) = 1
      BY DEF Init
    <2> QED
      BY <2>1 DEF ResumePoint
  <1>2. TypeOK /\ ResumePoint /\ [Next]_vars => ResumePoint'
    <2> SUFFICES ASSUME TypeOK, ResumePoint, [Next]_vars PROVE ResumePoint'
      OBVIOUS
    <2> USE DEF Below
    <2>1. CASE UNCHANGED stack
      BY <2>1 DEF ResumePoint
    <2>2. CASE Pop
      <3>1. stack # << >> /\ stack' = PopFrame(stack)
        BY <2>2 DEF Pop, PickPop
      <3>2. /\ Len(stack') = Len(stack) - 1 /\ Len(stack) \in Nat
            /\ \A i \in 1 .. Len(stack) - 1 : stack'[i] = stack[i]
        BY <3>1, PopShape, HeightType DEF TypeOK
      <3>3. ASSUME NEW i \in 2 .. Len(stack')
            PROVE  /\ i \in 2 .. Len(stack)
                   /\ stack'[i] = stack[i]
                   /\ \A j \in 1 .. i - 1 : stack'[j] = stack[j]
        BY <3>2
      <3>4. ASSUME NEW i \in 2 .. Len(stack'), NEW l \in stack'[i].mask
            PROVE  \E j \in Below(i, l)' :
                     /\ \A k \in Below(i, l)' : k <= j
                     /\ stack'[j].pc = stack'[i].rpc
        <4>1. PICK j \in Below(i, l) :
                /\ \A k \in Below(i, l) : k <= j
                /\ stack[j].pc = stack[i].rpc
          BY <3>3, <3>4 DEF ResumePoint
        <4>2. Below(i, l)' = Below(i, l)
          BY <3>3
        <4>3. stack'[j].pc = stack'[i].rpc
          BY <3>3, <4>1
        <4> HIDE DEF Below
        <4> QED
          BY <4>1, <4>2, <4>3
      <3> HIDE DEF Below
      <3> QED
        BY <3>4 DEF ResumePoint
    <2>3. ASSUME NEW p \in SUBSET Active(stack, exited), Exec(p) PROVE ResumePoint'
      <3> DEFINE n == Len(stack)
                 active == Active(stack, exited)
      <3>1. PICK gm \in SUBSET active :
              /\ stack # << >>
              /\ Moves(stack, stack') \/ Splits(stack, active, gm, stack')
        BY <2>3, ExecStep
      <3>2. n \in 1 .. n /\ n \in Nat /\ Top(stack) = stack[n]
        BY <3>1, HeightType DEF TypeOK
      <3>3. active \in SUBSET stack[n].mask
        BY <3>2 DEF Active
      <3> HIDE DEF active, n
      <3>4. ASSUME NEW i \in 2 .. n, NEW l \in stack[i].mask
            PROVE  \E j \in Below(i, l) :
                     /\ \A k \in Below(i, l) : k <= j
                     /\ stack[j].pc = stack[i].rpc
        BY <3>4 DEF ResumePoint, n
      <3>5. CASE Moves(stack, stack')
        <4>1. /\ Len(stack') = n
              /\ \A i \in 1 .. n : stack'[i].mask = stack[i].mask /\ stack'[i].rpc = stack[i].rpc
              /\ \A i \in 1 .. n : i # n => stack'[i].pc = stack[i].pc
          BY <3>2, <3>5 DEF Moves, n
        <4>2. ASSUME NEW i \in 2 .. n, NEW l \in stack'[i].mask
              PROVE  \E j \in Below(i, l)' :
                       /\ \A k \in Below(i, l)' : k <= j
                       /\ stack'[j].pc = stack'[i].rpc
          <5>1. Below(i, l)' = Below(i, l) /\ Below(i, l) \subseteq 1 .. n - 1
            BY <4>1, <3>2
          <5>2. l \in stack[i].mask /\ stack'[i].rpc = stack[i].rpc
            BY <4>1, <3>2
          <5> QED
            BY <5>1, <5>2, <4>1, <3>4, <3>2
        <4> QED
          BY <4>1, <4>2 DEF ResumePoint
      <3>6. CASE Splits(stack, active, gm, stack')
        <4>1. /\ Len(stack') = n + 2
              /\ stack'[n].mask = active /\ stack'[n].rpc = stack[n].rpc
              /\ stack'[n + 1].mask = active \ gm /\ stack'[n + 1].rpc = stack'[n].pc
              /\ stack'[n + 2].mask = gm /\ stack'[n + 2].rpc = stack'[n].pc
              /\ \A i \in 1 .. n : i # n => stack'[i] = stack[i]
          BY <3>2, <3>6 DEF Splits, n
        <4>2. ASSUME NEW i \in 2 .. n + 2, NEW l \in stack'[i].mask
              PROVE  \E j \in Below(i, l)' :
                       /\ \A k \in Below(i, l)' : k <= j
                       /\ stack'[j].pc = stack'[i].rpc
          <5>1. CASE i \in 2 .. n
            <6>1. /\ Below(i, l)' = Below(i, l) /\ Below(i, l) \subseteq 1 .. n - 1
                  /\ l \in stack[i].mask /\ stack'[i].rpc = stack[i].rpc
              BY <5>1, <4>1, <3>2, <3>3
            <6> QED
              BY <5>1, <6>1, <4>1, <3>4, <3>2
          <5>2. CASE i = n + 1
            <6>1. n \in Below(i, l)' /\ \A k \in Below(i, l)' : k <= n
              BY <5>2, <4>1, <3>2
            <6> QED
              BY <5>2, <6>1, <4>1
          <5>3. CASE i = n + 2
            <6>1. l \in gm /\ l \in active /\ l \notin active \ gm
              BY <5>3, <4>1
            <6>2. n \in Below(i, l)' /\ \A k \in Below(i, l)' : k <= n
              BY <5>3, <6>1, <4>1, <3>2
            <6> QED
              BY <5>3, <6>2, <4>1
          <5> QED
            BY <5>1, <5>2, <5>3, <3>2
        <4> QED
          BY <4>1, <4>2 DEF ResumePoint
      <3> QED
        BY <3>1, <3>5, <3>6
    <2> QED
      BY <2>1, <2>2, <2>3 DEF Next, Finish, vars
  <1> QED
    BY <1>1, <1>2, TypeCorrect, PTL DEF Spec

-----------------------------------------------------------------------------
\* No lane is lost. NoLaneLost is not inductive: a frame that pops at its reconvergence
\* point drops its lanes unless they are in another frame, and a frame that stands at DONE
\* pops at once. The invariant says where lanes stand: the highest frame of a live lane is at
\* an instruction; frames come back to instructions, or to DONE if no SSY gave them a point;
\* and the base frame to DONE.
Highest(stk, l, i) ==
  /\ i \in 1 .. Len(stk) /\ l \in stk[i].mask
  /\ \A j \in 1 .. Len(stk) : j > i => l \notin stk[j].mask
Stands(stk, l) == \E i \in 1 .. Len(stk) : Highest(stk, l, i) /\ Inside(stk[i].pc)
Points(stk) ==
  /\ \A i \in 1 .. Len(stk) : \A a \in {stk[i].rpc, stk[i].pend} : Inside(a) \/ a = DONE
  /\ stk # << >> => stk[1].rpc = DONE
LaneInv == Plain => Points(stack) /\ \A l \in Lanes \ exited : Stands(stack, l)

\* DONE is no instruction, and the one after an instruction is found by adding one.
LEMMA InsideFacts ==
  /\ ~Inside(DONE)
  /\ \A a \in 0 .. ImemWords - 1 : a \in Pcs /\ a % ImemWords = a /\ NextPc(a) = a + 1
  /\ \A a \in 0 .. ImemWords - 1, off \in Int : Inside(a + off) => BrTarget(a, off) = a + off
  <1>1. ImemWords \in Nat /\ ImemWords >= 1
    BY ImemAssumption
  <1>2. \A m \in Nat, a \in Nat : m > a => a % m = a
    OBVIOUS
  <1> QED
    BY <1>1, <1>2 DEF Inside, DONE, PcSpace, Pcs, NextPc, BrTarget

\* A lane of the top frame has no higher one.
LEMMA OnTop ==
  ASSUME NEW stk \in Seq(Frame), stk # << >>, NEW l \in Top(stk).mask, Stands(stk, l)
  PROVE  Inside(Top(stk).pc)
  <1>1. Len(stk) \in Nat /\ Len(stk) \in 1 .. Len(stk) /\ Top(stk) = stk[Len(stk)]
    BY HeightType
  <1>2. PICK i \in 1 .. Len(stk) : Highest(stk, l, i) /\ Inside(stk[i].pc)
    BY DEF Stands
  <1>3. i = Len(stk)
    BY <1>1, <1>2 DEF Highest
  <1> QED
    BY <1>1, <1>2, <1>3

\* Popping: the lanes of the frame, if any is live, resume in the next frame that has them.
LEMMA PopStands ==
  ASSUME TypeOK, ResumePoint, Points(stack), \A l \in Lanes \ exited : Stands(stack, l), Pop
  PROVE  Points(stack') /\ \A l \in Lanes \ exited' : Stands(stack', l)
  <1> DEFINE n == Len(stack)
             t == stack'
  <1>1. stack # << >> /\ stack \in Seq(Frame) /\ exited' = exited /\ t = PopFrame(stack)
    BY DEF Pop, PickPop, TypeOK
  <1>2. n \in Nat /\ n >= 1 /\ n \in 1 .. n /\ Top(stack) = stack[n]
    BY <1>1, HeightType
  <1>3. t \in Seq(Frame) /\ Len(t) = n - 1 /\ \A i \in 1 .. n - 1 : t[i] = stack[i]
    BY <1>1, PopShape
  <1> HIDE DEF t
  <1>4. t # << >> => Len(t) # 0
    BY <1>3, EmptySeq
  <1>5. Points(t)
    <2>1. \A i \in 1 .. n - 1 : i \in 1 .. n
      BY <1>2
    <2>2. t # << >> => 1 \in 1 .. n - 1
      BY <1>2, <1>3, <1>4
    <2> QED
      BY <1>1, <1>3, <2>1, <2>2 DEF Points
  <1>6. ASSUME NEW l \in Lanes \ exited
        PROVE  Stands(t, l)
    <2>1. PICK i \in 1 .. n : Highest(stack, l, i) /\ Inside(stack[i].pc)
      BY <1>6 DEF Stands
    <2>2. CASE i # n
      <3>1. i \in 1 .. n - 1
        BY <1>2, <2>2
      <3>2. Highest(t, l, i) /\ Inside(t[i].pc)
        BY <1>2, <1>3, <2>1, <3>1 DEF Highest
      <3> QED
        BY <1>3, <3>1, <3>2 DEF Stands
    <2>3. CASE i = n
      <3>1. l \in stack[n].mask /\ l \in Active(stack, exited) /\ Inside(stack[n].pc)
        BY <1>2, <2>1, <2>3 DEF Highest, Active
      <3>2. stack[n].pc = stack[n].rpc
        BY <1>2, <3>1 DEF Pop, PickPop
      <3>3. n # 1
        BY <1>1, <3>1, <3>2, InsideFacts DEF Points
      <3>4. PICK j \in Below(n, l) : (\A k \in Below(n, l) : k <= j) /\ stack[j].pc = stack[n].rpc
        <4> HIDE DEF n
        <4>1. n \in 2 .. n
          BY <1>2, <3>3
        <4> QED
          BY <3>1, <4>1 DEF ResumePoint, n
      <3>5. j \in 1 .. n - 1 /\ l \in stack[j].mask /\ \A k \in 1 .. n - 1 : k > j => l \notin stack[k].mask
        BY <1>2, <3>4 DEF Below
      <3>6. Highest(t, l, j) /\ Inside(t[j].pc)
        BY <1>3, <3>1, <3>2, <3>4, <3>5 DEF Highest
      <3> QED
        BY <1>3, <3>5, <3>6 DEF Stands
    <2> QED
      BY <2>2, <2>3
  <1> QED
    BY <1>1, <1>5, <1>6 DEF t

\* Where the top frame alone changes and keeps its lanes, they go where it goes.
LEMMA MoveStands ==
  ASSUME NEW stk \in Seq(Frame), stk # << >>, NEW f \in Frame,
         f.mask = Top(stk).mask, f.rpc = Top(stk).rpc,
         f.pend = Top(stk).pend \/ Inside(f.pend),
         Points(stk),
         NEW live \in SUBSET Lanes, \A l \in live : Stands(stk, l),
         \A l \in live \cap f.mask : Inside(f.pc)
  PROVE  LET t == [stk EXCEPT ![Len(stk)] = f]
         IN  Points(t) /\ \A l \in live : Stands(t, l)
  <1> DEFINE n == Len(stk)
             t == [stk EXCEPT ![Len(stk)] = f]
  <1>1. n \in Nat /\ n >= 1 /\ n \in 1 .. n /\ Top(stk) = stk[n]
    BY HeightType
  <1>2. t \in Seq(Frame) /\ Len(t) = n /\ \A i \in 1 .. n : t[i] = IF i = n THEN f ELSE stk[i]
    BY ReplaceTop
  <1> HIDE DEF t
  <1>3. \A i \in 1 .. n : t[i].mask = stk[i].mask /\ t[i].rpc = stk[i].rpc
    BY <1>1, <1>2
  <1>4. Points(t)
    <2>1. 1 \in 1 .. n
      BY <1>1
    <2>2. \A i \in 1 .. n : t[i].pend = stk[i].pend \/ Inside(t[i].pend)
      BY <1>1, <1>2
    <2> QED
      BY <1>2, <1>3, <2>1, <2>2 DEF Points
  <1>5. ASSUME NEW l \in live
        PROVE  Stands(t, l)
    <2>1. PICK i \in 1 .. n : Highest(stk, l, i) /\ Inside(stk[i].pc)
      BY <1>5 DEF Stands
    <2>2. Highest(t, l, i)
      BY <1>2, <1>3, <2>1 DEF Highest
    <2>3. Inside(t[i].pc)
      BY <1>1, <1>2, <2>1 DEF Highest
    <2> QED
      BY <1>2, <2>2, <2>3 DEF Stands
  <1> QED
    BY <1>4, <1>5 DEF t

\* Where it splits, each of its live lanes stands on its own side of the branch.
LEMMA SplitStands ==
  ASSUME NEW stk \in Seq(Frame), stk # << >>, NEW exd \in SUBSET Lanes,
         NEW active \in SUBSET Lanes, active = Active(stk, exd),
         NEW gm \in SUBSET active, gm # {}, gm # active,
         NEW pc \in Pcs, Inside(NextPc(pc)), NEW target \in Pcs, Inside(target),
         Points(stk), \A l \in Lanes \ exd : Stands(stk, l)
  PROVE  LET t == Diverge(stk, active, gm, pc, target)
         IN  Points(t) /\ \A l \in Lanes \ exd : Stands(t, l)
  <1> DEFINE n == Len(stk)
             f == Top(stk)
             r == ReconR(f)
             t == Diverge(stk, active, gm, pc, target)
  <1>1. n \in Nat /\ n >= 1 /\ n \in 1 .. n /\ f = stk[n] /\ f \in Frame
    BY HeightType
  <1>2. active = f.mask \ exd
    BY DEF Active
  <1>3. /\ t \in Seq(Frame) /\ Len(t) = n + 2
        /\ t[n]     = [mask |-> active, pc |-> r, rpc |-> f.rpc, pend |-> DONE]
        /\ t[n + 1] = [mask |-> active \ gm, pc |-> NextPc(pc), rpc |-> r, pend |-> DONE]
        /\ t[n + 2] = [mask |-> gm, pc |-> target, rpc |-> r, pend |-> DONE]
        /\ \A i \in 1 .. n : i # n => t[i] = stk[i]
    <2>1. Branches(stk, active, gm, pc, target, t)
      BY DivergeFrames
    <2> HIDE DEF t
    <2> QED
      BY <2>1 DEF Branches
  <1>4. (Inside(f.rpc) \/ f.rpc = DONE) /\ (Inside(f.pend) \/ f.pend = DONE)
    BY <1>1 DEF Points
  <1>5. Inside(r) \/ r = DONE
    BY <1>4 DEF ReconR
  <1> HIDE DEF t, n, f, r
  <1>6. \A i \in 1 .. n + 2 : i \in 1 .. n - 1 \/ i = n \/ i = n + 1 \/ i = n + 2
    BY <1>1
  <1>7. /\ \A i \in 1 .. n - 1 : i \in 1 .. n /\ i # n /\ i \in 1 .. n + 2
        /\ n \in 1 .. n + 2 /\ n + 1 \in 1 .. n + 2 /\ n + 2 \in 1 .. n + 2
    BY <1>1
  <1>8. Points(t)
    <2>1. \A i \in 1 .. n + 2 : \A a \in {t[i].rpc, t[i].pend} : Inside(a) \/ a = DONE
      <3>1. \A i \in 1 .. n - 1 : \A a \in {t[i].rpc, t[i].pend} : Inside(a) \/ a = DONE
        BY <1>3, <1>7 DEF Points, n
      <3>2. \A i \in {n, n + 1, n + 2} : \A a \in {t[i].rpc, t[i].pend} : Inside(a) \/ a = DONE
        BY <1>3, <1>4, <1>5
      <3> QED
        BY <1>6, <3>1, <3>2
    <2>2. t[1].rpc = DONE
      <3>1. stk[1].rpc = DONE
        BY DEF Points
      <3>2. CASE n = 1
        BY <1>1, <1>3, <3>1, <3>2
      <3>3. CASE n # 1
        BY <1>1, <1>3, <3>1, <3>3
      <3> QED
        BY <3>2, <3>3
    <2> QED
      BY <1>3, <2>1, <2>2 DEF Points
  <1>9. ASSUME NEW l \in Lanes \ exd
        PROVE  Stands(t, l)
    <2>1. PICK i \in 1 .. n : Highest(stk, l, i) /\ Inside(stk[i].pc)
      BY <1>9 DEF Stands, n
    <2>2. CASE l \in gm
      <3>1. Highest(t, l, n + 2) /\ Inside(t[n + 2].pc)
        BY <1>1, <1>3, <1>7, <2>2 DEF Highest
      <3> QED
        BY <1>3, <1>7, <3>1 DEF Stands
    <2>3. CASE l \in active \ gm
      <3>1. Highest(t, l, n + 1) /\ Inside(t[n + 1].pc)
        BY <1>1, <1>3, <1>6, <1>7, <2>3 DEF Highest
      <3> QED
        BY <1>3, <1>7, <3>1 DEF Stands
    <2>4. CASE l \notin active
      <3>1. l \notin f.mask /\ l \notin gm
        BY <1>2, <1>9, <2>4
      <3>2. i # n /\ i \in 1 .. n - 1
        BY <1>1, <2>1, <3>1 DEF Highest
      <3>3. \A j \in 1 .. n + 2 : j > i => l \notin t[j].mask
        <4>1. \A j \in 1 .. n - 1 : j > i => l \notin t[j].mask
          BY <1>3, <1>7, <2>1 DEF Highest, n
        <4>2. \A j \in {n, n + 1, n + 2} : l \notin t[j].mask
          BY <1>3, <2>4, <3>1
        <4> QED
          BY <1>6, <4>1, <4>2
      <3>4. Highest(t, l, i) /\ Inside(t[i].pc)
        BY <1>3, <1>7, <2>1, <3>2, <3>3 DEF Highest
      <3> QED
        BY <1>3, <1>7, <3>2, <3>4 DEF Stands
    <2> QED
      BY <2>2, <2>3, <2>4
  <1> QED
    BY <1>8, <1>9 DEF t

\* A retired instruction leaves each live lane in the memory: those of the top frame go
\* where it goes, and one that ends there without a successor has no live lane left.
LEMMA ExecStands ==
  ASSUME TypeOK, Plain, Points(stack), \A l \in Lanes \ exited : Stands(stack, l),
         NEW p \in SUBSET Active(stack, exited), Exec(p)
  PROVE  Points(stack') /\ \A l \in Lanes \ exited' : Stands(stack', l)
  <1> DEFINE f      == Top(stack)
             pc     == f.pc
             insn   == Fetch(imem, pc)
             active == Active(stack, exited)
             gm     == GuardMask(active, insn, p)
             target == BrTarget(pc, insn.off)
             live   == Lanes \ exited'
             Goal   == Points(stack') /\ \A l \in live : Stands(stack', l)
  <1>1. /\ stack # << >> /\ stack \in Seq(Frame) /\ exited \in SUBSET Lanes /\ imem \in Imem
        /\ stack' = ExecStack(stack, exited, insn, pc, gm)
        /\ exited' = ExecExited(exited, insn, gm)
        /\ active # {}
    BY DEF Exec, PickIssue, PickPop, TypeOK
  <1>2. f \in Frame /\ active = f.mask \ exited /\ active \in SUBSET Lanes
    BY <1>1, TopType DEF Active, Frame
  <1>3. Inside(pc)
    <2>1. PICK l \in active : TRUE
      BY <1>1
    <2>2. l \in Lanes \ exited /\ l \in f.mask
      BY <1>2, <2>1
    <2> QED
      BY <1>1, <2>2, OnTop
  <1>4. pc \in 0 .. ImemWords - 1 /\ pc \in Pcs /\ NextPc(pc) = pc + 1 /\ insn = imem[pc]
    BY <1>3, InsideFacts DEF Inside, Fetch
  <1>5. pc \in DOMAIN imem /\ insn \in Insn
    BY <1>1, <1>4 DEF Imem
  <1>6. /\ insn.op # "SYNC"
        /\ insn.op \in {"BRA", "SSY"} => Inside(pc + insn.off)
        /\ Ends(insn) \/ Inside(NextPc(pc))
    BY <1>4, <1>5 DEF Plain
  <1>7. target \in Pcs /\ NextPc(pc) \in Pcs /\ (insn.op \in {"BRA", "SSY"} => Inside(target))
    <2>1. insn.off \in Int
      BY <1>5 DEF Insn
    <2> QED
      BY <1>4, <1>6, <2>1, InsideFacts, PcTypes
  <1>8. gm \in SUBSET active /\ (~insn.guarded => gm = active)
    BY DEF GuardMask
  <1> HIDE DEF f, pc, insn, active, gm, target
  <1>9. live \in SUBSET Lanes /\ \A l \in live : Stands(stack, l)
    BY <1>1 DEF ExecExited
  <1>10. insn.op # "EXIT" => exited' = exited
    BY <1>1 DEF ExecExited
  <1>11. ASSUME NEW a \in Pcs, stack' = SetPc(stack, a), Inside(a) \/ live \cap f.mask = {}
         PROVE  Goal
    <2> DEFINE g == [f EXCEPT !.pc = a]
               t == [stack EXCEPT ![Len(stack)] = g]
    <2>1. g \in Frame /\ stack' = t
      BY <1>1, <1>11, SetPcIsReplace DEF f
    <2>2. g.mask = f.mask /\ g.rpc = f.rpc /\ g.pend = f.pend /\ g.pc = a
      BY <1>2 DEF Frame
    <2> HIDE DEF g, live, t
    <2>3. \A l \in live \cap g.mask : Inside(g.pc)
      BY <1>11, <2>2
    <2>4. Points(t) /\ \A l \in live : Stands(t, l)
      BY <1>1, <1>9, <2>1, <2>2, <2>3, MoveStands DEF f, t
    <2> QED
      BY <2>1, <2>4
  <1>12. CASE insn.op = "BRA"
    <2>1. stack' = BranchStack(stack, active, gm, pc, target) /\ exited' = exited
      BY <1>1, <1>10, <1>12 DEF ExecStack, active, target
    <2>2. CASE gm = {}
      <3>1. Inside(NextPc(pc))
        BY <1>1, <1>6, <1>8, <1>12, <2>2 DEF Ends
      <3> QED
        BY <1>7, <1>11, <2>1, <2>2, <3>1 DEF BranchStack
    <2>3. CASE gm # {} /\ gm = active
      BY <1>7, <1>11, <1>12, <2>1, <2>3 DEF BranchStack
    <2>4. CASE gm # {} /\ gm # active
      <3>1. Inside(NextPc(pc)) /\ Inside(target)
        BY <1>6, <1>7, <1>8, <1>12, <2>4 DEF Ends
      <3>2. stack' = Diverge(stack, active, gm, pc, target)
        BY <2>1, <2>4 DEF BranchStack
      <3>3. active = Active(stack, exited)
        BY DEF active
      <3> DEFINE t == Diverge(stack, active, gm, pc, target)
      <3>4. Points(t) /\ \A l \in Lanes \ exited : Stands(t, l)
        BY <1>1, <1>2, <1>4, <1>7, <1>8, <2>4, <3>1, <3>3, SplitStands DEF t
      <3> QED
        BY <2>1, <3>2, <3>4 DEF t
    <2> QED
      BY <2>2, <2>3, <2>4
  <1>13. CASE insn.op = "SSY"
    <2> DEFINE g == [f EXCEPT !.pend = target, !.pc = NextPc(pc)]
               t == [stack EXCEPT ![Len(stack)] = g]
    <2>1. stack' = t
      BY <1>1, <1>13 DEF ExecStack, SsyStack, target, f
    <2>2. g \in Frame /\ g.mask = f.mask /\ g.rpc = f.rpc /\ g.pend = target /\ g.pc = NextPc(pc)
      BY <1>2, <1>7 DEF Frame
    <2>3. Inside(g.pend) /\ Inside(g.pc)
      BY <1>6, <1>7, <1>13, <2>2 DEF Ends
    <2> HIDE DEF g, live, t
    <2>4. Points(t) /\ \A l \in live : Stands(t, l)
      BY <1>1, <1>9, <2>1, <2>2, <2>3, MoveStands DEF f, t
    <2> QED
      BY <2>1, <2>4 DEF live
  <1>14. CASE insn.op \notin {"BRA", "SSY"}
    <2>1. stack' = SetPc(stack, NextPc(pc))
      BY <1>1, <1>6, <1>14 DEF ExecStack
    <2>2. CASE Inside(NextPc(pc))
      BY <1>7, <1>11, <2>1, <2>2
    <2>3. CASE ~Inside(NextPc(pc))
      <3>1. insn.op = "EXIT" /\ gm = active
        BY <1>6, <1>8, <1>14, <2>3 DEF Ends
      <3>2. exited' = exited \cup active
        BY <1>1, <3>1 DEF ExecExited
      <3>3. live \cap f.mask = {}
        BY <1>2, <3>2
      <3> QED
        BY <1>7, <1>11, <2>1, <3>3
    <2> QED
      BY <2>2, <2>3
  <1> QED
    BY <1>12, <1>13, <1>14

\* In every state each live lane stands at an instruction.
LEMMA LaneInvHolds == Spec => []LaneInv
  <1>1. Init => LaneInv
    <2> SUFFICES ASSUME Init PROVE LaneInv
      OBVIOUS
    <2> PICK present \in (SUBSET Lanes) \ {{}}, entry \in 0 .. ImemWords - 1 :
          stack = << BaseFrame(present, entry) >> /\ exited = Lanes \ present
      BY DEF Init
    <2>1. /\ Len(stack) = 1 /\ stack # << >>
          /\ stack[1].mask = present /\ stack[1].pc = entry
          /\ stack[1].rpc = DONE /\ stack[1].pend = DONE
      BY DEF BaseFrame
    <2>2. 1 .. Len(stack) = {1}
      BY <2>1
    <2>3. Points(stack)
      BY <2>1, <2>2 DEF Points
    <2>4. \A l \in Lanes \ exited : Stands(stack, l)
      BY <2>1, <2>2 DEF Stands, Highest, Inside
    <2> QED
      BY <2>3, <2>4 DEF LaneInv
  <1>2. TypeOK /\ ResumePoint /\ LaneInv /\ [Next]_vars => LaneInv'
    <2> SUFFICES ASSUME TypeOK, ResumePoint, LaneInv, [Next]_vars, Plain' PROVE LaneInv'
      BY DEF LaneInv
    <2>1. imem' = imem
      BY DEF Next, Finish, Pop, Exec, vars
    <2>2. Plain
      BY <2>1 DEF Plain
    <2>3. Points(stack) /\ \A l \in Lanes \ exited : Stands(stack, l)
      BY <2>2 DEF LaneInv
    <2>4. CASE UNCHANGED << stack, exited >>
      BY <2>3, <2>4 DEF LaneInv
    <2>5. CASE Pop
      BY <2>3, <2>5, PopStands DEF LaneInv
    <2>6. ASSUME NEW p \in SUBSET Active(stack, exited), Exec(p) PROVE LaneInv'
      BY <2>2, <2>3, <2>6, ExecStands DEF LaneInv
    <2> QED
      BY <2>4, <2>5, <2>6 DEF Next, Finish, vars
  <1> QED
    BY <1>1, <1>2, TypeCorrect, ResumePointHolds, PTL DEF Spec

\* A lane that has not executed EXIT is in some frame, so a finished warp has only
\* exited lanes.
THEOREM NoLaneLostHolds == Spec => []NoLaneLost
  <1>1. LaneInv => NoLaneLost
    BY DEF LaneInv, NoLaneLost, Stands, Highest
  <1> QED
    BY <1>1, LaneInvHolds, PTL

------------------------------------------------------------------------------
(***************************************************************************)
(* The lanes of a warp behave as independent threads, for any finite set   *)
(* of lanes, any program without SYNC that stays in the instruction memory *)
(* and any branch outcomes: SimtStack implements LaneThreads.              *)
(***************************************************************************)

\* The pcs of the threads, as a function of a stack and the exited lanes.
Placed(stk, exd) == {l \in Lanes \ exd : \E i \in 1 .. Len(stk) : l \in stk[i].mask}
HeightIn(stk, l) == CHOOSE i \in 1 .. Len(stk) :
                      /\ l \in stk[i].mask
                      /\ \A j \in i + 1 .. Len(stk) : l \notin stk[j].mask
PcsOf(stk, exd)  == [l \in Placed(stk, exd) |-> stk[HeightIn(stk, l)].pc]

LEMMA PcOfIs == PcOf = PcsOf(stack, exited) /\ PcOf' = PcsOf(stack', exited')
  BY DEF PcOf, PcsOf, InFrame, Placed, Height, HeightIn

\* A lane's thread is at the pc of its highest frame.
LEMMA PcIsHighest ==
  ASSUME NEW stk \in Seq(Frame), NEW exd \in SUBSET Lanes,
         NEW l \in Lanes \ exd, NEW i \in 1 .. Len(stk), Highest(stk, l, i)
  PROVE  l \in Placed(stk, exd) /\ PcsOf(stk, exd)[l] = stk[i].pc
  <1>1. Len(stk) \in Nat
    BY LenProperties
  <1>2. l \in Placed(stk, exd)
    BY DEF Highest, Placed
  <1>3. l \in stk[i].mask /\ \A j \in i + 1 .. Len(stk) : l \notin stk[j].mask
    BY <1>1 DEF Highest
  <1>4. ASSUME NEW k \in 1 .. Len(stk), l \in stk[k].mask,
               \A j \in k + 1 .. Len(stk) : l \notin stk[j].mask
        PROVE  k = i
    <2>1. ~(i > k) /\ ~(k > i)
      BY <1>1, <1>3, <1>4
    <2> QED
      BY <2>1
  <1>5. HeightIn(stk, l) = i
    BY <1>3, <1>4 DEF HeightIn
  <1> QED
    BY <1>2, <1>5 DEF PcsOf

\* If every live lane stands somewhere, the live lanes are the threads.
LEMMA AllPlaced ==
  ASSUME NEW stk, NEW exd, \A l \in Lanes \ exd : Stands(stk, l)
  PROVE  Placed(stk, exd) = Lanes \ exd
  BY DEF Stands, Highest, Placed

\* Popping moves no thread.
LEMMA PopStutters ==
  ASSUME TypeOK, ResumePoint, Points(stack), \A l \in Lanes \ exited : Stands(stack, l), Pop
  PROVE  PcOf' = PcOf
  <1> DEFINE n == Len(stack)
             t == stack'
  <1>1. stack # << >> /\ stack \in Seq(Frame) /\ exited' = exited /\ t = PopFrame(stack)
        /\ exited \in SUBSET Lanes
    BY DEF Pop, PickPop, TypeOK
  <1>2. n \in Nat /\ n >= 1 /\ n \in 1 .. n /\ Top(stack) = stack[n]
    BY <1>1, HeightType
  <1>3. t \in Seq(Frame) /\ Len(t) = n - 1 /\ \A i \in 1 .. n - 1 : t[i] = stack[i]
    BY <1>1, PopShape
  <1>4. \A l \in Lanes \ exited : Stands(t, l)
    BY <1>1, PopStands
  <1> HIDE DEF t
  <1>5. ASSUME NEW l \in Lanes \ exited
        PROVE  PcsOf(t, exited)[l] = PcsOf(stack, exited)[l]
    <2>1. PICK i \in 1 .. n : Highest(stack, l, i)
      BY <1>5 DEF Stands
    <2>2. PcsOf(stack, exited)[l] = stack[i].pc
      BY <1>1, <2>1, PcIsHighest
    <2>3. CASE i # n
      <3>1. i \in 1 .. n - 1
        BY <1>2, <2>3
      <3>2. Highest(t, l, i) /\ t[i].pc = stack[i].pc
        BY <1>2, <1>3, <2>1, <3>1 DEF Highest
      <3> QED
        BY <1>1, <1>3, <2>2, <3>1, <3>2, PcIsHighest
    <2>4. CASE i = n
      <3>1. l \in stack[n].mask /\ l \in Active(stack, exited)
        BY <1>2, <2>1, <2>4 DEF Highest, Active
      <3>2. stack[n].pc = stack[n].rpc
        BY <1>2, <3>1 DEF Pop, PickPop
      <3>3. n # 1
        <4>1. PICK j \in 1 .. n - 1 : l \in t[j].mask
          BY <1>3, <1>4 DEF Stands, Highest
        <4> QED
          BY <1>2, <4>1
      <3>4. PICK j \in Below(n, l) : (\A k \in Below(n, l) : k <= j) /\ stack[j].pc = stack[n].rpc
        <4> HIDE DEF n
        <4>1. n \in 2 .. n
          BY <1>2, <3>3
        <4> QED
          BY <3>1, <4>1 DEF ResumePoint, n
      <3>5. j \in 1 .. n - 1 /\ l \in stack[j].mask /\ \A k \in 1 .. n - 1 : k > j => l \notin stack[k].mask
        BY <1>2, <3>4 DEF Below
      <3>6. Highest(t, l, j) /\ t[j].pc = stack[i].pc
        BY <1>3, <2>4, <3>2, <3>4, <3>5 DEF Highest
      <3> QED
        BY <1>1, <1>3, <2>2, <3>5, <3>6, PcIsHighest
    <2> QED
      BY <2>3, <2>4
  <1>6. Placed(stack, exited) = Lanes \ exited /\ Placed(t, exited) = Lanes \ exited
    BY <1>4, AllPlaced
  <1>7. PcsOf(t, exited) = PcsOf(stack, exited)
    BY <1>5, <1>6 DEF PcsOf
  <1> QED
    BY <1>1, <1>7, PcOfIs DEF t

-----------------------------------------------------------------------------
\* The threads of the top frame are at its pc.
LEMMA TopPcs ==
  ASSUME NEW stk \in Seq(Frame), stk # << >>, NEW exd \in SUBSET Lanes,
         NEW l \in Active(stk, exd)
  PROVE  PcsOf(stk, exd)[l] = Top(stk).pc
  <1>1. Len(stk) \in Nat /\ Len(stk) \in 1 .. Len(stk) /\ Top(stk) = stk[Len(stk)]
        /\ Top(stk) \in Frame
    BY HeightType
  <1>2. l \in Lanes \ exd /\ l \in stk[Len(stk)].mask
    BY <1>1 DEF Active, Frame
  <1>3. Highest(stk, l, Len(stk))
    BY <1>1, <1>2 DEF Highest
  <1> QED
    BY <1>1, <1>2, <1>3, PcIsHighest

\* The stack t is stk with its top frame replaced by f.
Replaces(stk, f, t) ==
  /\ t \in Seq(Frame) /\ Len(t) = Len(stk)
  /\ \A i \in 1 .. Len(stk) : t[i] = IF i = Len(stk) THEN f ELSE stk[i]

\* Lanes that exit do not move the others.
LEMMA ExitKeepsPcs ==
  ASSUME NEW stk \in Seq(Frame), NEW exd \in SUBSET Lanes, NEW exd2 \in SUBSET Lanes,
         NEW l \in Lanes \ exd, l \notin exd2, Stands(stk, l)
  PROVE  PcsOf(stk, exd2)[l] = PcsOf(stk, exd)[l]
  <1>1. PICK i \in 1 .. Len(stk) : Highest(stk, l, i)
    BY DEF Stands
  <1> QED
    BY <1>1, PcIsHighest

\* Where the top frame moves, its threads do.
LEMMA MovePcs ==
  ASSUME NEW stk \in Seq(Frame), stk # << >>, NEW f \in Frame, f.mask = Top(stk).mask,
         NEW t, Replaces(stk, f, t), NEW exd \in SUBSET Lanes,
         NEW l \in Lanes \ exd, Stands(stk, l)
  PROVE  /\ l \in f.mask => PcsOf(t, exd)[l] = f.pc
         /\ l \notin f.mask => PcsOf(t, exd)[l] = PcsOf(stk, exd)[l]
  <1> DEFINE n == Len(stk)
  <1>1. n \in Nat /\ n >= 1 /\ n \in 1 .. n /\ Top(stk) = stk[n]
    BY HeightType
  <1>2. t \in Seq(Frame) /\ Len(t) = n /\ \A i \in 1 .. n : t[i] = IF i = n THEN f ELSE stk[i]
    BY DEF Replaces
  <1>3. PICK i \in 1 .. n : Highest(stk, l, i)
    BY DEF Stands
  <1>4. Highest(t, l, i)
    BY <1>1, <1>2, <1>3 DEF Highest
  <1>5. PcsOf(t, exd)[l] = t[i].pc /\ PcsOf(stk, exd)[l] = stk[i].pc
    BY <1>2, <1>3, <1>4, PcIsHighest
  <1>6. l \in f.mask <=> i = n
    BY <1>1, <1>3 DEF Highest
  <1> QED
    BY <1>1, <1>2, <1>5, <1>6

\* Where it splits, each of its threads takes its own side of the branch.
LEMMA SplitPcs ==
  ASSUME NEW stk \in Seq(Frame), stk # << >>, NEW exd \in SUBSET Lanes,
         NEW active \in SUBSET Lanes, active = Active(stk, exd),
         NEW gm \in SUBSET active, gm # {}, gm # active,
         NEW pc \in Pcs, NEW target \in Pcs,
         NEW t, Branches(stk, active, gm, pc, target, t),
         NEW l \in Lanes \ exd, Stands(stk, l)
  PROVE  /\ l \in gm => PcsOf(t, exd)[l] = target
         /\ l \in active \ gm => PcsOf(t, exd)[l] = NextPc(pc)
         /\ l \notin active => PcsOf(t, exd)[l] = PcsOf(stk, exd)[l]
  <1> DEFINE n == Len(stk)
             r == ReconR(Top(stk))
  <1>1. n \in Nat /\ n >= 1 /\ n \in 1 .. n /\ Top(stk) = stk[n]
    BY HeightType
  <1>2. /\ t \in Seq(Frame) /\ Len(t) = n + 2
        /\ t[n]     = [mask |-> active, pc |-> r, rpc |-> Top(stk).rpc, pend |-> DONE]
        /\ t[n + 1] = [mask |-> active \ gm, pc |-> NextPc(pc), rpc |-> r, pend |-> DONE]
        /\ t[n + 2] = [mask |-> gm, pc |-> target, rpc |-> r, pend |-> DONE]
        /\ \A i \in 1 .. n : i # n => t[i] = stk[i]
    BY DEF Branches
  <1>3. active = stk[n].mask \ exd
    BY <1>1 DEF Active
  <1> HIDE DEF n, r
  <1>4. \A i \in 1 .. n + 2 : i \in 1 .. n - 1 \/ i = n \/ i = n + 1 \/ i = n + 2
    BY <1>1
  <1>5. /\ \A i \in 1 .. n - 1 : i \in 1 .. n /\ i # n /\ i \in 1 .. n + 2
        /\ n \in 1 .. n + 2 /\ n + 1 \in 1 .. n + 2 /\ n + 2 \in 1 .. n + 2
    BY <1>1
  <1>6. \A i \in 1 .. n + 2 : Highest(t, l, i) => PcsOf(t, exd)[l] = t[i].pc
    BY <1>2, PcIsHighest
  <1>7. CASE l \in gm
    <2>1. Highest(t, l, n + 2)
      BY <1>1, <1>2, <1>5, <1>7 DEF Highest
    <2> QED
      BY <1>2, <1>5, <1>7, <1>6, <2>1
  <1>8. CASE l \in active \ gm
    <2>1. Highest(t, l, n + 1)
      BY <1>1, <1>2, <1>4, <1>5, <1>8 DEF Highest
    <2>2. PcsOf(t, exd)[l] = t[n + 1].pc
      BY <1>5, <1>6, <2>1
    <2> QED
      BY <1>2, <1>8, <2>2
  <1>9. CASE l \notin active
    <2>1. l \notin stk[n].mask /\ l \notin gm
      BY <1>3, <1>9
    <2>2. PICK i \in 1 .. n : Highest(stk, l, i)
      BY DEF Stands, n
    <2>3. i # n /\ i \in 1 .. n - 1
      BY <1>1, <2>1, <2>2 DEF Highest
    <2>4. \A j \in 1 .. n + 2 : j > i => l \notin t[j].mask
      <3>1. \A j \in 1 .. n - 1 : j > i => l \notin t[j].mask
        BY <1>2, <1>5, <2>2 DEF Highest, n
      <3>2. \A j \in {n, n + 1, n + 2} : l \notin t[j].mask
        BY <1>2, <1>9, <2>1
      <3> QED
        BY <1>4, <3>1, <3>2
    <2>5. Highest(t, l, i) /\ t[i].pc = stk[i].pc
      BY <1>2, <1>5, <2>2, <2>3, <2>4 DEF Highest
    <2>6. PcsOf(stk, exd)[l] = stk[i].pc
      BY <2>2, PcIsHighest DEF n
    <2>7. PcsOf(t, exd)[l] = t[i].pc
      BY <1>5, <1>6, <2>3, <2>5
    <2> QED
      BY <1>9, <2>1, <2>5, <2>6, <2>7
  <1> QED
    BY <1>7, <1>8, <1>9

\* A retired instruction is a step of the threads it was executed for.
LEMMA ExecThreads ==
  ASSUME TypeOK, Plain, Points(stack), \A l \in Lanes \ exited : Stands(stack, l),
         NEW p \in SUBSET Active(stack, exited), Exec(p)
  PROVE  Threads!Next
  <1> DEFINE f      == Top(stack)
             pc     == f.pc
             insn   == Fetch(imem, pc)
             active == Active(stack, exited)
             gm     == GuardMask(active, insn, p)
             target == BrTarget(pc, insn.off)
             live   == Lanes \ exited'
             After(l) == IF insn.op = "BRA" /\ l \in gm THEN target ELSE NextPc(pc)
  <1>1. /\ stack # << >> /\ stack \in Seq(Frame) /\ exited \in SUBSET Lanes /\ imem \in Imem
        /\ stack' = ExecStack(stack, exited, insn, pc, gm)
        /\ exited' = ExecExited(exited, insn, gm) /\ imem' = imem
        /\ active # {}
    BY DEF Exec, PickIssue, PickPop, TypeOK
  <1>2. f \in Frame /\ active = f.mask \ exited /\ active \in SUBSET Lanes /\ pc \in Pcs
    BY <1>1, TopType DEF Active, Frame
  <1>3. insn \in Insn /\ insn.off \in Int /\ insn.op # "SYNC"
    <2>1. pc % ImemWords \in DOMAIN imem
      BY <1>1, <1>2, ImemAssumption DEF Imem, Pcs
    <2> QED
      BY <1>1, <1>2, <2>1, FetchType DEF Plain, Fetch, Insn
  <1>4. target \in Pcs /\ NextPc(pc) \in Pcs
    BY <1>2, <1>3, PcTypes
  <1>5. gm \in SUBSET active /\ (~insn.guarded => gm = active)
    BY DEF GuardMask
  <1>6. PcOf = PcsOf(stack, exited) /\ PcOf' = PcsOf(stack', exited')
    BY PcOfIs
  <1>7. \A l \in live : Stands(stack', l)
    BY ExecStands
  <1>8. DOMAIN PcOf = Lanes \ exited /\ DOMAIN PcOf' = live
    BY <1>6, <1>7, AllPlaced DEF PcsOf
  <1>9. live = IF insn.op = "EXIT" THEN DOMAIN PcOf \ gm ELSE DOMAIN PcOf
    BY <1>1, <1>8 DEF ExecExited
  <1>10. \A l \in active : PcOf[l] = pc
    BY <1>1, <1>6, TopPcs
  <1>11. live \subseteq Lanes \ exited /\ \A l \in live : Stands(stack, l)
    BY <1>8, <1>9
  <1> HIDE DEF f, pc, insn, active, gm, target, live
  <1>12. ASSUME NEW l \in live
         PROVE  PcOf'[l] = IF l \in active THEN After(l) ELSE PcOf[l]
    <2>1. l \in Lanes \ exited' /\ l \in Lanes \ exited /\ (l \in active <=> l \in f.mask)
          /\ exited' \in SUBSET Lanes /\ exited \subseteq exited' /\ Stands(stack, l)
      BY <1>1, <1>2, <1>5, <1>11, <1>12 DEF ExecExited, live
    <2>0. PcsOf(stack, exited')[l] = PcsOf(stack, exited)[l]
      BY <1>1, <2>1, ExitKeepsPcs
    <2>2. ASSUME NEW a \in Pcs, stack' = SetPc(stack, a)
          PROVE  PcOf'[l] = IF l \in active THEN a ELSE PcOf[l]
      <3> DEFINE g == [f EXCEPT !.pc = a]
      <3>1. g \in Frame /\ stack' = [stack EXCEPT ![Len(stack)] = g]
        BY <1>1, <2>2, SetPcIsReplace DEF f
      <3>2. g.mask = f.mask /\ g.pc = a
        BY <1>2 DEF Frame
      <3> HIDE DEF g
      <3>3. /\ g \in Frame /\ g.mask = Top(stack).mask
            /\ stack \in Seq(Frame) /\ stack # << >> /\ exited \in SUBSET Lanes
        BY <1>1, <3>1, <3>2 DEF f
      <3>4. Replaces(stack, g, stack')
        BY <3>1, <3>2, <3>3, ReplaceTop DEF Replaces
      <3>5. /\ l \in g.mask => PcsOf(stack', exited')[l] = g.pc
            /\ l \notin g.mask => PcsOf(stack', exited')[l] = PcsOf(stack, exited')[l]
        BY <2>1, <3>3, <3>4, MovePcs
      <3> QED
        BY <1>6, <2>0, <2>1, <3>2, <3>5
    <2>3. CASE insn.op = "BRA"
      <3>1. stack' = BranchStack(stack, active, gm, pc, target) /\ exited' = exited
        BY <1>1, <2>3 DEF ExecStack, ExecExited, active, target
      <3>2. CASE gm = {} \/ gm = active
        <4>1. CASE gm = {}
          BY <1>4, <2>2, <2>3, <3>1, <4>1 DEF BranchStack
        <4>2. CASE gm # {} /\ gm = active
          BY <1>4, <2>2, <2>3, <3>1, <4>2 DEF BranchStack
        <4> QED
          BY <3>2, <4>1, <4>2
      <3>3. CASE gm # {} /\ gm # active
        <4>1. stack' = Diverge(stack, active, gm, pc, target)
          BY <3>1, <3>3 DEF BranchStack
        <4>2. /\ active = Active(stack, exited) /\ active \in SUBSET Lanes
              /\ gm \in SUBSET active /\ pc \in Pcs /\ target \in Pcs
              /\ stack \in Seq(Frame) /\ stack # << >> /\ exited \in SUBSET Lanes
          BY <1>1, <1>2, <1>4, <1>5 DEF active
        <4>3. Branches(stack, active, gm, pc, target, stack')
          BY <3>3, <4>1, <4>2, DivergeFrames
        <4>4. /\ l \in gm => PcsOf(stack', exited)[l] = target
              /\ l \in active \ gm => PcsOf(stack', exited)[l] = NextPc(pc)
              /\ l \notin active => PcsOf(stack', exited)[l] = PcsOf(stack, exited)[l]
          BY <2>1, <3>3, <4>2, <4>3, SplitPcs
        <4> QED
          BY <1>5, <1>6, <2>3, <3>1, <4>4
      <3> QED
        BY <3>2, <3>3
    <2>4. CASE insn.op = "SSY"
      <3> DEFINE g == [f EXCEPT !.pend = target, !.pc = NextPc(pc)]
      <3>1. stack' = [stack EXCEPT ![Len(stack)] = g]
        BY <1>1, <2>4 DEF ExecStack, SsyStack, target, f
      <3>2. g \in Frame /\ g.mask = f.mask /\ g.pc = NextPc(pc)
        BY <1>2, <1>4 DEF Frame
      <3> HIDE DEF g
      <3>3. /\ g \in Frame /\ g.mask = Top(stack).mask
            /\ stack \in Seq(Frame) /\ stack # << >> /\ exited \in SUBSET Lanes
        BY <1>1, <3>1, <3>2 DEF f
      <3>4. Replaces(stack, g, stack')
        BY <3>1, <3>2, <3>3, ReplaceTop DEF Replaces
      <3>5. /\ l \in g.mask => PcsOf(stack', exited')[l] = g.pc
            /\ l \notin g.mask => PcsOf(stack', exited')[l] = PcsOf(stack, exited')[l]
        BY <2>1, <3>3, <3>4, MovePcs
      <3> QED
        BY <1>6, <2>0, <2>1, <2>4, <3>2, <3>5
    <2>5. CASE insn.op \notin {"BRA", "SSY"}
      <3>1. stack' = SetPc(stack, NextPc(pc))
        BY <1>1, <1>3, <2>5 DEF ExecStack
      <3> QED
        BY <1>4, <2>2, <2>5, <3>1
    <2> QED
      BY <2>3, <2>4, <2>5
  <1>13. PcOf' = [l \in live |-> IF l \in active THEN After(l) ELSE PcOf[l]]
    <2>1. PcOf' = [l \in live |-> PcOf'[l]]
      BY <1>6, <1>8 DEF PcsOf
    <2> HIDE DEF After
    <2> QED
      BY <1>12, <2>1
  <1>14. active \in SUBSET DOMAIN PcOf
    BY <1>2, <1>8
  <1>15. /\ Threads!Fetch(imem, pc) = insn
         /\ Threads!BrTarget(pc, insn.off) = target
         /\ Threads!NextPc(pc) = NextPc(pc) /\ Threads!Pcs = Pcs
    BY DEF Threads!Fetch, Fetch, Threads!BrTarget, BrTarget, Threads!NextPc, NextPc,
           Threads!Pcs, Pcs, Threads!PcSpace, PcSpace, insn, target
  <1>16. Threads!Step(active, pc, gm)
    BY <1>1, <1>5, <1>9, <1>10, <1>13, <1>15 DEF Threads!Step
  <1> QED
    BY <1>1, <1>2, <1>5, <1>14, <1>15, <1>16 DEF Threads!Next

\* What the warp's other invariants say, as the lemmas above need it.
Facts == TypeOK /\ ResumePoint /\ LaneInv

LEMMA FactsHold == Spec => []Facts
  BY LaneInvHolds, TypeCorrect, ResumePointHolds, PTL DEF Facts

\* The lanes of a warp behave as independent threads: each step of the stack is a step of
\* some lanes that stand at the same instruction, or of none.
THEOREM ThreadsImplemented == Spec => ThreadsSpec
  <1>1. Init => Threads!Init
    <2> SUFFICES ASSUME Init PROVE Threads!Init
      OBVIOUS
    <2>0. PICK prog \in Programs, present \in (SUBSET Lanes) \ {{}}, entry \in 0 .. ImemWords - 1 :
          /\ imem = prog /\ stack = << BaseFrame(present, entry) >> /\ exited = Lanes \ present
      BY DEF Init
    <2>1. /\ Len(stack) = 1 /\ stack[1].mask = present /\ stack[1].pc = entry
          /\ stack \in Seq(Frame) /\ exited \in SUBSET Lanes
      <3>1. entry \in Pcs
        BY ImemAssumption DEF Pcs, PcSpace
      <3>2. BaseFrame(present, entry) \in Frame
        BY <3>1, PcSpaceType DEF BaseFrame, Frame
      <3> QED
        BY <2>0, <3>2 DEF BaseFrame
    <2>2. Lanes \ exited = present
      BY <2>0
    <2>3. \A l \in present : Highest(stack, l, 1) /\ 1 \in 1 .. Len(stack)
      BY <2>1 DEF Highest
    <2>4. Placed(stack, exited) = present
      BY <2>1, <2>2, <2>3 DEF Placed
    <2>5. ASSUME NEW l \in present PROVE PcsOf(stack, exited)[l] = entry
      <3>1. l \in Lanes \ exited /\ stack \in Seq(Frame) /\ exited \in SUBSET Lanes
        BY <2>1, <2>2, <2>5
      <3>2. PICK i \in 1 .. Len(stack) : Highest(stack, l, i)
        BY <2>3, <2>5
      <3>3. PcsOf(stack, exited)[l] = stack[i].pc
        BY <3>1, <3>2, PcIsHighest
      <3> QED
        BY <2>1, <3>3
    <2>6. PcsOf(stack, exited) = [l \in present |-> entry]
      BY <2>4, <2>5 DEF PcsOf
    <2>7. imem \in Threads!Imem
      BY <2>0, ProgramsAssumption DEF Threads!Imem, Imem, Threads!Insn, Insn, Threads!Opcodes, Opcodes,
         Threads!MemOps, MemOps, Threads!SharedOps, SharedOps, Threads!GlobalOps, GlobalOps
    <2>8. PcOf = [l \in present |-> entry]
      BY <2>6, PcOfIs
    <2> QED
      BY <2>7, <2>8 DEF Threads!Init
  <1>2. Facts /\ [Next]_vars => [Plain => Threads!Next]_<< imem, PcOf >>
    <2> SUFFICES ASSUME Facts, [Next]_vars, Plain
                 PROVE  Threads!Next \/ UNCHANGED << imem, PcOf >>
      OBVIOUS
    <2>1. TypeOK /\ ResumePoint /\ Points(stack) /\ \A l \in Lanes \ exited : Stands(stack, l)
      BY DEF Facts, LaneInv
    <2>2. CASE UNCHANGED << imem, stack, exited >>
      BY <2>2, PcOfIs
    <2>3. CASE Pop
      BY <2>1, <2>3, PopStutters DEF Pop
    <2>4. ASSUME NEW p \in SUBSET Active(stack, exited), Exec(p)
          PROVE  Threads!Next
      BY <2>1, <2>4, ExecThreads
    <2> QED
      BY <2>2, <2>3, <2>4 DEF Next, Finish, vars
  <1> QED
    BY <1>1, <1>2, FactsHold, PTL DEF Spec, ThreadsSpec

-----------------------------------------------------------------------------
\* The golden simulator in lockstep. The two are compared on programs that stay inside
\* their code, and that the golden model's CALL is not part of: every target and every
\* instruction that is followed on is an instruction.
Code == 0 .. CodeSize - 1
Contained ==
  \A a \in Code :
    /\ imem[a].op # "CALL"
    /\ imem[a].op \in {"BRA", "SSY"} => a + imem[a].off \in Code
    /\ Ends(imem[a]) \/ imem[a].op = "SYNC" \/ a + 1 \in Code

\* A frame waits for nothing more.
Over(f) == f.pc = DONE /\ f.rpc = DONE

\* Frames stand at instructions or are over, unless their last lane has just exited.
FramesIn(stk, exd) ==
  \A i \in 1 .. Len(stk) :
    /\ stk[i].rpc \in Code \cup {DONE} /\ stk[i].pend \in Code \cup {DONE}
    /\ \/ stk[i].pc \in Code
       \/ Over(stk[i])
       \/ i = Len(stk) /\ Active(stk, exd) = {}

\* Under a frame that returns nowhere, its lanes have nothing left to do.
Chained(stk) ==
  \A j \in 1 .. Len(stk) : \A i \in 1 .. j - 1 :
    stk[i].mask \cap stk[j].mask # {} /\ stk[j].rpc = DONE => Over(stk[i])

\* The lanes that only the simulator has ended are in frames that are over.
LostIn(stk, lost) == \A i \in 1 .. Len(stk) : stk[i].mask \cap lost # {} => Over(stk[i])

Matches(stk, t) == Len(t) = Len(stk) /\ \A i \in 1 .. Len(stk) : SameFrame(stk[i], t[i])

IssFrame == [mask : SUBSET Lanes, pc : Nat, rpc : Nat, pend : Nat]

LockInv ==
  /\ st \in Seq(IssFrame) /\ iexited \in SUBSET Lanes
  /\ exited \subseteq iexited /\ ifinished = finished
  /\ Matches(stack, st)
  /\ FramesIn(stack, exited) /\ Chained(stack) /\ LostIn(stack, iexited \ exited)

-----------------------------------------------------------------------------
\* Addresses in the code are the same number for both, and DONE is none of them.
LEMMA CodePcs ==
  /\ IssPcSpace \in Nat /\ IssDone \in Nat /\ IssDone > DONE /\ CodeSize \in Nat /\ CodeSize < IssDone
  /\ DONE \in Pcs /\ \A pc \in Pcs : pc <= DONE
  /\ \A pc \in Code : /\ pc \in Pcs /\ pc < CodeSize /\ pc # DONE /\ Widen(pc) = pc
                      /\ pc + 1 \in 1 .. CodeSize /\ pc \in 0 .. ImemWords - 1
  <1>1. /\ ImemWords \in Nat /\ ImemWords >= 1 /\ CodeSize \in Nat /\ CodeSize >= 1 /\ CodeSize <= ImemWords
        /\ PcSpace = 2 * ImemWords /\ DONE = PcSpace - 1 /\ Pcs = 0 .. PcSpace - 1
        /\ IssPcSpace \in Nat /\ IssPcSpace > 2 * PcSpace /\ IssDone = IssPcSpace - 1
    BY ImemAssumption, CodeSizeAssumption, IssPcAssumption DEF PcSpace, DONE, Pcs, IssDone
  <1>2. \A pc \in Code : pc \in 0 .. ImemWords - 1 /\ pc < CodeSize /\ pc + 1 \in 1 .. CodeSize /\ pc # DONE
    BY <1>1 DEF Code
  <1>3. \A pc \in Code : Widen(pc) = pc
    BY <1>2 DEF Widen
  <1> QED
    BY <1>1, <1>2, <1>3

\* A remainder of a number below the modulus is the number.
LEMMA Small == \A m \in Nat \ {0} : \A a \in 0 .. m - 1 : a % m = a
  OBVIOUS

LEMMA SameAddress ==
  ASSUME NEW pc \in Code
  PROVE  /\ \A f : Fetch(f, pc) = f[pc]
         /\ \A off \in Int : pc + off \in Code =>
              BrTarget(pc, off) = pc + off /\ IssWrap(pc + off) = pc + off
         /\ NextPc(pc) = pc + 1 /\ IssWrap(pc + 1) = pc + 1
         /\ pc + 1 < PcSpace
  <1>1. /\ ImemWords \in Nat \ {0} /\ PcSpace \in Nat \ {0} /\ IssPcSpace \in Nat \ {0}
        /\ CodeSize < PcSpace /\ CodeSize < IssPcSpace /\ CodeSize \in Nat
    BY ImemAssumption, CodeSizeAssumption, IssPcAssumption DEF PcSpace
  <1>2. pc \in 0 .. ImemWords - 1 /\ pc + 1 \in 1 .. CodeSize
    BY CodePcs
  <1>3. pc % ImemWords = pc
    BY <1>1, <1>2, Small
  <1>4. (pc + 1) % PcSpace = pc + 1 /\ (pc + 1) % IssPcSpace = pc + 1
    <2>1. pc + 1 \in 0 .. PcSpace - 1 /\ pc + 1 \in 0 .. IssPcSpace - 1
      BY <1>1, <1>2
    <2> QED
      BY <1>1, <2>1, Small
  <1>5. \A a \in Code : a % PcSpace = a /\ a % IssPcSpace = a
    <2>1. \A a \in Code : a \in 0 .. PcSpace - 1 /\ a \in 0 .. IssPcSpace - 1
      BY <1>1 DEF Code
    <2> QED
      BY <1>1, <2>1, Small
  <1>6. pc + 1 < PcSpace /\ pc + 1 # PcSpace
    BY <1>1, <1>2
  <1>7. \A f : Fetch(f, pc) = f[pc]
    BY <1>3 DEF Fetch
  <1>8. \A off \in Int : pc + off \in Code =>
          BrTarget(pc, off) = pc + off /\ IssWrap(pc + off) = pc + off
    BY <1>5, Zenon DEF BrTarget, IssWrap
  <1>9. NextPc(pc) = pc + 1 /\ IssWrap(pc + 1) = pc + 1
    BY <1>4, Zenon DEF NextPc, IssWrap
  <1> QED
    BY <1>6, <1>7, <1>8, <1>9

\* Following on leads both to the same place: to the next instruction, or to the end of
\* the code, which is DONE if the memory is as small as that.
LEMMA SameNext ==
  ASSUME NEW pc \in Code
  PROVE  LET t == NextPc(pc)
             u == IssWrap(pc + 1)
         IN  /\ t \in Pcs /\ u \in Nat
             /\ u = Widen(t) \/ (t = DONE /\ u = CodeSize)
  <1>1. NextPc(pc) = pc + 1 /\ IssWrap(pc + 1) = pc + 1 /\ pc + 1 < PcSpace
    BY SameAddress
  <1>2. pc + 1 \in 1 .. CodeSize /\ CodeSize \in Nat /\ CodeSize <= ImemWords /\ ImemWords \in Nat
    BY CodePcs, CodeSizeAssumption, ImemAssumption
  <1>3. pc + 1 \in Pcs /\ pc + 1 \in Nat
    BY <1>1, <1>2, PcSpaceType DEF Pcs
  <1>4. pc + 1 = DONE => pc + 1 = CodeSize
    BY <1>2 DEF DONE, PcSpace
  <1>5. pc + 1 # DONE => Widen(pc + 1) = pc + 1
    BY DEF Widen
  <1> QED
    BY <1>1, <1>3, <1>4, <1>5

-----------------------------------------------------------------------------
\* The top of the simulator's stack, and what popping and replacing it leave.
LEMMA IssTop ==
  ASSUME NEW t \in Seq(IssFrame), t # << >>
  PROVE  /\ Len(t) \in Nat /\ Len(t) >= 1 /\ Len(t) \in 1 .. Len(t)
         /\ Top(t) = t[Len(t)] /\ Top(t) \in IssFrame
  <1>1. Len(t) \in Nat /\ Len(t) >= 1
    BY EmptySeq
  <1> QED
    BY <1>1, ElementOfSeq DEF Top

LEMMA IssPopShape ==
  ASSUME NEW t \in Seq(IssFrame), t # << >>
  PROVE  /\ PopFrame(t) \in Seq(IssFrame)
         /\ Len(PopFrame(t)) = Len(t) - 1
         /\ \A i \in 1 .. Len(t) - 1 : PopFrame(t)[i] = t[i]
  <1>1. Len(t) \in Nat /\ Len(t) >= 1
    BY IssTop
  <1>2. \A i \in 1 .. Len(t) - 1 : t[i] \in IssFrame
    BY <1>1, ElementOfSeq
  <1> DEFINE u == SubSeq(t, 1, Len(t) - 1)
  <1>3. /\ u \in Seq(IssFrame)
        /\ Len(u) = IF 1 <= Len(t) - 1 THEN Len(t) - 1 - 1 + 1 ELSE 0
        /\ \A i \in 1 .. Len(t) - 1 - 1 + 1 : u[i] = t[1 + i - 1]
    <2>1. 1 \in Int /\ Len(t) - 1 \in Int
      BY <1>1
    <2> QED
      BY <1>2, <2>1, SubSeqProperties
  <1>4. PopFrame(t) = u
    BY DEF PopFrame
  <1> HIDE DEF u
  <1> QED
    BY <1>1, <1>3, <1>4

\* Popping on both sides leaves the same frames.
LEMMA PopMatches ==
  ASSUME NEW stk \in Seq(Frame), stk # << >>, NEW t \in Seq(IssFrame), Matches(stk, t)
  PROVE  Matches(PopFrame(stk), PopFrame(t)) /\ PopFrame(t) \in Seq(IssFrame)
  <1>1. Len(t) = Len(stk) /\ t # << >>
    BY HeightType, EmptySeq DEF Matches
  <1>2. /\ Len(PopFrame(stk)) = Len(stk) - 1 /\ Len(stk) \in Nat
        /\ \A i \in 1 .. Len(stk) - 1 : PopFrame(stk)[i] = stk[i]
    BY PopShape, HeightType
  <1>3. /\ PopFrame(t) \in Seq(IssFrame) /\ Len(PopFrame(t)) = Len(stk) - 1
        /\ \A i \in 1 .. Len(stk) - 1 : PopFrame(t)[i] = t[i]
    BY <1>1, IssPopShape
  <1>4. \A i \in 1 .. Len(stk) : SameFrame(stk[i], t[i])
    BY DEF Matches
  <1>5. \A i \in 1 .. Len(stk) - 1 : SameFrame(PopFrame(stk)[i], PopFrame(t)[i])
    BY <1>2, <1>3, <1>4
  <1> QED
    BY <1>2, <1>3, <1>5 DEF Matches

\* Replacing the top frame on both sides by frames that match.
LEMMA ReplaceMatches ==
  ASSUME NEW stk \in Seq(Frame), stk # << >>, NEW t \in Seq(IssFrame), Matches(stk, t),
         NEW f \in Frame, NEW g \in IssFrame, SameFrame(f, g)
  PROVE  /\ Matches([stk EXCEPT ![Len(stk)] = f], [t EXCEPT ![Len(t)] = g])
         /\ [t EXCEPT ![Len(t)] = g] \in Seq(IssFrame)
  <1>1. Len(t) = Len(stk) /\ t # << >> /\ Len(t) \in 1 .. Len(t)
    BY HeightType, EmptySeq DEF Matches
  <1> DEFINE u == [t EXCEPT ![Len(t)] = g]
             s == [stk EXCEPT ![Len(stk)] = f]
  <1>2. u \in Seq(IssFrame) /\ Len(u) = Len(t) /\ \A i \in 1 .. Len(t) : u[i] = IF i = Len(t) THEN g ELSE t[i]
    BY <1>1, ExceptSeq
  <1>3. Len(s) = Len(stk) /\ \A i \in 1 .. Len(stk) : s[i] = IF i = Len(stk) THEN f ELSE stk[i]
    BY ReplaceTop
  <1> HIDE DEF u, s
  <1>4. \A i \in 1 .. Len(stk) : SameFrame(s[i], u[i])
    BY <1>1, <1>2, <1>3 DEF Matches
  <1>5. Matches(s, u)
    BY <1>1, <1>2, <1>3, <1>4 DEF Matches
  <1> QED
    BY <1>2, <1>5 DEF u, s

\* Going on to addresses that are the same.
LEMMA GotoMatches ==
  ASSUME NEW stk \in Seq(Frame), stk # << >>, NEW t \in Seq(IssFrame), Matches(stk, t),
         NEW a \in Pcs, NEW b \in Nat, b = Widen(a) \/ (a = DONE /\ b = CodeSize)
  PROVE  Matches(SetPc(stk, a), SetPc(t, b)) /\ SetPc(t, b) \in Seq(IssFrame)
  <1>1. Len(t) = Len(stk) /\ t # << >> /\ Len(stk) \in 1 .. Len(stk)
    BY HeightType, EmptySeq DEF Matches
  <1>2. Top(stk) \in Frame /\ Top(t) \in IssFrame /\ SameFrame(Top(stk), Top(t)) /\ Top(t) = t[Len(t)]
    BY <1>1, HeightType, IssTop DEF Matches
  <1> DEFINE f == [Top(stk) EXCEPT !.pc = a]
             g == [Top(t) EXCEPT !.pc = b]
  <1>3. f \in Frame /\ SetPc(stk, a) = [stk EXCEPT ![Len(stk)] = f]
    BY SetPcIsReplace
  <1>4. g \in IssFrame /\ SetPc(t, b) = [t EXCEPT ![Len(t)] = g]
    BY <1>1, <1>2 DEF SetPc, IssFrame
  <1>5. SameFrame(f, g)
    BY <1>2 DEF SameFrame, Frame, IssFrame
  <1> HIDE DEF f, g
  <1>6. /\ Matches([stk EXCEPT ![Len(stk)] = f], [t EXCEPT ![Len(t)] = g])
        /\ [t EXCEPT ![Len(t)] = g] \in Seq(IssFrame)
    BY <1>3, <1>4, <1>5, ReplaceMatches
  <1> QED
    BY <1>3, <1>4, <1>6, Zenon

\* SSY notes the same target.
LEMMA SsyMatches ==
  ASSUME NEW stk \in Seq(Frame), stk # << >>, NEW t \in Seq(IssFrame), Matches(stk, t),
         NEW pc \in Code, NEW target \in Code
  PROVE  LET u == [t EXCEPT ![Len(t)].pend = target, ![Len(t)].pc = IssWrap(pc + 1)]
         IN  Matches(SsyStack(stk, pc, target), u) /\ u \in Seq(IssFrame)
  <1>1. Len(t) = Len(stk) /\ t # << >> /\ Len(stk) \in 1 .. Len(stk)
    BY HeightType, EmptySeq DEF Matches
  <1>2. Top(stk) \in Frame /\ Top(t) \in IssFrame /\ SameFrame(Top(stk), Top(t)) /\ Top(t) = t[Len(t)]
    BY <1>1, HeightType, IssTop DEF Matches
  <1> DEFINE f == [Top(stk) EXCEPT !.pend = target, !.pc = NextPc(pc)]
             g == [Top(t) EXCEPT !.pend = target, !.pc = IssWrap(pc + 1)]
             u == [t EXCEPT ![Len(t)].pend = target, ![Len(t)].pc = IssWrap(pc + 1)]
  <1>3. target \in Pcs /\ target \in Nat /\ Widen(target) = target
    BY CodePcs DEF Pcs
  <1>4. NextPc(pc) \in Pcs /\ IssWrap(pc + 1) \in Nat
    BY SameNext
  <1>5. f \in Frame /\ SsyStack(stk, pc, target) = [stk EXCEPT ![Len(stk)] = f]
    BY <1>2, <1>3, <1>4 DEF SsyStack, Frame
  <1>6. g \in IssFrame
    BY <1>2, <1>3, <1>4 DEF IssFrame
  <1>7. u = [t EXCEPT ![Len(t)] = g]
    BY <1>1, <1>2
  <1>8. SameFrame(f, g)
    BY <1>2, <1>3, SameNext DEF SameFrame, Frame, IssFrame
  <1> HIDE DEF f, g, u
  <1>9. /\ Matches([stk EXCEPT ![Len(stk)] = f], [t EXCEPT ![Len(t)] = g])
        /\ [t EXCEPT ![Len(t)] = g] \in Seq(IssFrame)
    BY <1>5, <1>6, <1>8, ReplaceMatches
  <1>10. Matches(SsyStack(stk, pc, target), u) /\ u \in Seq(IssFrame)
    BY <1>5, <1>7, <1>9, Zenon
  <1> QED
    BY <1>10, Zenon DEF u

\* The simulator's divergence: u is t with the join frame and the two paths.
IssForks(t, active, gm, pc, target, u) ==
  \E r, join, fall, take :
    /\ r = IF Top(t).pend # IssDone THEN Top(t).pend ELSE Top(t).rpc
    /\ join = [mask |-> active, pc |-> r, rpc |-> Top(t).rpc, pend |-> IssDone]
    /\ fall = [mask |-> active \ gm, pc |-> IssWrap(pc + 1), rpc |-> r, pend |-> IssDone]
    /\ take = [mask |-> gm, pc |-> target, rpc |-> r, pend |-> IssDone]
    /\ u = Append(Append([t EXCEPT ![Len(t)] = join], fall), take)

\* A divergence leaves the same three frames.
LEMMA ForkMatches ==
  ASSUME NEW stk \in Seq(Frame), stk # << >>, NEW t \in Seq(IssFrame), Matches(stk, t),
         NEW active \in SUBSET Lanes, NEW gm \in SUBSET active, gm # {}, gm # active,
         NEW pc \in Code, NEW target \in Code, Top(t).pc = pc,
         NEW u, IssForks(t, active, gm, pc, target, u)
  PROVE  Matches(Diverge(stk, active, gm, pc, target), u) /\ u \in Seq(IssFrame)
  <1>0. PICK r, join, fall, take :
          /\ r = IF Top(t).pend # IssDone THEN Top(t).pend ELSE Top(t).rpc
          /\ join = [mask |-> active, pc |-> r, rpc |-> Top(t).rpc, pend |-> IssDone]
          /\ fall = [mask |-> active \ gm, pc |-> IssWrap(pc + 1), rpc |-> r, pend |-> IssDone]
          /\ take = [mask |-> gm, pc |-> target, rpc |-> r, pend |-> IssDone]
          /\ u = Append(Append([t EXCEPT ![Len(t)] = join], fall), take)
    BY DEF IssForks
  <1> DEFINE n == Len(stk)
             s == Diverge(stk, active, gm, pc, target)
             q == ReconR(Top(stk))
  <1>1. Len(t) = n /\ t # << >> /\ n \in 1 .. n /\ n \in Nat
    BY HeightType, EmptySeq DEF Matches
  <1>2. Top(stk) \in Frame /\ Top(t) \in IssFrame /\ SameFrame(Top(stk), Top(t))
    BY <1>1, HeightType, IssTop DEF Matches
  <1>3. r = Widen(q) /\ q \in Pcs /\ r \in Nat
    <2>1. Top(t).pend = Widen(Top(stk).pend) /\ Top(t).rpc = Widen(Top(stk).rpc)
      BY <1>2 DEF SameFrame
    <2>2. /\ Top(stk).pend \in Pcs /\ Top(stk).rpc \in Pcs /\ q \in Pcs
          /\ Top(t).pend \in Nat /\ Top(t).rpc \in Nat /\ r \in Nat
      BY <1>0, <1>2, ReconType DEF Frame, IssFrame
    <2>3. \A x \in Pcs : (Widen(x) = IssDone) <=> (x = DONE)
      <3>1. \A x \in Pcs : x \in Nat /\ x <= DONE /\ x # IssDone
        BY CodePcs DEF Pcs
      <3> QED
        BY <3>1 DEF Widen
    <2> QED
      BY <1>0, <2>1, <2>2, <2>3, Zenon DEF ReconR
  <1>4. /\ target \in Pcs /\ target \in Nat /\ Widen(target) = target /\ pc \in Pcs /\ IssDone \in Nat
        /\ NextPc(pc) \in Pcs /\ IssWrap(pc + 1) \in Nat /\ Widen(DONE) = IssDone
    BY CodePcs, SameNext DEF Widen, Pcs
  <1>5. Branches(stk, active, gm, pc, target, s)
    BY <1>4, DivergeFrames
  <1> HIDE DEF s
  <1>6. /\ Len(s) = n + 2
        /\ s[n]     = [mask |-> active, pc |-> q, rpc |-> Top(stk).rpc, pend |-> DONE]
        /\ s[n + 1] = [mask |-> active \ gm, pc |-> NextPc(pc), rpc |-> q, pend |-> DONE]
        /\ s[n + 2] = [mask |-> gm, pc |-> target, rpc |-> q, pend |-> DONE]
        /\ \A i \in 1 .. n : i # n => s[i] = stk[i]
    BY <1>5 DEF Branches
  <1> HIDE DEF q
  <1>7. join \in IssFrame /\ fall \in IssFrame /\ take \in IssFrame
    BY <1>0, <1>2, <1>3, <1>4 DEF IssFrame
  <1>8. SameFrame(s[n], join) /\ SameFrame(s[n + 1], fall) /\ SameFrame(s[n + 2], take)
    <2>1. SameFrame(s[n], join)
      BY <1>0, <1>2, <1>3, <1>4, <1>6 DEF SameFrame
    <2>2. SameFrame(s[n + 1], fall)
      <3>1. IssWrap(pc + 1) = Widen(NextPc(pc)) \/ (NextPc(pc) = DONE /\ IssWrap(pc + 1) = CodeSize)
        BY SameNext
      <3>2. /\ s[n + 1].mask = active \ gm /\ s[n + 1].pc = NextPc(pc) /\ s[n + 1].rpc = q
            /\ s[n + 1].pend = DONE
        BY <1>6
      <3>3. fall.mask = active \ gm /\ fall.pc = IssWrap(pc + 1) /\ fall.rpc = r /\ fall.pend = IssDone
        BY <1>0
      <3> QED
        BY <1>3, <1>4, <3>1, <3>2, <3>3 DEF SameFrame
    <2>3. SameFrame(s[n + 2], take)
      BY <1>0, <1>3, <1>4, <1>6 DEF SameFrame
    <2> QED
      BY <2>1, <2>2, <2>3
  <1> DEFINE t1 == [t EXCEPT ![Len(t)] = join]
             t2 == Append(t1, fall)
  <1>9. t1 \in Seq(IssFrame) /\ Len(t1) = n /\ \A i \in 1 .. n : t1[i] = IF i = n THEN join ELSE t[i]
    BY <1>1, <1>7, ExceptSeq
  <1>10. u = Append(t2, take)
    BY <1>0
  <1> HIDE DEF t1
  <1>11. /\ t2 \in Seq(IssFrame) /\ Len(t2) = n + 1 /\ t2[n + 1] = fall
         /\ \A i \in 1 .. n : t2[i] = t1[i]
    BY <1>7, <1>9, AppendProperties
  <1> HIDE DEF t2
  <1>12. /\ u \in Seq(IssFrame) /\ Len(u) = n + 2 /\ u[n + 2] = take
         /\ \A i \in 1 .. n + 1 : u[i] = t2[i]
    <2>1. \A i \in 1 .. Len(t2) : Append(t2, take)[i] = t2[i]
      BY <1>7, <1>11, AppendProperties
    <2>2. Append(t2, take)[Len(t2) + 1] = take /\ Len(t2) + 1 = n + 2
      BY <1>1, <1>7, <1>11, AppendProperties
    <2>3. Append(t2, take) \in Seq(IssFrame) /\ Len(Append(t2, take)) = Len(t2) + 1
      BY <1>7, <1>11, AppendProperties
    <2> QED
      BY <1>10, <1>11, <2>1, <2>2, <2>3
  <1>13. /\ u[n] = join /\ u[n + 1] = fall /\ \A i \in 1 .. n : i # n => u[i] = t[i]
    BY <1>1, <1>9, <1>11, <1>12
  <1>14. \A i \in 1 .. n + 2 : SameFrame(s[i], u[i])
    <2>1. \A i \in 1 .. n : i # n => SameFrame(s[i], u[i])
      BY <1>6, <1>13 DEF Matches
    <2>2. \A i \in 1 .. n + 2 : i = n \/ i = n + 1 \/ i = n + 2 \/ (i \in 1 .. n /\ i # n)
      BY <1>1
    <2> QED
      BY <1>8, <1>12, <1>13, <2>1, <2>2
  <1> QED
    BY <1>6, <1>12, <1>14 DEF Matches, s

-----------------------------------------------------------------------------
\* What a warp's stack keeps: by a pop, ...
LEMMA PopKeeps ==
  ASSUME NEW stk \in Seq(Frame), stk # << >>, NEW exd, NEW lost, NEW more,
         FramesIn(stk, exd), Chained(stk), LostIn(stk, lost),
         more # {} => more \subseteq Top(stk).mask /\ Top(stk).rpc = DONE
  PROVE  /\ FramesIn(PopFrame(stk), exd) /\ Chained(PopFrame(stk))
         /\ LostIn(PopFrame(stk), lost \cup more)
  <1> DEFINE t == PopFrame(stk)
             n == Len(stk)
  <1>1. /\ Len(t) = n - 1 /\ n \in Nat /\ n >= 1 /\ n \in 1 .. n /\ Top(stk) = stk[n]
        /\ \A i \in 1 .. n - 1 : t[i] = stk[i]
    BY PopShape, HeightType
  <1> HIDE DEF t
  <1>2. FramesIn(t, exd)
    <2>1. \A i \in 1 .. n - 1 : /\ stk[i].rpc \in Code \cup {DONE} /\ stk[i].pend \in Code \cup {DONE}
                                /\ stk[i].pc \in Code \/ Over(stk[i])
      BY <1>1 DEF FramesIn
    <2> QED
      BY <1>1, <2>1 DEF FramesIn
  <1>3. Chained(t)
    <2>1. \A j \in 1 .. n - 1 : \A i \in 1 .. j - 1 :
            stk[i].mask \cap stk[j].mask # {} /\ stk[j].rpc = DONE => Over(stk[i])
      BY <1>1 DEF Chained
    <2>2. \A j \in 1 .. n - 1 : \A i \in 1 .. j - 1 : i \in 1 .. n - 1
      BY <1>1
    <2> QED
      BY <1>1, <2>1, <2>2 DEF Chained
  <1>4. LostIn(t, lost \cup more)
    <2> SUFFICES ASSUME NEW i \in 1 .. n - 1, stk[i].mask \cap (lost \cup more) # {}
                 PROVE  Over(stk[i])
      BY <1>1 DEF LostIn
    <2>1. CASE stk[i].mask \cap lost # {}
      BY <1>1, <2>1 DEF LostIn
    <2>2. CASE stk[i].mask \cap more # {}
      <3>1. stk[i].mask \cap stk[n].mask # {} /\ stk[n].rpc = DONE
        BY <1>1, <2>2
      <3> QED
        BY <1>1, <3>1 DEF Chained
    <2> QED
      BY <2>1, <2>2
  <1> QED
    BY <1>2, <1>3, <1>4 DEF t

\* ... by an instruction that moves the top frame, ...
LEMMA MoveKeeps ==
  ASSUME NEW stk \in Seq(Frame), stk # << >>, NEW t, Moves(stk, t), NEW exd, NEW exd2, NEW lost, NEW less,
         FramesIn(stk, exd), Chained(stk), LostIn(stk, lost),
         t[Len(stk)].pend \in Code \cup {DONE},
         t[Len(stk)].pc \in Code \/ Over(t[Len(stk)]) \/ Active(t, exd2) = {},
         less \subseteq lost, Top(stk).mask \cap lost = {}
  PROVE  FramesIn(t, exd2) /\ Chained(t) /\ LostIn(t, less)
  <1> DEFINE n == Len(stk)
  <1>1. /\ n \in Nat /\ n >= 1 /\ n \in 1 .. n /\ Top(stk) = stk[n] /\ Len(t) = n
        /\ t[n].mask = stk[n].mask /\ t[n].rpc = stk[n].rpc
        /\ \A i \in 1 .. n : i # n => t[i] = stk[i]
    BY HeightType DEF Moves
  <1>2. FramesIn(t, exd2)
    <2>1. \A i \in 1 .. n : i # n => /\ stk[i].rpc \in Code \cup {DONE} /\ stk[i].pend \in Code \cup {DONE}
                                     /\ stk[i].pc \in Code \/ Over(stk[i])
      BY <1>1 DEF FramesIn
    <2>2. stk[n].rpc \in Code \cup {DONE}
      BY <1>1 DEF FramesIn
    <2> QED
      BY <1>1, <2>1, <2>2 DEF FramesIn
  <1>3. Chained(t)
    <2> SUFFICES ASSUME NEW j \in 1 .. n, NEW i \in 1 .. j - 1,
                        t[i].mask \cap t[j].mask # {}, t[j].rpc = DONE
                 PROVE  Over(t[i])
      BY <1>1 DEF Chained
    <2>1. i \in 1 .. n /\ i # n
      BY <1>1
    <2>2. t[i] = stk[i] /\ t[j].mask = stk[j].mask /\ t[j].rpc = stk[j].rpc
      BY <1>1, <2>1
    <2> QED
      BY <2>2 DEF Chained
  <1>4. LostIn(t, less)
    <2> SUFFICES ASSUME NEW i \in 1 .. n, t[i].mask \cap less # {} PROVE Over(t[i])
      BY <1>1 DEF LostIn
    <2>1. stk[i].mask \cap lost # {}
      BY <1>1
    <2>2. i # n
      BY <1>1, <2>1
    <2> QED
      BY <1>1, <2>1, <2>2 DEF LostIn
  <1> QED
    BY <1>2, <1>3, <1>4

\* ... and by a divergence: if the two paths return nowhere, so does what they left.
LEMMA ForkKeeps ==
  ASSUME NEW stk \in Seq(Frame), stk # << >>, NEW exd, NEW lost, NEW t,
         NEW active, active \subseteq Top(stk).mask, NEW gm \in SUBSET active,
         NEW pc, NextPc(pc) \in Code, NEW target \in Code,
         Branches(stk, active, gm, pc, target, t),
         FramesIn(stk, exd), Chained(stk), LostIn(stk, lost), Top(stk).mask \cap lost = {}
  PROVE  FramesIn(t, exd) /\ Chained(t) /\ LostIn(t, lost)
  <1> DEFINE n == Len(stk)
             f == Top(stk)
             r == ReconR(f)
  <1>1. n \in Nat /\ n >= 1 /\ n \in 1 .. n /\ f = stk[n]
    BY HeightType
  <1>2. /\ Len(t) = n + 2
        /\ t[n]     = [mask |-> active, pc |-> r, rpc |-> f.rpc, pend |-> DONE]
        /\ t[n + 1] = [mask |-> active \ gm, pc |-> NextPc(pc), rpc |-> r, pend |-> DONE]
        /\ t[n + 2] = [mask |-> gm, pc |-> target, rpc |-> r, pend |-> DONE]
        /\ \A i \in 1 .. n : i # n => t[i] = stk[i]
    BY DEF Branches
  <1>3. /\ f.rpc \in Code \cup {DONE} /\ r \in Code \cup {DONE}
        /\ r = DONE => f.rpc = DONE
        /\ f.mask = stk[n].mask
    <2>1. f.rpc \in Code \cup {DONE} /\ f.pend \in Code \cup {DONE}
      BY <1>1 DEF FramesIn
    <2> QED
      BY <1>1, <2>1 DEF ReconR
  <1> HIDE DEF r, n
  <1>4. /\ t[n].mask = active /\ t[n].pc = r /\ t[n].rpc = f.rpc /\ t[n].pend = DONE
        /\ t[n + 1].mask = active \ gm /\ t[n + 1].pc \in Code /\ t[n + 1].rpc = r /\ t[n + 1].pend = DONE
        /\ t[n + 2].mask = gm /\ t[n + 2].pc \in Code /\ t[n + 2].rpc = r /\ t[n + 2].pend = DONE
    BY <1>2
  <1>5. r \in Code \/ Over(t[n])
    BY <1>3, <1>4 DEF Over
  <1>6. \A i \in 1 .. n + 2 : \/ i \in 1 .. n /\ i # n
                             \/ i = n
                             \/ i = n + 1
                             \/ i = n + 2
    BY <1>1
  <1>7. FramesIn(t, exd)
    <2>1. \A i \in 1 .. n : i # n => /\ stk[i].rpc \in Code \cup {DONE} /\ stk[i].pend \in Code \cup {DONE}
                                     /\ stk[i].pc \in Code \/ Over(stk[i])
      BY <1>1 DEF FramesIn, n
    <2>2. ASSUME NEW i \in 1 .. n + 2
          PROVE  /\ t[i].rpc \in Code \cup {DONE} /\ t[i].pend \in Code \cup {DONE}
                 /\ t[i].pc \in Code \/ Over(t[i])
      <3>1. CASE i = n
        BY <1>3, <1>4, <1>5, <3>1
      <3>2. CASE i = n + 1 \/ i = n + 2
        BY <1>3, <1>4, <3>2
      <3>3. CASE i \in 1 .. n /\ i # n
        BY <1>2, <2>1, <3>3
      <3> QED
        BY <1>6, <3>1, <3>2, <3>3
    <2> QED
      BY <1>2, <2>2 DEF FramesIn
  <1>8. Chained(t)
    <2> SUFFICES ASSUME NEW j \in 1 .. n + 2, NEW i \in 1 .. j - 1,
                        t[i].mask \cap t[j].mask # {}, t[j].rpc = DONE
                 PROVE  Over(t[i])
      BY <1>2 DEF Chained
    <2>0. \A k \in 1 .. n : stk[k].mask \cap f.mask # {} /\ f.rpc = DONE /\ k # n => Over(stk[k])
      BY <1>1, <1>3 DEF Chained, n
    <2>1. CASE i \in 1 .. n /\ i # n
      <3>1. CASE j \in 1 .. n /\ j # n
        BY <1>2, <2>1, <3>1 DEF Chained, n
      <3>2. CASE j \in {n, n + 1, n + 2}
        <4>1. f.rpc = DONE /\ t[j].mask \subseteq f.mask
          BY <1>3, <1>4, <3>2
        <4> QED
          BY <1>2, <2>0, <2>1, <4>1
      <3> QED
        BY <1>6, <3>1, <3>2
    <2>2. CASE i = n
      <3>1. j = n + 1 \/ j = n + 2
        BY <1>1, <2>2
      <3>2. r = DONE
        BY <1>4, <3>1
      <3> QED
        BY <1>3, <1>4, <2>2, <3>2 DEF Over
    <2>3. CASE i = n + 1
      <3>1. j = n + 2
        BY <1>1, <2>3
      <3> QED
        BY <1>4, <2>3, <3>1
    <2>4. i \in 1 .. n + 1
      BY <1>1
    <2> QED
      BY <1>1, <2>1, <2>2, <2>3, <2>4
  <1>9. LostIn(t, lost)
    <2> SUFFICES ASSUME NEW i \in 1 .. n + 2, t[i].mask \cap lost # {} PROVE Over(t[i])
      BY <1>2 DEF LostIn
    <2>1. i \in 1 .. n /\ i # n
      <3>1. t[n].mask \cap lost = {} /\ t[n + 1].mask \cap lost = {} /\ t[n + 2].mask \cap lost = {}
        BY <1>4
      <3> QED
        BY <1>6, <3>1
    <2> QED
      BY <1>2, <2>1 DEF LostIn, n
  <1> QED
    BY <1>7, <1>8, <1>9

-----------------------------------------------------------------------------
\* An instruction cu_core picks is one the simulator executes, for the same lanes.
LEMMA SamePick ==
  ASSUME TypeOK, LockInv, PickIssue(stack, exited)
  PROVE  /\ stack # << >> /\ st # << >> /\ Len(st) = Len(stack)
         /\ Top(stack).pc \in Code /\ Top(st).pc = Top(stack).pc
         /\ SameFrame(Top(stack), Top(st))
         /\ IssActive = Active(stack, exited)
         /\ Active(stack, exited) # {} /\ Active(stack, exited) \in SUBSET Lanes
         /\ Top(stack).mask \cap (iexited \ exited) = {}
         /\ ~IssPops /\ ~IssRunsOff
  <1> DEFINE n == Len(stack)
             f == Top(stack)
             g == Top(st)
  <1>1. /\ stack # << >> /\ Active(stack, exited) # {} /\ f.pc # f.rpc
        /\ n \in 1 .. n /\ n \in Nat /\ f = stack[n] /\ f \in Frame
    BY HeightType DEF PickIssue, PickPop, TypeOK
  <1>2. Len(st) = n /\ st # << >> /\ g = st[n] /\ SameFrame(f, g)
    <2>1. Len(st) = n /\ SameFrame(f, st[n]) /\ n # 0
      BY <1>1 DEF LockInv, Matches
    <2>2. st # << >>
      BY <2>1, EmptySeq
    <2> QED
      BY <2>1, <2>2 DEF Top
  <1>3. f.pc \in Code /\ ~Over(f)
    BY <1>1 DEF LockInv, FramesIn, Over
  <1>4. f.mask \cap (iexited \ exited) = {}
    BY <1>1, <1>3 DEF LockInv, LostIn
  <1>5. g.mask = f.mask /\ g.rpc = Widen(f.rpc) /\ g.pc = f.pc
    BY <1>2, <1>3, CodePcs DEF SameFrame
  <1>6. IssActive = Active(stack, exited)
    BY <1>4, <1>5 DEF IssActive, Active, LockInv
  <1>7. g.pc # g.rpc /\ ~(g.pc >= CodeSize)
    <2>1. f.rpc \in Pcs
      BY <1>1 DEF Frame
    <2>2. /\ f.pc \in Pcs /\ f.pc <= DONE /\ f.pc < CodeSize
          /\ IssDone > DONE /\ CodeSize \in Nat /\ DONE \in Pcs /\ IssDone \in Nat
      BY <1>3, CodePcs
    <2> QED
      BY <1>1, <1>5, <2>1, <2>2 DEF Widen, Pcs
  <1>8. ~IssPops /\ ~IssRunsOff
    BY <1>1, <1>6, <1>7 DEF IssPops, IssRunsOff
  <1>9. Active(stack, exited) \in SUBSET Lanes
    BY <1>1 DEF Active, Frame
  <1> QED
    BY <1>1, <1>2, <1>3, <1>4, <1>5, <1>6, <1>8, <1>9

\* What is left to say of an instruction that moves the top frame.
LEMMA MoveLock ==
  ASSUME TypeOK, LockInv, stack # << >>, Moves(stack, stack'),
         Matches(stack', st'), st' \in Seq(IssFrame),
         exited \subseteq exited', exited' \subseteq iexited', iexited' \in SUBSET Lanes,
         iexited' \ exited' \subseteq iexited \ exited, ifinished' = ifinished, finished' = finished,
         stack'[Len(stack)].pend \in Code \cup {DONE},
         stack'[Len(stack)].pc \in Code \/ Over(stack'[Len(stack)]) \/ Active(stack', exited') = {},
         Top(stack).mask \cap (iexited \ exited) = {}
  PROVE  LockInv'
  <1>1. /\ FramesIn(stack', exited') /\ Chained(stack') /\ LostIn(stack', iexited' \ exited')
    BY MoveKeeps DEF LockInv, TypeOK
  <1> QED
    BY <1>1 DEF LockInv

LEMMA ExecLock ==
  ASSUME TypeOK, LockInv, Contained, NEW p, Exec(p), IssStep(imem, p)
  PROVE  LockInv'
  <1> DEFINE pc     == Top(stack).pc
             insn   == imem[pc]
             active == Active(stack, exited)
             gm     == GuardMask(active, insn, p)
             n      == Len(stack)
  <1>1. PickIssue(stack, exited)
    BY DEF Exec
  <1>2. /\ stack # << >> /\ st # << >> /\ Len(st) = n
        /\ pc \in Code /\ Top(st).pc = pc /\ SameFrame(Top(stack), Top(st))
        /\ IssActive = active /\ active # {} /\ active \in SUBSET Lanes
        /\ Top(stack).mask \cap (iexited \ exited) = {}
        /\ ~IssPops /\ ~IssRunsOff
    BY <1>1, SamePick
  <1>3. IssExec(imem, p)
    BY <1>2 DEF IssStep, IssFinish, IssPop, IssRunOff
  <1>4. /\ n \in Nat /\ n >= 1 /\ n \in 1 .. n /\ Top(stack) = stack[n] /\ Top(stack) \in Frame
        /\ stack \in Seq(Frame) /\ st \in Seq(IssFrame) /\ Matches(stack, st)
        /\ FramesIn(stack, exited) /\ Chained(stack) /\ LostIn(stack, iexited \ exited)
    BY <1>2, HeightType DEF TypeOK, LockInv
  <1>5. pc \in 0 .. ImemWords - 1 /\ pc \in Pcs
    BY <1>2, CodePcs
  <1>6. Fetch(imem, pc) = insn /\ insn \in Insn
    <2>1. Fetch(imem, pc) = insn
      BY <1>2, SameAddress
    <2> QED
      BY <1>5, <2>1 DEF TypeOK, Imem
  <1>7. gm \in SUBSET active
    BY DEF GuardMask
  <1> DEFINE far == BrTarget(pc, insn.off)
  <1>8. /\ stack' = ExecStack(stack, exited, insn, pc, gm)
        /\ exited' = ExecExited(exited, insn, gm)
        /\ finished' = finished /\ imem' = imem
    BY <1>6 DEF Exec
  <1>9. /\ st' = CASE insn.op = "BRA" /\ gm = active -> SetPc(st, IssWrap(pc + insn.off))
                   [] insn.op = "BRA" /\ gm # {} /\ gm # active -> IssDiverge(gm, IssWrap(pc + insn.off))
                   [] insn.op = "SSY"  -> [st EXCEPT ![Len(st)].pend = IssWrap(pc + insn.off),
                                                     ![Len(st)].pc = IssWrap(pc + 1)]
                   [] insn.op = "SYNC" -> SetPc(st, IF Top(st).rpc = IssDone THEN CodeSize ELSE Top(st).rpc)
                   [] insn.op = "CALL" -> SetPc(st, IssWrap(pc + insn.off))
                   [] OTHER            -> SetPc(st, IssWrap(pc + 1))
        /\ iexited' = IF insn.op = "EXIT" THEN iexited \cup gm ELSE iexited
        /\ ifinished' = ifinished
    BY <1>2, <1>3 DEF IssExec
  <1>10. /\ insn.op # "CALL"
         /\ insn.op \in {"BRA", "SSY"} => pc + insn.off \in Code
         /\ Ends(insn) \/ insn.op = "SYNC" \/ pc + 1 \in Code
    BY <1>2 DEF Contained
  <1>11. insn.op \in {"BRA", "SSY"} => /\ far = IssWrap(pc + insn.off) /\ far \in Code
                                       /\ far \in Pcs /\ far \in Nat /\ Widen(far) = far
    <2>1. insn.off \in Int
      BY <1>6 DEF Insn
    <2>2. \A a \in Code : a \in Pcs /\ a \in Nat /\ Widen(a) = a
      BY CodePcs DEF Pcs
    <2> QED
      BY <1>2, <1>10, <2>1, <2>2, SameAddress
  <1>12. /\ NextPc(pc) \in Pcs /\ IssWrap(pc + 1) \in Nat
         /\ IssWrap(pc + 1) = Widen(NextPc(pc)) \/ (NextPc(pc) = DONE /\ IssWrap(pc + 1) = CodeSize)
         /\ NextPc(pc) = pc + 1
    BY <1>2, SameNext, SameAddress
  <1>13. /\ exited \subseteq exited' /\ exited' \subseteq iexited' /\ iexited' \in SUBSET Lanes
         /\ iexited' \ exited' \subseteq iexited \ exited
    BY <1>2, <1>7, <1>8, <1>9 DEF ExecExited, LockInv
  <1>14. stack[n].pend \in Code \cup {DONE} /\ stack[n].rpc \in Code \cup {DONE}
    BY <1>4 DEF FramesIn
  <1> HIDE DEF pc, insn, active, gm, n, far
  \* A move to addresses that are the same on both sides.
  <1>15. ASSUME NEW a \in Pcs, NEW b \in Nat, b = Widen(a) \/ (a = DONE /\ b = CodeSize),
                stack' = SetPc(stack, a), st' = SetPc(st, b),
                a \in Code \/ (a = DONE /\ stack[n].rpc = DONE) \/ exited' = exited \cup active
         PROVE  LockInv'
    <2>1. Matches(stack', st') /\ st' \in Seq(IssFrame)
      BY <1>2, <1>4, <1>15, GotoMatches
    <2>2. Moves(stack, stack')
      BY <1>2, <1>4, <1>15, SetPcMoves
    <2>3. stack'[n] = [stack[n] EXCEPT !.pc = a]
      BY <1>2, <1>4, <1>15, SetPcIsReplace, ReplaceTop DEF n
    <2>4. /\ stack'[n].pend = stack[n].pend /\ stack'[n].pc = a
          /\ stack'[n].rpc = stack[n].rpc /\ stack'[n].mask = stack[n].mask
      BY <1>4, <2>3 DEF Frame
    <2>5. stack'[n].pc \in Code \/ Over(stack'[n]) \/ Active(stack', exited') = {}
      <3>1. CASE a \in Code \/ (a = DONE /\ stack[n].rpc = DONE)
        BY <2>4, <3>1 DEF Over
      <3>2. CASE exited' = exited \cup active
        <4>1. Top(stack') = stack'[n]
          BY <1>2, <1>4, <2>2, HeightType, EmptySeq DEF Moves, n, Top
        <4>2. active = stack[n].mask \ exited
          BY <1>4 DEF active, Active
        <4> QED
          BY <2>4, <3>2, <4>1, <4>2 DEF Active
      <3> QED
        BY <1>15, <3>1, <3>2
    <2> QED
      BY <1>2, <1>8, <1>9, <1>13, <1>14, <2>1, <2>2, <2>4, <2>5, MoveLock DEF n
  <1>16. CASE insn.op = "BRA" /\ gm = active
    <2>1. gm # {}
      BY <1>2, <1>16
    <2>2. stack' = SetPc(stack, far)
      BY <1>8, <1>16, <2>1 DEF ExecStack, BranchStack, far, active
    <2>3. st' = SetPc(st, far)
      BY <1>9, <1>11, <1>16
    <2> QED
      BY <1>11, <1>15, <1>16, <2>2, <2>3
  <1>17. CASE insn.op = "BRA" /\ gm # active /\ gm # {}
    <2>1. stack' = Diverge(stack, active, gm, pc, far)
      BY <1>8, <1>17 DEF ExecStack, BranchStack, far, active
    <2>2. st' = IssDiverge(gm, far)
      BY <1>9, <1>11, <1>17
    <2>3. insn.guarded
      BY <1>17 DEF gm, GuardMask
    <2>4. NextPc(pc) \in Code
      BY <1>10, <1>12, <1>17, <2>3 DEF Ends
    <2>5. IssForks(st, active, gm, pc, far, st')
      <3> DEFINE r    == IF Top(st).pend # IssDone THEN Top(st).pend ELSE Top(st).rpc
                 join == [mask |-> active, pc |-> r, rpc |-> Top(st).rpc, pend |-> IssDone]
                 path == [mask |-> active, pc |-> r, rpc |-> r, pend |-> IssDone]
                 fall == [mask |-> active \ gm, pc |-> IssWrap(pc + 1), rpc |-> r, pend |-> IssDone]
                 take == [mask |-> gm, pc |-> far, rpc |-> r, pend |-> IssDone]
      <3>1. [path EXCEPT !.rpc = Top(st).rpc] = join
        OBVIOUS
      <3>2. IssActive = active /\ Top(st).pc = pc
        BY <1>2
      <3>3. st' = Append(Append([st EXCEPT ![Len(st)] = [path EXCEPT !.rpc = Top(st).rpc]], fall), take)
        BY <2>2, <3>2, Zenon DEF IssDiverge
      <3>4. st' = Append(Append([st EXCEPT ![Len(st)] = join], fall), take)
        BY <3>1, <3>3, Zenon
      <3> QED
        BY <3>4, Zenon DEF IssForks
    <2>10. Matches(stack', st') /\ st' \in Seq(IssFrame)
      BY <1>2, <1>4, <1>7, <1>11, <1>17, <2>1, <2>5, ForkMatches
    <2>11. Branches(stack, active, gm, pc, far, stack')
      BY <1>2, <1>4, <1>5, <1>7, <1>11, <1>17, <2>1, DivergeFrames
    <2>12. exited' = exited /\ iexited' = iexited
      BY <1>8, <1>9, <1>17 DEF ExecExited
    <2>13. active \subseteq Top(stack).mask
      BY DEF active, Active
    <2>14. FramesIn(stack', exited) /\ Chained(stack') /\ LostIn(stack', iexited \ exited)
      BY <1>2, <1>4, <1>7, <1>11, <1>17, <2>4, <2>11, <2>13, ForkKeeps
    <2> QED
      BY <1>8, <1>9, <2>10, <2>12, <2>14 DEF LockInv
  <1>18. CASE insn.op = "SSY"
    <2>1. stack' = SsyStack(stack, pc, far)
      BY <1>8, <1>18 DEF ExecStack, far
    <2>2. st' = [st EXCEPT ![Len(st)].pend = far, ![Len(st)].pc = IssWrap(pc + 1)]
      BY <1>9, <1>11, <1>18
    <2>3. Matches(stack', st') /\ st' \in Seq(IssFrame)
      BY <1>2, <1>4, <1>11, <1>18, <2>1, <2>2, SsyMatches
    <2>4. Moves(stack, stack')
      BY <1>2, <1>4, <1>5, <1>11, <1>18, <2>1, SsyMoves
    <2>5. stack'[n].pend = far /\ stack'[n].pc = NextPc(pc)
      BY <1>4, <2>1 DEF SsyStack, n, Frame
    <2>6. NextPc(pc) \in Code
      BY <1>10, <1>12, <1>18 DEF Ends
    <2> QED
      BY <1>2, <1>8, <1>9, <1>11, <1>13, <1>18, <2>3, <2>4, <2>5, <2>6, MoveLock DEF n
  <1>19. CASE insn.op = "SYNC"
    <2> DEFINE a == stack[n].rpc
               b == IF Top(st).rpc = IssDone THEN CodeSize ELSE Top(st).rpc
    <2>1. stack' = SetPc(stack, a)
      BY <1>4, <1>8, <1>19 DEF ExecStack
    <2>2. st' = SetPc(st, b)
      BY <1>9, <1>19
    <2>3. a \in Pcs /\ Top(st).rpc = Widen(a)
      BY <1>2, <1>4 DEF SameFrame, Frame
    <2>4. a \in Code => /\ Widen(a) = a /\ a # IssDone /\ a \in Nat
      BY CodePcs DEF Pcs
    <2>5. a = DONE => Widen(a) = IssDone
      BY DEF Widen
    <2>6. b \in Nat /\ (b = Widen(a) \/ (a = DONE /\ b = CodeSize))
      BY <1>14, <2>3, <2>4, <2>5, CodePcs
    <2> HIDE DEF a, b
    <2> QED
      BY <1>14, <1>15, <2>1, <2>2, <2>3, <2>6 DEF a
  <1>20. CASE insn.op \notin {"BRA", "SSY", "SYNC"} \/ (insn.op = "BRA" /\ gm = {})
    <2>1. stack' = SetPc(stack, NextPc(pc))
      BY <1>8, <1>20 DEF ExecStack, BranchStack
    <2>2. st' = SetPc(st, IssWrap(pc + 1))
      BY <1>2, <1>9, <1>10, <1>20
    <2>3. NextPc(pc) \in Code \/ exited' = exited \cup active
      <3>1. CASE pc + 1 \in Code
        BY <1>12, <3>1
      <3>2. CASE Ends(insn)
        <4>1. ~insn.guarded /\ insn.op \in {"EXIT", "BRA"}
          BY <3>2 DEF Ends
        <4>2. gm = active
          BY <4>1 DEF gm, GuardMask
        <4> QED
          BY <1>2, <1>8, <1>20, <4>1, <4>2 DEF ExecExited
      <3> QED
        BY <1>10, <1>20, <3>1, <3>2
    <2> QED
      BY <1>12, <1>15, <2>1, <2>2, <2>3
  <1> QED
    BY <1>16, <1>17, <1>18, <1>19, <1>20

-----------------------------------------------------------------------------
\* A frame that pops in cu_core pops in the simulator, or its lanes run off the code there.
LEMMA PopLock ==
  ASSUME TypeOK, LockInv, Pop, NEW p, IssStep(imem, p)
  PROVE  LockInv'
  <1> DEFINE n == Len(stack)
             f == Top(stack)
             g == Top(st)
  <1>1. /\ stack # << >> /\ stack' = PopFrame(stack) /\ UNCHANGED << exited, finished >>
        /\ Active(stack, exited) = {} \/ f.pc = f.rpc
    BY DEF Pop, PickPop
  <1>2. /\ stack \in Seq(Frame) /\ st \in Seq(IssFrame) /\ Matches(stack, st)
        /\ FramesIn(stack, exited) /\ Chained(stack) /\ LostIn(stack, iexited \ exited)
        /\ exited \subseteq iexited /\ iexited \in SUBSET Lanes /\ ifinished = finished
    BY DEF TypeOK, LockInv
  <1>3. n \in 1 .. n /\ n \in Nat /\ n >= 1 /\ f = stack[n] /\ f \in Frame
    BY <1>1, <1>2, HeightType
  <1>4. Len(st) = n /\ st # << >> /\ g = st[n] /\ SameFrame(f, g)
    <2>1. Len(st) = n /\ SameFrame(f, st[n]) /\ n # 0
      BY <1>2, <1>3 DEF Matches
    <2>2. st # << >>
      BY <2>1, EmptySeq
    <2> QED
      BY <2>1, <2>2 DEF Top
  <1>5. g.mask = f.mask /\ g.rpc = Widen(f.rpc) /\ (g.pc = Widen(f.pc) \/ (f.pc = DONE /\ g.pc = CodeSize))
    BY <1>4 DEF SameFrame
  <1>6. IssActive \subseteq Active(stack, exited) /\ IssActive \subseteq f.mask /\ IssActive \in SUBSET Lanes
    BY <1>2, <1>3, <1>5 DEF IssActive, Active, Frame
  <1>7. ~IssPops => f.rpc = DONE /\ IssRunsOff
    <2> SUFFICES ASSUME ~IssPops PROVE f.rpc = DONE /\ IssRunsOff
      OBVIOUS
    <2>1. IssActive # {} /\ g.pc # g.rpc
      BY <1>4 DEF IssPops
    <2>2. f.pc = f.rpc
      BY <1>1, <1>6, <2>1
    <2>3. f.pc = DONE /\ g.pc = CodeSize
      BY <1>5, <2>1, <2>2
    <2>4. g.pc >= CodeSize
      BY <2>3, CodePcs
    <2> QED
      BY <1>4, <2>2, <2>3, <2>4 DEF IssRunsOff
  <1>8. /\ st' = PopFrame(st) /\ ifinished' = ifinished
        /\ \/ iexited' = iexited
           \/ iexited' = iexited \cup IssActive /\ f.rpc = DONE
    <2>1. IssPops \/ IssRunsOff
      BY <1>7
    <2>2. IssPop \/ IssRunOff
      BY <1>4, <2>1 DEF IssStep, IssFinish, IssExec
    <2>3. CASE IssPop
      BY <2>3 DEF IssPop
    <2>4. CASE IssRunOff
      <3>1. ~IssPops
        BY <2>4 DEF IssRunOff, IssRunsOff
      <3> QED
        BY <1>7, <2>4, <3>1 DEF IssRunOff
    <2> QED
      BY <2>2, <2>3, <2>4
  <1>9. Matches(stack', st') /\ st' \in Seq(IssFrame)
    BY <1>1, <1>2, <1>8, PopMatches
  <1>10. PICK more : /\ iexited' = iexited \cup more
                     /\ more \subseteq Active(stack, exited) /\ more \in SUBSET Lanes
                     /\ more # {} => more \subseteq f.mask /\ f.rpc = DONE
    <2>1. CASE iexited' = iexited
      <3>1. iexited' = iexited \cup {}
        BY <2>1
      <3> QED
        BY <3>1
    <2>2. CASE iexited' = iexited \cup IssActive /\ f.rpc = DONE
      BY <1>6, <2>2
    <2> QED
      BY <1>8, <2>1, <2>2
  <1>11. /\ FramesIn(stack', exited) /\ Chained(stack') /\ LostIn(stack', (iexited \ exited) \cup more)
    BY <1>1, <1>2, <1>10, PopKeeps
  <1>12. iexited' \ exited' = (iexited \ exited) \cup more
    BY <1>1, <1>10 DEF Active
  <1> QED
    BY <1>1, <1>2, <1>8, <1>9, <1>10, <1>11, <1>12 DEF LockInv

\* In lockstep the warp of cu_core takes the steps it takes alone.
LEMMA LockstepRunsWarp ==
  ASSUME LNext
  PROVE  Next
  <1>1. PICK p \in SUBSET (Active(stack, exited) \cup IssActive) : SimtStep(p) /\ IssStep(imem, p)
    BY DEF LNext
  <1>2. ASSUME Exec(p) PROVE Exec(p \cap Active(stack, exited))
    <2>1. \A insn : GuardMask(Active(stack, exited), insn, p)
                    = GuardMask(Active(stack, exited), insn, p \cap Active(stack, exited))
      BY DEF GuardMask
    <2> QED
      BY <1>2, <2>1 DEF Exec
  <1>3. p \cap Active(stack, exited) \in SUBSET Active(stack, exited)
    OBVIOUS
  <1> QED
    BY <1>1, <1>2, <1>3 DEF SimtStep, Next

\* So what is proved of a warp holds in lockstep.
THEOREM LockstepIsWarp == LSpec => Spec
  <1>1. LInit => Init
    BY DEF LInit
  <1>2. [LNext]_lvars => [Next]_vars
    BY LockstepRunsWarp DEF lvars, vars
  <1> QED
    BY <1>1, <1>2, PTL DEF LSpec, Spec

LEMMA LockInitially ==
  ASSUME LInit
  PROVE  LockInv
  <1>1. PICK present \in (SUBSET Lanes) \ {{}}, entry \in 0 .. ImemWords - 1 :
          /\ stack = << BaseFrame(present, entry) >>
          /\ exited = Lanes \ present /\ finished = FALSE
    BY DEF LInit, Init
  <1> DEFINE f == BaseFrame(present, entry)
             g == [mask |-> present, pc |-> entry, rpc |-> IssDone, pend |-> IssDone]
  <1>2. stack[1] = f /\ f.mask = present /\ f.pc = entry /\ f.rpc = DONE /\ f.pend = DONE /\ Len(stack) = 1
    BY <1>1 DEF BaseFrame
  <1>3. entry \in Code
    BY <1>2, ImemAssumption, CodeSizeAssumption DEF LInit, Code
  <1>4. /\ st = << g >> /\ iexited = Lanes \ present /\ ifinished = FALSE
    BY <1>2 DEF LInit, IssInit
  <1>5. Widen(entry) = entry /\ entry \in Nat /\ Widen(DONE) = IssDone /\ IssDone \in Nat
    BY <1>3, CodePcs DEF Widen
  <1>6. g \in IssFrame /\ SameFrame(f, g)
    BY <1>2, <1>5 DEF SameFrame, IssFrame
  <1>7. Len(st) = 1 /\ st[1] = g /\ st \in Seq(IssFrame)
    BY <1>4, <1>6
  <1> HIDE DEF f, g
  <1>8. Matches(stack, st)
    BY <1>2, <1>6, <1>7 DEF Matches
  <1>9. FramesIn(stack, exited)
    BY <1>2, <1>3 DEF FramesIn
  <1>10. Chained(stack)
    BY <1>2 DEF Chained
  <1>11. LostIn(stack, iexited \ exited)
    BY <1>1, <1>4 DEF LostIn
  <1>12. ifinished = finished /\ exited = iexited /\ iexited \in SUBSET Lanes
    BY <1>1, <1>4
  <1> QED
    BY <1>7, <1>8, <1>9, <1>10, <1>11, <1>12 DEF LockInv

LEMMA LockStep ==
  ASSUME TypeOK, Contained => LockInv, [LNext]_lvars
  PROVE  (Contained => LockInv)'
  <1>1. CASE UNCHANGED lvars
    BY <1>1 DEF lvars, Contained, LockInv
  <1>2. CASE LNext
    <2>1. PICK p \in SUBSET (Active(stack, exited) \cup IssActive) : SimtStep(p) /\ IssStep(imem, p)
      BY <1>2 DEF LNext
    <2>2. imem' = imem
      BY <2>1 DEF SimtStep, Finish, Pop, Exec
    <2> SUFFICES ASSUME Contained, LockInv PROVE LockInv'
      BY <2>2 DEF Contained
    <2>3. CASE Finish
      <3>1. stack = << >> /\ finished' = TRUE /\ UNCHANGED << stack, exited >>
        BY <2>3 DEF Finish, PickFin
      <3>2. st = << >>
        BY <3>1, EmptySeq DEF LockInv, Matches
      <3>3. ifinished' = TRUE /\ UNCHANGED << st, iexited >>
        BY <2>1, <3>2 DEF IssStep, IssFinish, IssPop, IssPops, IssRunOff, IssRunsOff, IssExec
      <3> QED
        BY <3>1, <3>3 DEF LockInv
    <2>4. CASE Pop
      BY <2>1, <2>4, PopLock
    <2>5. CASE Exec(p)
      BY <2>1, <2>5, ExecLock
    <2> QED
      BY <2>1, <2>3, <2>4, <2>5 DEF SimtStep
  <1> QED
    BY <1>1, <1>2

\* On every program that stays inside its code and does not CALL, for any number of lanes,
\* any memory and any branch outcomes, cu_core and the golden simulator have the same frames
\* after every instruction, execute it for the same lanes and finish together.
THEOREM BitExactHolds == LSpec => [](Contained => BitExact)
  <1>1. TypeOK /\ LockInv => BitExact
    <2> SUFFICES ASSUME TypeOK, LockInv PROVE BitExact
      OBVIOUS
    <2>1. PickIssue(stack, exited) => IssActive = Active(stack, exited)
      BY SamePick
    <2> QED
      BY <2>1 DEF BitExact, LockInv, Matches
  <1>2. LInit => (Contained => LockInv)
    BY LockInitially
  <1>3. TypeOK /\ (Contained => LockInv) /\ [LNext]_lvars => (Contained => LockInv)'
    BY LockStep
  <1>4. LSpec => []TypeOK
    BY LockstepIsWarp, TypeCorrect, PTL
  <1> QED
    BY <1>1, <1>2, <1>3, <1>4, PTL DEF LSpec
=============================================================================
