---------------------------- MODULE CuCoreProofs ----------------------------
(***************************************************************************)
(* The pipeline of the compute unit, for any number of warps, any lanes    *)
(* and any program: at most one instruction per warp is in flight, it is   *)
(* the one PICK decided on, and only live warps that are not parked have   *)
(* one.                                                                    *)
(***************************************************************************)
EXTENDS CuCore, SimtFramesProofs, RoundRobinProofs, FiniteSetTheorems

\* The inductive invariant: the pipeline's facts need one another.
IInv == TypeOK /\ InFlightOnce /\ LiveInFlight /\ DecisionHolds

\* A list of four places holds no warp twice, written without indices.
Apart(a, b, c, d) ==
  /\ a # -1 => a \notin {b, c, d}
  /\ b # -1 => b \notin {c, d}
  /\ c # -1 => c # d

\* Quantifying over the four places of a tuple is speaking of its four values.
LEMMA Unfold ==
  ASSUME NEW a, NEW b, NEW c, NEW d
  PROVE  /\ (\A i, j \in 1 .. 4 : i # j /\ << a, b, c, d >>[i] # -1
                              => << a, b, c, d >>[i] # << a, b, c, d >>[j])
              <=> Apart(a, b, c, d)
         /\ {<< a, b, c, d >>[i] : i \in 1 .. 4} = {a, b, c, d}
  <1> DEFINE t == << a, b, c, d >>
  <1>1. t[1] = a /\ t[2] = b /\ t[3] = c /\ t[4] = d
    OBVIOUS
  <1>2. \A i \in 1 .. 4 : i = 1 \/ i = 2 \/ i = 3 \/ i = 4
    OBVIOUS
  <1>3. 1 \in 1 .. 4 /\ 2 \in 1 .. 4 /\ 3 \in 1 .. 4 /\ 4 \in 1 .. 4
    OBVIOUS
  <1> HIDE DEF t
  <1>4. {t[i] : i \in 1 .. 4} = {a, b, c, d}
    BY <1>1, <1>2, <1>3
  <1>5. (\A i, j \in 1 .. 4 : i # j /\ t[i] # -1 => t[i] # t[j]) => Apart(a, b, c, d)
    BY <1>1, <1>3 DEF Apart
  <1>6. Apart(a, b, c, d) => (\A i, j \in 1 .. 4 : i # j /\ t[i] # -1 => t[i] # t[j])
    BY <1>1, <1>2 DEF Apart
  <1> QED
    BY <1>4, <1>5, <1>6 DEF t

\* The in-flight scoreboard with its four places named.
LEMMA OnceUnfolded ==
  /\ InFlightOnce <=>
       /\ Apart(pf.warp, fr.warp, re.warp, mu.warp)
       /\ in_flight = {pf.warp, fr.warp, re.warp, mu.warp} \ {-1}
  /\ InFlightOnce' <=>
       /\ Apart(pf'.warp, fr'.warp, re'.warp, mu'.warp)
       /\ in_flight' = {pf'.warp, fr'.warp, re'.warp, mu'.warp} \ {-1}
  BY Unfold DEF InFlightOnce, Place

\* Warps are naturals, so the marker -1 is none of them.
LEMMA WarpTypes ==
  /\ NumWarps \in Nat \ {0} /\ Warps \subseteq Nat /\ -1 \notin Warps
  /\ \A s \in Slot : Full(s) <=> s.warp \in Warps
  /\ \A s \in Slot : ~Full(s) => s.warp = -1
  /\ Nothing.warp = -1 /\ Idle.warp = -1
  /\ \A r \in Request : r # Idle <=> r.warp \in Warps
  /\ \A r \in Request : r = Idle => r.warp = -1
  BY CuAssumption DEF Warps, Slot, Full, Nothing, Idle, Request

\* The lane the memory unit serves next is one of those it has to serve.
LEMMA LowestLaneIn ==
  ASSUME NEW s \in SUBSET Lanes, s # {}
  PROVE  LowestLane(s) \in s
  <1>1. s \in SUBSET Nat
    <2>1. WarpSize \in Nat
      BY LanesAssumption, FS_CardinalityType DEF WarpSize
    <2> QED
      BY <2>1, CuAssumption
  <1>2. \E l \in s : \A k \in s : l <= k
    BY <1>1, LeastNatural
  <1> QED
    BY <1>2 DEF LowestLane

\* What PICK may do on a clock: one thing, to one ready warp.
LEMMA PickFacts ==
  ASSUME TypeOK
  PROVE  /\ Ready \in SUBSET Warps /\ Ready \cap in_flight = {}
         /\ Ready \subseteq (resident \ finished) \ at_barrier
         /\ PickAct => Sel \in Ready
         /\ PickAct \/ (FinishedNow = {} /\ PoppedNow = {} /\ IssuedNow = {})
         /\ FinishedNow \subseteq {Sel} /\ PoppedNow \subseteq {Sel} /\ IssuedNow \subseteq {Sel}
         /\ IssuedNow # {} => /\ PickIssue(stack[Sel], exited[Sel])
                              /\ PoppedNow = {} /\ FinishedNow = {}
         /\ PoppedNow # {} => stack[Sel] # << >>
  <1>1. Ready \in SUBSET Warps /\ Ready \cap in_flight = {}
        /\ Ready \subseteq (resident \ finished) \ at_barrier
    BY DEF Ready, TypeOK
  <1>2. PickAct => Sel \in Ready
    <2>1. Ready \in SUBSET (0 .. NumWarps - 1) /\ ptr \in 0 .. NumWarps - 1
      BY <1>1 DEF TypeOK, Warps
    <2> QED
      BY <2>1, CuAssumption, SelectReady DEF PickAct, Sel
  <1> QED
    BY <1>1, <1>2 DEF FinishedNow, PoppedNow, IssuedNow, Only, PickIssue, PickPop, PickFin

\* EXEC retires the instruction of the warp in re, and no other.
LEMMA ExecFacts ==
  ASSUME TypeOK
  PROVE  /\ Retiring = {} \/ (Full(re) /\ ~Stall /\ Retiring = {re.warp})
         /\ DispatchNow \subseteq Retiring /\ ParkNow \subseteq Retiring
         /\ DispatchNow # {} /\ Busy => MComplete
         /\ Full(re) /\ ~Stall => Retiring = {re.warp}
  BY DEF Retiring, DispatchNow, ParkNow, Stall

\* The memory unit keeps its warp until its request is over.
LEMMA MuNextFacts ==
  ASSUME TypeOK, NEW group \in Groups, NEW answered
  PROVE  /\ MuNext(group, answered) \in Request
         /\ MuNext(group, answered).warp = IF MComplete THEN -1 ELSE mu.warp
  <1>1. CASE MStep
    <2>1. mu \in Request /\ mu # Idle /\ mu.pending # {} /\ ~MComplete
      BY <1>1 DEF MStep, Busy, MComplete, TypeOK
    <2>2. MuNext(group, answered) = [mu EXCEPT !.pending = @ \ {LowestLane(@)}]
      BY <1>1 DEF MuNext
    <2> QED
      BY <2>1, <2>2 DEF Request
  <1>2. CASE ~MStep /\ GReq
    <2>1. mu \in Request /\ mu # Idle /\ mu.pending # {} /\ ~MComplete
      BY <1>2 DEF GReq, Busy, MComplete, TypeOK
    <2>2. mu.pending \in SUBSET Lanes
      BY <2>1 DEF Request
    <2>3. group \in SUBSET Lanes
      BY <1>2, <2>1, <2>2, LowestLaneIn DEF Groups
    <2>4. MuNext(group, answered) = [mu EXCEPT !.wait = TRUE, !.match = group]
      BY <1>2 DEF MuNext
    <2> QED
      BY <2>1, <2>3, <2>4 DEF Request
  <1>3. CASE ~MStep /\ ~GReq /\ mu.wait /\ answered
    <2>1. mu \in Request /\ mu # Idle /\ ~MComplete
      BY <1>3 DEF Idle, MComplete, TypeOK
    <2>2. MuNext(group, answered)
            = [mu EXCEPT !.pending = @ \ mu.match, !.wait = FALSE, !.match = {}]
      BY <1>3 DEF MuNext
    <2> QED
      BY <2>1, <2>2 DEF Request
  <1>4. CASE ~MStep /\ ~GReq /\ ~(mu.wait /\ answered) /\ MComplete
    <2>1. MuNext(group, answered) = Idle
      BY <1>4 DEF MuNext
    <2> QED
      BY <1>4, <2>1 DEF Request, Idle
  <1>5. CASE ~MStep /\ ~GReq /\ ~(mu.wait /\ answered) /\ ~MComplete
    <2>1. MuNext(group, answered) = mu
      BY <1>5 DEF MuNext
    <2> QED
      BY <1>5, <2>1 DEF TypeOK
  <1> QED
    BY <1>1, <1>2, <1>3, <1>4, <1>5

\* The places after a clock.
LEMMA PlacesNext ==
  ASSUME IInv, NEW p \in Predicates, NEW group \in Groups, NEW answered,
         Clock(p, group, answered)
  PROVE  /\ Complete => /\ pf' = Nothing /\ fr' = Nothing /\ re' = Nothing
                         /\ mu'.warp = -1 /\ in_flight' = {} /\ in_flight = {}
         /\ ~Complete /\ Stall => /\ pf' = pf /\ fr' = fr /\ re' = re
                                   /\ mu'.warp = mu.warp /\ in_flight' = in_flight
         /\ ~Complete /\ ~Stall =>
              /\ pf' = IF IssuedNow # {} THEN [warp |-> Sel, pc |-> Top(stack[Sel]).pc]
                       ELSE Nothing
              /\ fr' = pf /\ re' = fr
              /\ mu'.warp = IF DispatchNow # {} THEN re.warp
                             ELSE IF MComplete THEN -1 ELSE mu.warp
              /\ in_flight' = ((in_flight \ (IF MComplete THEN {mu.warp} ELSE {}))
                                  \cup IssuedNow) \ (Retiring \ DispatchNow)
  <1>1. TypeOK /\ InFlightOnce
    BY DEF IInv
  <1>2. mu'.warp = IF DispatchNow # {} THEN re.warp ELSE IF MComplete THEN -1 ELSE mu.warp
    BY <1>1, MuNextFacts DEF Clock, MemoryUnitNext
  <1>3. in_flight' = ((in_flight \ (IF MComplete THEN {mu.warp} ELSE {})) \cup IssuedNow)
                       \ (Retiring \ DispatchNow)
    BY DEF Clock
  <1>4. CASE Complete
    <2>1. in_flight = {} /\ Ready = {}
      BY <1>4 DEF Complete, Quiet
    <2>2. IssuedNow = {}
      BY <2>1 DEF IssuedNow, PickAct
    <2>3. {pf.warp, fr.warp, re.warp, mu.warp} \ {-1} = {}
      BY <1>1, <2>1, OnceUnfolded
    <2>4. re.warp = -1 /\ mu.warp = -1
      BY <2>3
    <2>5. ~Full(re)
      BY <1>1, <2>4, WarpTypes DEF TypeOK
    <2>6. Retiring = {} /\ DispatchNow = {}
      BY <2>5 DEF Retiring, DispatchNow
    <2>7. pf' = Nothing /\ fr' = Nothing /\ re' = Nothing
      BY <1>4 DEF Clock, PipelineNext
    <2> QED
      BY <1>2, <1>3, <1>4, <2>1, <2>2, <2>4, <2>6, <2>7
  <1>5. CASE ~Complete /\ Stall
    <2>1. Retiring = {} /\ DispatchNow = {} /\ IssuedNow = {} /\ ~MComplete
      BY <1>5 DEF Retiring, DispatchNow, IssuedNow, PickAct, Stall
    <2>2. pf' = pf /\ fr' = fr /\ re' = re
      BY <1>5 DEF Clock, PipelineNext
    <2> QED
      BY <1>2, <1>3, <1>5, <2>1, <2>2
  <1>6. CASE ~Complete /\ ~Stall
    BY <1>2, <1>3, <1>6 DEF Clock, PipelineNext
  <1> QED
    BY <1>4, <1>5, <1>6

\* The instructions move from place to place without meeting.
LEMMA ClockOnce ==
  ASSUME IInv, NEW p \in Predicates, NEW group \in Groups, NEW answered,
         Clock(p, group, answered)
  PROVE  InFlightOnce'
  <1>0. TypeOK /\ Apart(pf.warp, fr.warp, re.warp, mu.warp)
        /\ in_flight = {pf.warp, fr.warp, re.warp, mu.warp} \ {-1}
    BY OnceUnfolded DEF IInv
  <1>1. CASE Complete
    <2>1. pf'.warp = -1 /\ fr'.warp = -1 /\ re'.warp = -1 /\ mu'.warp = -1 /\ in_flight' = {}
      BY <1>1, PlacesNext, WarpTypes
    <2>2. Apart(pf'.warp, fr'.warp, re'.warp, mu'.warp)
          /\ in_flight' = {pf'.warp, fr'.warp, re'.warp, mu'.warp} \ {-1}
      BY <2>1 DEF Apart
    <2> QED
      BY <2>2, OnceUnfolded
  <1>2. CASE ~Complete /\ Stall
    <2>1. pf' = pf /\ fr' = fr /\ re' = re /\ mu'.warp = mu.warp /\ in_flight' = in_flight
      BY <1>2, PlacesNext
    <2>2. Apart(pf'.warp, fr'.warp, re'.warp, mu'.warp)
          /\ in_flight' = {pf'.warp, fr'.warp, re'.warp, mu'.warp} \ {-1}
      BY <1>0, <2>1
    <2> QED
      BY <2>2, OnceUnfolded
  <1>3. CASE ~Complete /\ ~Stall
    <2> DEFINE issued == IF IssuedNow # {} THEN Sel ELSE -1
               over   == IF MComplete THEN {mu.warp} ELSE {}
               unit   == IF DispatchNow # {} THEN re.warp
                         ELSE IF MComplete THEN -1 ELSE mu.warp
    <2>1. pf'.warp = issued /\ fr'.warp = pf.warp /\ re'.warp = fr.warp /\ mu'.warp = unit
          /\ in_flight' = ((in_flight \ over) \cup IssuedNow) \ (Retiring \ DispatchNow)
      BY <1>3, PlacesNext, WarpTypes
    <2>2. /\ IssuedNow = {issued} \ {-1}
          /\ issued # -1 => issued \notin in_flight
      <3>1. /\ IssuedNow \subseteq {Sel}
            /\ IssuedNow # {} => Sel \in Warps /\ Sel \notin in_flight
        BY <1>0, PickFacts
      <3> QED
        BY <3>1, WarpTypes
    <2>3. Retiring = {re.warp} \ {-1} /\ (DispatchNow = {} \/ DispatchNow = Retiring)
      <3>1. re.warp = -1 \/ Full(re)
        BY <1>0, WarpTypes DEF TypeOK
      <3>2. Full(re) => re.warp # -1
        BY <1>0, WarpTypes DEF TypeOK
      <3> QED
        BY <1>0, <1>3, <3>1, <3>2 DEF Retiring, DispatchNow
    <2>4. /\ DispatchNow # {} => mu.warp = -1 \/ MComplete
          /\ MComplete => mu.warp # -1
      <3>1. Busy <=> mu.warp # -1
        BY <1>0, WarpTypes DEF Busy, TypeOK
      <3> QED
        BY <1>0, <3>1, ExecFacts DEF MComplete
    <2> HIDE DEF issued
    <2>5. /\ issued # -1 => issued \notin {pf.warp, fr.warp, re.warp, mu.warp}
          /\ Apart(pf.warp, fr.warp, re.warp, mu.warp)
      BY <1>0, <2>2
    <2>6. Apart(issued, pf.warp, fr.warp, unit)
      BY <2>3, <2>4, <2>5 DEF Apart
    <2>7. in_flight' = {issued, pf.warp, fr.warp, unit} \ {-1}
      <3>1. CASE DispatchNow # {}
        <4>1. Retiring \ DispatchNow = {} /\ unit = re.warp /\ over = {mu.warp} \ {-1}
          BY <2>3, <2>4, <3>1
        <4>2. re.warp # mu.warp \/ re.warp = -1
          BY <2>5 DEF Apart
        <4> QED
          BY <1>0, <2>1, <2>2, <2>5, <4>1, <4>2 DEF Apart
      <3>2. CASE DispatchNow = {}
        <4>1. Retiring \ DispatchNow = {re.warp} \ {-1}
          BY <2>3, <3>2
        <4>2. CASE MComplete
          <5>1. over = {mu.warp} /\ unit = -1
            BY <3>2, <4>2
          <5> QED
            BY <1>0, <2>1, <2>2, <2>5, <4>1, <5>1 DEF Apart
        <4>3. CASE ~MComplete
          <5>1. over = {} /\ unit = mu.warp
            BY <3>2, <4>3
          <5> QED
            BY <1>0, <2>1, <2>2, <2>5, <4>1, <5>1 DEF Apart
        <4> QED
          BY <4>2, <4>3
      <3> QED
        BY <3>1, <3>2
    <2> QED
      BY <2>1, <2>6, <2>7, OnceUnfolded
  <1> QED
    BY <1>1, <1>2, <1>3

\* Where the retiring and the picked warp stand.
LEMMA WhoMoves ==
  ASSUME IInv
  PROVE  /\ Retiring \subseteq in_flight
         /\ PoppedNow \cap in_flight = {} /\ IssuedNow \cap in_flight = {}
         /\ FinishedNow \cap in_flight = {}
         /\ FinishedNow \cup PoppedNow \cup IssuedNow \subseteq Ready
         /\ \A s \in {pf, fr, re} \ {Nothing} : s \in Slot /\ s.warp \in in_flight
         /\ \A s \in {pf, fr} \ {Nothing} : s.warp \notin Retiring
  <1>0. TypeOK /\ Apart(pf.warp, fr.warp, re.warp, mu.warp)
        /\ in_flight = {pf.warp, fr.warp, re.warp, mu.warp} \ {-1}
    BY OnceUnfolded DEF IInv
  <1>1. FinishedNow \cup PoppedNow \cup IssuedNow \subseteq Ready /\ Ready \cap in_flight = {}
    BY <1>0, PickFacts
  <1>2. \A s \in {pf, fr, re} \ {Nothing} : s \in Slot /\ s.warp \in Warps
    BY <1>0, WarpTypes DEF TypeOK, Full
  <1>3. \A s \in {pf, fr, re} \ {Nothing} : s.warp \in in_flight
    BY <1>0, <1>2, WarpTypes
  <1>4. Retiring = {} \/ (re # Nothing /\ Retiring = {re.warp})
    BY <1>0, ExecFacts DEF Full
  <1>5. \A s \in {pf, fr} \ {Nothing} : s.warp # re.warp
    BY <1>0, <1>2, WarpTypes DEF Apart
  <1> QED
    BY <1>1, <1>2, <1>3, <1>4, <1>5

\* A warp that is neither popped nor retiring keeps its state.
LEMMA OthersKeep ==
  ASSUME NEW p, WarpsNext(p), NEW w \in Warps, w \notin PoppedNow, w \notin Retiring
  PROVE  stack'[w] = stack[w] /\ exited'[w] = exited[w]
  BY DEF WarpsNext

\* A warp in flight stays live and unparked, and parks only on its own BAR.
LEMMA ClockLive ==
  ASSUME IInv, NEW p \in Predicates, NEW group \in Groups, NEW answered,
         Clock(p, group, answered)
  PROVE  LiveInFlight'
  <1> DEFINE live == (resident \ finished) \ at_barrier
  <1>0. /\ TypeOK /\ in_flight \subseteq live /\ finished \cap at_barrier = {}
    BY DEF IInv, LiveInFlight
  <1>1. /\ finished' = finished \cup FinishedNow /\ resident' = resident
        /\ at_barrier' = IF Release THEN at_barrier \ (resident \ finished)
                         ELSE at_barrier \cup ParkNow
        /\ in_flight' \subseteq in_flight \cup IssuedNow
        /\ in_flight' \cap (Retiring \ DispatchNow) = {}
        /\ running' = ~Complete
    BY DEF Clock
  <1>2. ParkNow # {} => ParkNow = Retiring /\ DispatchNow = {}
    BY DEF ParkNow, DispatchNow, MemOps, SharedOps, GlobalOps
  <1>3. /\ Retiring \subseteq in_flight /\ FinishedNow \cap in_flight = {}
        /\ FinishedNow \cup IssuedNow \subseteq Ready
        /\ Ready \subseteq live /\ Ready \cap in_flight = {}
        /\ ParkNow \subseteq Retiring
        /\ IssuedNow # {} => FinishedNow = {}
    BY <1>0, WhoMoves, PickFacts, ExecFacts
  <1>4. in_flight' \subseteq live /\ in_flight' \cap FinishedNow = {}
    BY <1>0, <1>1, <1>3
  <1>5. in_flight' \cap ParkNow = {}
    BY <1>1, <1>2
  <1>6. in_flight' \subseteq ((resident' \ finished') \ at_barrier')
    BY <1>1, <1>4, <1>5
  <1>7. finished' \cap at_barrier' = {}
    <2>1. ParkNow \cap finished = {} /\ ParkNow \cap FinishedNow = {}
          /\ FinishedNow \cap at_barrier = {}
      BY <1>0, <1>3
    <2> QED
      BY <1>0, <1>1, <2>1
  <1>8. ~running' => in_flight' = {}
    BY <1>1, PlacesNext
  <1> QED
    BY <1>6, <1>7, <1>8 DEF LiveInFlight

\* What PICK decided about a warp, in one formula.
Decided(s, stk, exd) == PickIssue(stk[s.warp], exd[s.warp]) /\ Top(stk[s.warp]).pc = s.pc

\* The decision stays valid as the instruction moves to EXEC.
LEMMA ClockDecision ==
  ASSUME IInv, NEW p \in Predicates, NEW group \in Groups, NEW answered,
         Clock(p, group, answered)
  PROVE  DecisionHolds'
  <1>0. /\ TypeOK /\ WarpsNext(p)
        /\ \A s \in {pf, fr, re} \ {Nothing} : Decided(s, stack, exited)
    BY DEF IInv, DecisionHolds, Decided, Clock
  <1>1. ASSUME NEW s \in {pf, fr, re} \ {Nothing}, s.warp \notin Retiring
        PROVE  Decided(s, stack', exited')
    <2>1. s.warp \in Warps /\ s.warp \notin PoppedNow
      BY WhoMoves, WarpTypes DEF Full
    <2>2. stack'[s.warp] = stack[s.warp] /\ exited'[s.warp] = exited[s.warp]
      BY <1>0, <1>1, <2>1, OthersKeep
    <2> QED
      BY <1>0, <2>2 DEF Decided
  <1>2. \A s \in {pf', fr', re'} \ {Nothing} : Decided(s, stack', exited')
    <2>1. CASE Complete
      BY <2>1, PlacesNext
    <2>2. CASE ~Complete /\ Stall
      <3>1. pf' = pf /\ fr' = fr /\ re' = re /\ Retiring = {}
        BY <2>2, PlacesNext DEF Retiring
      <3> QED
        BY <3>1, <1>1
    <2>3. CASE ~Complete /\ ~Stall
      <3>1. /\ pf' = IF IssuedNow # {} THEN [warp |-> Sel, pc |-> Top(stack[Sel]).pc]
                     ELSE Nothing
            /\ fr' = pf /\ re' = fr
        BY <2>3, PlacesNext
      <3>2. \A s \in {fr', re'} \ {Nothing} : Decided(s, stack', exited')
        BY <3>1, <1>1, WhoMoves
      <3>3. ASSUME IssuedNow # {} PROVE Decided(pf', stack', exited')
        <4>1. Sel \in IssuedNow /\ Sel \in Ready /\ PickIssue(stack[Sel], exited[Sel])
              /\ PoppedNow = {}
          BY <1>0, <3>3, PickFacts, WhoMoves
        <4>2. Sel \in Warps /\ Sel \notin Retiring
          BY <1>0, <4>1, PickFacts, WhoMoves
        <4>3. stack'[Sel] = stack[Sel] /\ exited'[Sel] = exited[Sel]
          BY <1>0, <4>1, <4>2, OthersKeep
        <4>4. pf'.warp = Sel /\ pf'.pc = Top(stack[Sel]).pc
          BY <3>1, <3>3
        <4> QED
          BY <4>1, <4>3, <4>4 DEF Decided
      <3> QED
        BY <3>1, <3>2, <3>3
    <2> QED
      BY <2>1, <2>2, <2>3
  <1> QED
    BY <1>2 DEF DecisionHolds, Decided

\* Every register keeps its type over a clock.
LEMMA ClockType ==
  ASSUME IInv, NEW p \in Predicates, NEW group \in Groups, NEW answered,
         Clock(p, group, answered)
  PROVE  TypeOK'
  <1> DEFINE insn == InstrOf(re)
             gm   == GuardMask(ActiveE, insn, p)
  <1>0. TypeOK /\ DecisionHolds
    BY DEF IInv
  <1>1. /\ imem' = imem /\ resident' = resident
        /\ running' \in BOOLEAN /\ block_done' \in BOOLEAN
    BY <1>0 DEF Clock, TypeOK
  <1>2. \A w \in Warps : Top(stack[w]) \in Frame /\ Top(stack[w]).pc \in Pcs
                         /\ Active(stack[w], exited[w]) \in SUBSET Lanes
    BY <1>0, TopType DEF TypeOK, Active, Frame
  <1>3. ASSUME Retiring # {}
        PROVE  /\ Retiring = {re.warp} /\ re.warp \in Warps /\ re.pc \in Pcs
               /\ insn \in Insn /\ stack[re.warp] # << >>
               /\ gm \in SUBSET ActiveE /\ ActiveE \in SUBSET Lanes
    <2>1. Full(re) /\ Retiring = {re.warp}
      BY <1>0, <1>3, ExecFacts
    <2>2. re # Nothing /\ re \in Slot
      BY <1>0, <2>1 DEF Full, TypeOK
    <2>3. re.warp \in Warps /\ re.pc \in Pcs
      BY <2>2 DEF Slot
    <2>4. insn \in Insn
      BY <1>0, <2>3, FetchType DEF InstrOf, TypeOK
    <2>5. PickIssue(stack[re.warp], exited[re.warp])
      BY <1>0, <2>2 DEF DecisionHolds
    <2> QED
      BY <1>2, <2>1, <2>3, <2>4, <2>5 DEF PickIssue, GuardMask, ActiveE
  <1> HIDE DEF insn, gm
  <1>4. stack' \in [Warps -> Seq(Frame)]
    <2>1. ASSUME NEW w \in Warps
          PROVE  (IF w \in PoppedNow THEN PopFrame(stack[w])
                  ELSE IF w \in Retiring THEN ExecStack(stack[w], exited[w], insn, re.pc, gm)
                  ELSE stack[w]) \in Seq(Frame)
      <3>1. stack[w] \in Seq(Frame) /\ exited[w] \in SUBSET Lanes
        BY <1>0 DEF TypeOK
      <3>2. CASE w \in PoppedNow
        <4>1. w = Sel /\ stack[w] # << >>
          BY <1>0, <3>2, PickFacts
        <4> QED
          BY <3>1, <3>2, <4>1, PopShape
      <3>3. CASE w \notin PoppedNow /\ w \in Retiring
        <4>1. w = re.warp
          BY <1>3, <3>3
        <4>2. gm \in SUBSET Active(stack[w], exited[w])
          BY <1>3, <3>3, <4>1 DEF ActiveE
        <4>3. ExecStack(stack[w], exited[w], insn, re.pc, gm) \in Seq(Frame)
          BY <1>3, <3>1, <3>3, <4>1, <4>2, ExecShape DEF Moves, Splits
        <4> QED
          BY <3>3, <4>3
      <3>4. CASE w \notin PoppedNow /\ w \notin Retiring
        BY <3>1, <3>4
      <3> QED
        BY <3>2, <3>3, <3>4
    <2> QED
      BY <2>1 DEF Clock, WarpsNext, insn, gm
  <1>5. exited' \in [Warps -> SUBSET Lanes]
    <2>1. ASSUME NEW w \in Warps
          PROVE  (IF w \in Retiring THEN ExecExited(exited[w], insn, gm) ELSE exited[w])
                   \in SUBSET Lanes
      BY <1>0, <1>3 DEF ExecExited, TypeOK
    <2> QED
      BY <2>1 DEF Clock, WarpsNext, insn, gm
  <1>6. /\ finished' \in SUBSET Warps /\ at_barrier' \in SUBSET Warps
        /\ in_flight' \in SUBSET Warps /\ ptr' \in Warps
    <2>1. /\ FinishedNow \cup IssuedNow \subseteq Warps /\ ParkNow \subseteq Warps
          /\ PickAct => Sel \in Warps
      BY <1>0, <1>3, PickFacts, WhoMoves, ExecFacts
    <2> QED
      BY <1>0, <2>1 DEF Clock, TypeOK
  <1>7. pf' \in Slot /\ fr' \in Slot /\ re' \in Slot
    <2>1. [warp |-> Sel, pc |-> Top(stack[Sel]).pc] \in Slot \/ IssuedNow = {}
      <3>1. IssuedNow # {} => Sel \in Warps
        BY <1>0, PickFacts, WhoMoves
      <3> QED
        BY <1>2, <3>1 DEF Slot
    <2>2. Nothing \in Slot
      BY DEF Slot
    <2> QED
      BY <1>0, <2>1, <2>2 DEF Clock, PipelineNext, TypeOK
  <1>8. mu' \in Request
    <2>1. CASE DispatchNow # {}
      <3>1. insn.op \in MemOps /\ Retiring # {}
        BY <2>1 DEF DispatchNow, insn
      <3>2. mu' = [warp |-> re.warp, op |-> insn.op, pending |-> gm,
                   wait |-> FALSE, match |-> {}]
        BY <2>1 DEF Clock, MemoryUnitNext, insn, gm
      <3>3. re.warp \in Warps /\ gm \in SUBSET Lanes
        BY <1>3, <3>1
      <3> QED
        BY <3>1, <3>2, <3>3 DEF Request
    <2>2. CASE DispatchNow = {}
      BY <1>0, <2>2, MuNextFacts DEF Clock, MemoryUnitNext
    <2> QED
      BY <2>1, <2>2
  <1> QED
    BY <1>0, <1>1, <1>4, <1>5, <1>6, <1>7, <1>8 DEF TypeOK

\* A launch finds the pipeline and the memory unit empty, and leaves them so.
LEMMA LaunchStep ==
  ASSUME IInv, NEW tpb \in BlockSizes, NEW entry \in Entries, Launch(tpb, entry)
  PROVE  IInv'
  <1>0. /\ TypeOK /\ in_flight = {}
        /\ in_flight = {pf.warp, fr.warp, re.warp, mu.warp} \ {-1}
    BY OnceUnfolded DEF IInv, LiveInFlight, Launch
  <1>1. mu' = mu /\ mu.warp = -1
    BY <1>0 DEF Launch
  <1>2. pf' = Nothing /\ fr' = Nothing /\ re' = Nothing /\ in_flight' = {}
    BY DEF Launch
  <1>3. InFlightOnce'
    <2>1. Apart(pf'.warp, fr'.warp, re'.warp, mu'.warp)
          /\ in_flight' = {pf'.warp, fr'.warp, re'.warp, mu'.warp} \ {-1}
      BY <1>1, <1>2, WarpTypes DEF Apart
    <2> QED
      BY <2>1, OnceUnfolded
  <1>4. LiveInFlight' /\ DecisionHolds'
    BY <1>2 DEF LiveInFlight, DecisionHolds, Launch
  <1>5. \A w \in Warps : LaunchFrame(w, tpb, entry) \in Frame
    <2>1. entry \in Pcs
      BY CuAssumption, ImemAssumption DEF Pcs, PcSpace
    <2> QED
      BY <2>1, PcSpaceType DEF LaunchFrame, Frame, Present
  <1>6. stack' \in [Warps -> Seq(Frame)]
    <2>1. ASSUME NEW w \in Warps
          PROVE  /\ << LaunchFrame(w, tpb, entry) >> \in Seq(Frame)
                 /\ << >> \in Seq(Frame)
      BY <1>5
    <2> QED
      BY <2>1 DEF Launch
  <1>7. exited' \in [Warps -> SUBSET Lanes] /\ resident' \in SUBSET Warps
        /\ finished' \in SUBSET Warps /\ at_barrier' \in SUBSET Warps
        /\ running' \in BOOLEAN /\ block_done' \in BOOLEAN
        /\ imem' = imem /\ ptr' = ptr
    BY DEF Launch, ResidentOf
  <1>8. TypeOK'
    BY <1>0, <1>1, <1>2, <1>6, <1>7 DEF TypeOK, Slot
  <1> QED
    BY <1>3, <1>4, <1>8 DEF IInv

\* The invariant of the pipeline.
THEOREM PipelineInvariant == Spec => []IInv
  <1>1. Init => IInv
    <2> SUFFICES ASSUME Init PROVE IInv
      OBVIOUS
    <2>1. pf = Nothing /\ fr = Nothing /\ re = Nothing /\ mu = Idle /\ in_flight = {}
      BY DEF Init
    <2>2. InFlightOnce
      <3>1. Apart(pf.warp, fr.warp, re.warp, mu.warp)
            /\ in_flight = {pf.warp, fr.warp, re.warp, mu.warp} \ {-1}
        BY <2>1, WarpTypes DEF Apart
      <3> QED
        BY <3>1, OnceUnfolded
    <2>3. LiveInFlight /\ DecisionHolds
      BY <2>1 DEF Init, LiveInFlight, DecisionHolds
    <2>4. stack \in [Warps -> Seq(Frame)] /\ exited \in [Warps -> SUBSET Lanes]
      <3>1. << >> \in Seq(Frame)
        OBVIOUS
      <3> QED
        BY <3>1 DEF Init
    <2>5. imem \in Imem /\ ptr \in Warps
      BY CuAssumption DEF Init, Warps
    <2> QED
      BY <2>1, <2>2, <2>3, <2>4, <2>5 DEF Init, IInv, TypeOK, Slot, Request
  <1>2. IInv /\ [Next]_vars => IInv'
    <2> SUFFICES ASSUME IInv, [Next]_vars PROVE IInv'
      OBVIOUS
    <2>1. ASSUME NEW answered, Tick(answered) PROVE IInv'
      <3> PICK p \in Predicates, group \in Groups : Clock(p, group, answered)
        BY <2>1 DEF Tick
      <3> QED
        BY ClockType, ClockOnce, ClockLive, ClockDecision DEF IInv
    <2>2. ASSUME NEW tpb \in BlockSizes, NEW entry \in Entries, Launch(tpb, entry)
          PROVE  IInv'
      BY <2>2, LaunchStep
    <2>3. CASE UNCHANGED vars
      BY <2>3 DEF vars, IInv, TypeOK, InFlightOnce, Place, LiveInFlight, DecisionHolds
    <2> QED
      BY <2>1, <2>2, <2>3 DEF Next, Answer, Advance
  <1> QED
    BY <1>1, <1>2, PTL DEF Spec

\* Type correctness of the compute unit.
THEOREM CuTypeCorrect == Spec => []TypeOK
  BY PipelineInvariant, PTL DEF IInv

\* At most one instruction of a warp is in flight, and in_flight says of which.
THEOREM InFlightOnceHolds == Spec => []InFlightOnce
  BY PipelineInvariant, PTL DEF IInv

\* Only live warps that are not parked are in flight.
THEOREM LiveInFlightHolds == Spec => []LiveInFlight
  BY PipelineInvariant, PTL DEF IInv

\* What PICK decided is still so at EXEC.
THEOREM DecisionStillHolds == Spec => []DecisionHolds
  BY PipelineInvariant, PTL DEF IInv

\* When the block is reported done it is over: no resident warp is live, and nothing is
\* left in the pipeline or the memory unit. A parked warp would be released instead, an
\* unfinished one that is neither parked nor in flight would still be ready.
THEOREM DoneIsFinalHolds == Spec => []DoneIsFinal
  <1>1. Init => DoneIsFinal
    BY DEF Init, DoneIsFinal
  <1>2. IInv /\ IInv' /\ DoneIsFinal /\ [Next]_vars => DoneIsFinal'
    <2> SUFFICES ASSUME IInv, IInv', DoneIsFinal, [Next]_vars PROVE DoneIsFinal'
      OBVIOUS
    <2>1. ASSUME NEW answered, Tick(answered) PROVE DoneIsFinal'
      <3> PICK p \in Predicates, group \in Groups : Clock(p, group, answered)
        BY <2>1 DEF Tick
      <3>1. /\ block_done' => Complete
            /\ Complete => ~running'
            /\ resident' = resident /\ finished \subseteq finished'
        BY DEF Clock, DoneIsFinal
      <3>2. CASE ~Complete
        BY <3>1, <3>2 DEF DoneIsFinal
      <3>3. CASE Complete
        <4>1. resident \subseteq finished
          BY <3>3 DEF Complete, Quiet, Ready, Parked
        <4>2. pf' = Nothing /\ fr' = Nothing /\ re' = Nothing /\ mu'.warp = -1
          BY <3>3, PlacesNext
        <4>3. mu' = Idle
          BY <4>2, WarpTypes DEF IInv, TypeOK
        <4> QED
          BY <3>1, <3>3, <4>1, <4>2, <4>3 DEF DoneIsFinal
      <3> QED
        BY <3>2, <3>3
    <2>2. ASSUME NEW tpb \in BlockSizes, NEW entry \in Entries, Launch(tpb, entry)
          PROVE  DoneIsFinal'
      BY <2>2 DEF Launch, DoneIsFinal
    <2>3. CASE UNCHANGED vars
      BY <2>3 DEF vars, DoneIsFinal
    <2> QED
      BY <2>1, <2>2, <2>3 DEF Next, Answer, Advance
  <1> QED
    BY <1>1, <1>2, PipelineInvariant, PTL DEF Spec

------------------------------------------------------------------------------
(***************************************************************************)
(* The compute unit implements the atomic warp of SimtStack and the        *)
(* barrier of its block, for any number of warps and lanes and any         *)
(* program.                                                                *)
(***************************************************************************)

\* A parked warp belongs to the block: what the barrier waits for are its live warps.
ParkedResident == at_barrier \subseteq resident

\* What a clock makes of the warps at the barrier, at work and ended.
LEMMA BarrierClock ==
  ASSUME IInv, ParkedResident, NEW p \in Predicates, NEW group \in Groups, NEW answered,
         Clock(p, group, answered)
  PROVE  ParkedResident' /\ Block!Next
  <1> DEFINE live == resident \ finished
             over == IF MComplete THEN {mu.warp} ELSE {}
             end  == over \cup (Retiring \ DispatchNow)
  <1>1. /\ running /\ resident' = resident /\ finished' = finished \cup FinishedNow
        /\ running' <=> ~Complete
        /\ at_barrier' = IF Release THEN at_barrier \ live ELSE at_barrier \cup ParkNow
        /\ in_flight' = ((in_flight \ over) \cup IssuedNow) \ (Retiring \ DispatchNow)
    BY DEF Clock
  <1>2. in_flight \subseteq live \ at_barrier /\ at_barrier \subseteq live
    BY DEF IInv, LiveInFlight, ParkedResident
  <1>3. /\ Retiring \subseteq in_flight
        /\ FinishedNow \cup IssuedNow \subseteq Ready
        /\ Ready \subseteq live \ at_barrier /\ Ready \cap in_flight = {}
        /\ ParkNow \subseteq Retiring
        /\ IssuedNow = {} \/ FinishedNow = {}
    BY WhoMoves, PickFacts, ExecFacts DEF IInv
  <1>4. ParkNow # {} => DispatchNow = {}
    BY DEF ParkNow, DispatchNow, MemOps, SharedOps, GlobalOps
  <1>5. over \subseteq in_flight
    <2>1. MComplete => mu.warp # -1
      BY WarpTypes DEF MComplete, Busy, IInv, TypeOK
    <2> QED
      BY <2>1, OnceUnfolded DEF IInv
  <1>6. ParkedResident'
    BY <1>1, <1>2, <1>3 DEF ParkedResident
  <1>7. CASE ~Quiet
    <2>1. running' /\ at_barrier' = at_barrier \cup ParkNow
      BY <1>1, <1>7 DEF Complete, Release
    <2>2. /\ IssuedNow \cap (at_barrier \cup in_flight) = {}
          /\ end \subseteq in_flight /\ ParkNow \subseteq end
          /\ FinishedNow \cap (at_barrier \cup in_flight \cup IssuedNow) = {}
      BY <1>2, <1>3, <1>4, <1>5
    <2>3. /\ resident' \ finished' = live \ FinishedNow
          /\ in_flight' = (in_flight \cup IssuedNow) \ end
      BY <1>1, <1>3, <1>5
    <2>4. /\ IssuedNow \in SUBSET live /\ end \in SUBSET live
          /\ ParkNow \in SUBSET live /\ FinishedNow \in SUBSET live
      BY <1>2, <1>3, <1>5
    <2> HIDE DEF end
    <2>5. Block!Work
      BY <1>1, <2>1, <2>2, <2>3, <2>4 DEF Block!Work
    <2> QED
      BY <1>6, <2>5 DEF Block!Next
  <1>8. CASE Quiet
    <2>1. Ready = {} /\ in_flight = {}
      BY <1>8 DEF Quiet
    <2>2. at_barrier = live
      BY <1>2, <2>1 DEF Ready
    <2>3. resident' \ finished' = live /\ in_flight' = {} /\ ParkNow = {}
      BY <1>1, <1>3, <2>1
    <2>4. CASE live # {}
      <3>1. Release /\ ~Complete
        BY <1>8, <2>2, <2>4 DEF Release, Complete, Parked
      <3> QED
        BY <1>1, <1>6, <2>1, <2>2, <2>3, <2>4, <3>1 DEF Block!Open, Block!Next
    <2>5. CASE live = {}
      <3>1. Complete /\ ~Release
        BY <1>8, <2>5 DEF Release, Complete, Parked
      <3> QED
        BY <1>1, <1>6, <2>1, <2>2, <2>3, <2>5, <3>1 DEF Block!Over, Block!Next
    <2> QED
      BY <2>4, <2>5
  <1> QED
    BY <1>7, <1>8

\* The unit implements the barrier: it opens only when every live warp has reached it and
\* every instruction issued before it, memory accesses included, is over; and the block is
\* over only when no warp is live.
THEOREM BarrierImplemented == Spec => BarrierSpec
  <1>1. Init => ParkedResident /\ Block!Init
    BY DEF Init, ParkedResident, Block!Init
  <1>2. IInv /\ ParkedResident /\ [Next]_vars => ParkedResident' /\ [Block!Next]_Block!vars
    <2> SUFFICES ASSUME IInv, ParkedResident, [Next]_vars
                 PROVE  ParkedResident' /\ [Block!Next]_Block!vars
      OBVIOUS
    <2>1. ASSUME NEW answered, Tick(answered)
          PROVE  ParkedResident' /\ Block!Next
      BY <2>1, BarrierClock DEF Tick
    <2>2. ASSUME NEW tpb \in BlockSizes, NEW entry \in Entries, Launch(tpb, entry)
          PROVE  ParkedResident' /\ Block!Next
      <3>1. resident' \ finished' \in SUBSET Warps
        BY <2>2 DEF Launch, ResidentOf
      <3> QED
        BY <2>2, <3>1 DEF Launch, ParkedResident, Block!Next, Block!Launch
    <2>3. CASE UNCHANGED vars
      BY <2>3 DEF vars, ParkedResident, Block!vars
    <2> QED
      BY <2>1, <2>2, <2>3 DEF Next, Answer, Advance
  <1> QED
    BY <1>1, <1>2, PipelineInvariant, PTL DEF Spec, BarrierSpec, Block!Spec

-----------------------------------------------------------------------------
\* The operators on frames that the warp's module brings are the unit's own.
LEMMA SameFrames ==
  ASSUME NEW w \in Warps
  PROVE  /\ \A stk : /\ Warp(w)!Top(stk) = Top(stk)
                      /\ Warp(w)!PopFrame(stk) = PopFrame(stk)
         /\ \A stk, exd : Warp(w)!Active(stk, exd) = Active(stk, exd)
         /\ \A mem, pc : Warp(w)!Fetch(mem, pc) = Fetch(mem, pc)
         /\ \A act, insn, q : Warp(w)!GuardMask(act, insn, q) = GuardMask(act, insn, q)
         /\ \A stk, exd, insn, pc, gm :
              Warp(w)!ExecStack(stk, exd, insn, pc, gm) = ExecStack(stk, exd, insn, pc, gm)
         /\ \A exd, insn, gm : Warp(w)!ExecExited(exd, insn, gm) = ExecExited(exd, insn, gm)
  <1>1. \A stk : /\ Warp(w)!Top(stk) = Top(stk)
                 /\ Warp(w)!PopFrame(stk) = PopFrame(stk)
    BY DEF Warp!Top, Top, Warp!NoFrame, NoFrame, Warp!PopFrame, PopFrame
  <1>2. \A stk, exd : Warp(w)!Active(stk, exd) = Active(stk, exd)
    BY <1>1 DEF Warp!Active, Active
  <1>3. /\ \A mem, pc : Warp(w)!Fetch(mem, pc) = Fetch(mem, pc)
        /\ \A act, insn, q : Warp(w)!GuardMask(act, insn, q) = GuardMask(act, insn, q)
        /\ \A exd, insn, gm : Warp(w)!ExecExited(exd, insn, gm) = ExecExited(exd, insn, gm)
    BY DEF Warp!Fetch, Fetch, Warp!GuardMask, GuardMask, Warp!ExecExited, ExecExited
  <1>4. /\ \A pc, off : Warp(w)!BrTarget(pc, off) = BrTarget(pc, off)
        /\ \A pc : Warp(w)!NextPc(pc) = NextPc(pc)
        /\ Warp(w)!DONE = DONE
    BY DEF Warp!BrTarget, BrTarget, Warp!NextPc, NextPc, Warp!DONE, DONE, Warp!PcSpace, PcSpace
  <1>5. /\ \A stk, pc : Warp(w)!SetPc(stk, pc) = SetPc(stk, pc)
        /\ \A f : Warp(w)!ReconR(f) = ReconR(f)
        /\ \A stk, pc, target : Warp(w)!SsyStack(stk, pc, target) = SsyStack(stk, pc, target)
    BY <1>1, <1>4 DEF Warp!SetPc, SetPc, Warp!ReconR, ReconR, Warp!SsyStack, SsyStack
  <1>6. \A stk, act, gm, pc, target :
          Warp(w)!Diverge(stk, act, gm, pc, target) = Diverge(stk, act, gm, pc, target)
    BY <1>1, <1>4, <1>5 DEF Warp!Diverge, Diverge
  <1>7. \A stk, act, gm, pc, target :
          Warp(w)!BranchStack(stk, act, gm, pc, target) = BranchStack(stk, act, gm, pc, target)
    BY <1>4, <1>5, <1>6 DEF Warp!BranchStack, BranchStack
  <1>8. \A stk, exd, insn, pc, gm :
          Warp(w)!ExecStack(stk, exd, insn, pc, gm) = ExecStack(stk, exd, insn, pc, gm)
    BY <1>1, <1>2, <1>4, <1>5, <1>7 DEF Warp!ExecStack, ExecStack
  <1> QED
    BY <1>1, <1>2, <1>3, <1>8

\* On a clock a warp pops a frame, ends, retires the instruction PICK decided on, or rests.
LEMMA WarpClock ==
  ASSUME IInv, NEW p \in Predicates, NEW group \in Groups, NEW answered,
         Clock(p, group, answered), NEW w \in Warps
  PROVE  Warp(w)!Next \/ UNCHANGED Warp(w)!vars
  <1>1. /\ imem' = imem /\ finished' = finished \cup FinishedNow /\ WarpsNext(p)
        /\ TypeOK /\ DecisionHolds
    BY DEF Clock, IInv
  <1>2. /\ Retiring \subseteq in_flight
        /\ FinishedNow \cup PoppedNow \subseteq Ready /\ Ready \cap in_flight = {}
        /\ Ready \cap finished = {} /\ in_flight \cap finished = {}
    BY WhoMoves, PickFacts DEF IInv, LiveInFlight
  <1>3. CASE w \in PoppedNow
    <2>1. /\ w \notin Retiring /\ w \notin FinishedNow
          /\ PickPop(stack[w], exited[w])
      BY <1>2, <1>3 DEF PoppedNow, FinishedNow, Only, PickPop, PickFin
    <2>2. stack'[w] = PopFrame(stack[w]) /\ exited'[w] = exited[w]
      BY <1>1, <1>3, <2>1 DEF WarpsNext
    <2>3. /\ Warp(w)!PickPop(stack[w], exited[w])
          /\ Warp(w)!PopFrame(stack[w]) = PopFrame(stack[w])
      BY <2>1, SameFrames DEF Warp!PickPop, PickPop
    <2>4. (w \in finished') <=> (w \in finished)
      BY <1>1, <2>1
    <2>5. UNCHANGED << imem, exited[w], w \in finished >>
      BY <1>1, <2>2, <2>4
    <2>6. Warp(w)!Pop
      BY <2>2, <2>3, <2>5, Zenon DEF Warp!Pop
    <2> QED
      BY <2>6 DEF Warp!Next
  <1>4. CASE w \in FinishedNow
    <2>1. /\ w \notin Retiring /\ w \notin PoppedNow /\ PickFin(stack[w])
          /\ w \notin finished /\ w \in finished'
      BY <1>1, <1>2, <1>4 DEF PoppedNow, FinishedNow, Only, PickPop, PickFin
    <2>2. stack'[w] = stack[w] /\ exited'[w] = exited[w]
      BY <2>1, OthersKeep, <1>1
    <2>3. Warp(w)!PickFin(stack[w])
      BY <2>1 DEF Warp!PickFin, PickFin
    <2>4. (w \in finished)' = TRUE
      BY <2>1
    <2>5. UNCHANGED << imem, stack[w], exited[w] >>
      BY <1>1, <2>2
    <2>6. Warp(w)!Finish
      BY <2>1, <2>3, <2>4, <2>5, Zenon DEF Warp!Finish
    <2> QED
      BY <2>6 DEF Warp!Next
  <1>5. CASE w \in Retiring
    <2> DEFINE insn == InstrOf(re)
               gm   == GuardMask(ActiveE, insn, p)
    <2>1. /\ w \notin PoppedNow /\ w \notin FinishedNow
          /\ Full(re) /\ w = re.warp
      BY <1>1, <1>2, <1>5, ExecFacts
    <2>2. PickIssue(stack[w], exited[w]) /\ Top(stack[w]).pc = re.pc
      BY <1>1, <2>1 DEF DecisionHolds, Full
    <2>3. ActiveE = Active(stack[w], exited[w]) /\ p \in SUBSET ActiveE
      BY <2>1 DEF ActiveE, Predicates
    <2>4. insn = Fetch(imem, Top(stack[w]).pc)
      BY <2>2 DEF InstrOf
    <2>5. /\ stack'[w] = ExecStack(stack[w], exited[w], insn, re.pc, gm)
          /\ exited'[w] = ExecExited(exited[w], insn, gm)
      BY <1>1, <1>5, <2>1 DEF WarpsNext
    <2> HIDE DEF insn
    <2> HIDE DEF gm
    <2>7. /\ Warp(w)!PickIssue(stack[w], exited[w])
          /\ Warp(w)!Top(stack[w]).pc = re.pc
          /\ Warp(w)!Fetch(imem, re.pc) = insn
          /\ Warp(w)!Active(stack[w], exited[w]) = ActiveE
          /\ Warp(w)!GuardMask(ActiveE, insn, p) = gm
          /\ Warp(w)!ExecStack(stack[w], exited[w], insn, re.pc, gm) = stack'[w]
          /\ Warp(w)!ExecExited(exited[w], insn, gm) = exited'[w]
      BY <2>2, <2>3, <2>4, <2>5, SameFrames
      DEF gm, Warp!PickIssue, PickIssue, Warp!PickPop, PickPop
    <2>8. (w \in finished') <=> (w \in finished)
      BY <1>1, <2>1
    <2>9. UNCHANGED << imem, w \in finished >>
      BY <1>1, <2>8
    <2>10. Warp(w)!Exec(p)
      BY <2>7, <2>9, Zenon DEF Warp!Exec
    <2> QED
      BY <2>3, <2>7, <2>10 DEF Warp!Next
  <1>6. CASE w \notin PoppedNow \cup FinishedNow \cup Retiring
    <2>1. stack'[w] = stack[w] /\ exited'[w] = exited[w]
      BY <1>1, <1>6, OthersKeep
    <2>2. (w \in finished') <=> (w \in finished)
      BY <1>1, <1>6
    <2> QED
      BY <1>1, <2>1, <2>2 DEF Warp!vars
  <1> QED
    BY <1>3, <1>4, <1>5, <1>6

\* Though instructions of several warps overlap and stall each other, a clock gives every
\* warp one whole step of its own, or none.
THEOREM WarpsImplemented == Spec => WarpsAreSerial
  <1> DEFINE Serial == running => \A w \in resident : Warp(w)!Next \/ UNCHANGED Warp(w)!vars
  <1>1. IInv /\ [Next]_vars => [Serial]_vars
    <2> SUFFICES ASSUME IInv, Next PROVE Serial
      OBVIOUS
    <2>1. ASSUME NEW answered, Tick(answered) PROVE Serial
      <3> PICK p \in Predicates, group \in Groups : Clock(p, group, answered)
        BY <2>1 DEF Tick
      <3>1. \A w \in Warps : Warp(w)!Next \/ UNCHANGED Warp(w)!vars
        BY WarpClock
      <3>2. resident \subseteq Warps
        BY DEF IInv, TypeOK
      <3> QED
        BY <3>1, <3>2
    <2>2. ASSUME NEW tpb \in BlockSizes, NEW entry \in Entries, Launch(tpb, entry)
          PROVE  Serial
      BY <2>2 DEF Launch
    <2> QED
      BY <2>1, <2>2 DEF Next, Answer, Advance
  <1> QED
    BY <1>1, PipelineInvariant, PTL DEF Spec, WarpsAreSerial
==============================================================================
