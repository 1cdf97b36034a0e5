------------------------------- MODULE CuCore -------------------------------
(***************************************************************************)
(* The compute unit: resident warps on a barrel pipeline                   *)
(*                                                                         *)
(*     PICK -> FETCH -> READ -> EXEC -> (memory unit)                      *)
(*                                                                         *)
(* with a round-robin scheduler, one in-flight bit per warp, a memory unit *)
(* that runs beside the pipeline, and the block-wide barrier.  One step of *)
(* the model is one clock: every register is given its next value from the *)
(* values before the edge.  Operand values are abstract: a guarded         *)
(* instruction may find its predicate true on any lanes, a global access   *)
(* may find any of its lanes on the leader's line, and the L1 answers      *)
(* after any number of clocks.                                             *)
(***************************************************************************)
EXTENDS SimtFrames, RoundRobin

CONSTANTS NumWarps,    \* NUM_WARPS
          Programs,    \* the instruction memories considered
          Entries,     \* the entry points considered
          BlockSizes   \* the threads-per-block counts considered

Warps    == 0 .. NumWarps - 1
WarpSize == Cardinality(Lanes)

ASSUME CuAssumption ==
  /\ NumWarps \in Nat \ {0}
  /\ Lanes = 0 .. WarpSize - 1
  /\ Programs \subseteq Imem
  /\ Entries \subseteq 0 .. ImemWords - 1
  /\ BlockSizes \subseteq Nat

VARIABLES
  imem,                                        \* loaded before the launch
  running, block_done,
  stack, exited,                               \* per warp
  resident, finished, at_barrier, in_flight,   \* sets of warps
  ptr,                                         \* warp_sched's pointer
  pf, fr, re,                                  \* the pipeline registers
  mu                                           \* the memory unit

warpVars == << stack, exited >>
vars == << imem, running, block_done, stack, exited, resident, finished,
           at_barrier, in_flight, ptr, pf, fr, re, mu >>

\* A pipeline register holds an instruction of one warp, or nothing
\* (pf_valid, fr_valid, re_valid low).
Nothing == [warp |-> -1, pc |-> 0]
Slot    == [warp : Warps, pc : Pcs] \cup {Nothing}
Full(s) == s # Nothing

\* The memory unit's request: the lanes still to serve, and the lanes of the
\* line transaction the L1 is working on (c_wait is wait; {} without one).
Idle    == [warp |-> -1, op |-> "none", pending |-> {}, wait |-> FALSE, match |-> {}]
Request == [warp : Warps, op : MemOps, pending : SUBSET Lanes,
            wait : BOOLEAN, match : SUBSET Lanes] \cup {Idle}
Busy    == mu # Idle

LowestLane(s) == CHOOSE l \in s : \A k \in s : l <= k

-----------------------------------------------------------------------------
\* The memory unit.
Shared    == mu.op \in SharedOps
MStep     == Busy /\ Shared /\ mu.pending # {}
GReq      == Busy /\ ~Shared /\ ~mu.wait /\ mu.pending # {}
MComplete == Busy /\ mu.pending = {} /\ ~mu.wait

\* The lanes one line transaction may cover: the leader and any pending lanes
\* that fall on its line, but a single lane for an atomic.
Groups ==
  IF ~GReq THEN {{}}
  ELSE LET leader == LowestLane(mu.pending)
       IN  IF mu.op = "ATOMG" THEN {{leader}}
           ELSE {g \in SUBSET mu.pending : leader \in g}

\* Faults: the completed request's warp stays recorded; the answer leaves the unit
\* waiting.
MuNext_KeepsWarp(group, answered) ==
  IF MStep THEN [mu EXCEPT !.pending = @ \ {LowestLane(@)}]
  ELSE IF GReq THEN [mu EXCEPT !.wait = TRUE, !.match = group]
  ELSE IF mu.wait /\ answered THEN [mu EXCEPT !.pending = @ \ mu.match, !.wait = FALSE, !.match = {}]
  ELSE IF MComplete THEN [Idle EXCEPT !.warp = mu.warp]
  ELSE mu
MuNext_KeepsWait(group, answered) ==
  IF MStep THEN [mu EXCEPT !.pending = @ \ {LowestLane(@)}]
  ELSE IF GReq THEN [mu EXCEPT !.wait = TRUE, !.match = group]
  ELSE IF mu.wait /\ answered THEN [mu EXCEPT !.pending = @ \ mu.match, !.match = {}]
  ELSE IF MComplete THEN Idle
  ELSE mu

\* The unit's request after this clock, were no new one dispatched.
MuNext(group, answered) ==
  IF MStep THEN [mu EXCEPT !.pending = @ \ {LowestLane(@)}]
  ELSE IF GReq THEN [mu EXCEPT !.wait = TRUE, !.match = group]
  ELSE IF mu.wait /\ answered THEN [mu EXCEPT !.pending = @ \ mu.match, !.wait = FALSE, !.match = {}]
  ELSE IF MComplete THEN Idle
  ELSE mu

-----------------------------------------------------------------------------
\* PICK.
\* Faults: a warp in flight, or a warp at the barrier, is offered again.
Ready_InFlight == (resident \ finished) \ at_barrier
Ready_Parked   == (resident \ finished) \ in_flight
Ready   == ((resident \ finished) \ at_barrier) \ in_flight
InstrOf(s) == Fetch(imem, s.pc)
\* Fault: EXEC does not wait for the memory unit.
Stall_Never == FALSE
Stall   == Full(re) /\ InstrOf(re).op \in MemOps /\ Busy /\ ~MComplete
PickAct == Ready # {} /\ ~Stall
Sel     == Select(Ready, ptr, NumWarps)

Only(w, c) == IF c THEN {w} ELSE {}
FinishedNow == IF PickAct THEN Only(Sel, PickFin(stack[Sel])) ELSE {}
PoppedNow   == IF PickAct THEN Only(Sel, PickPop(stack[Sel], exited[Sel])) ELSE {}
IssuedNow   == IF PickAct THEN Only(Sel, PickIssue(stack[Sel], exited[Sel])) ELSE {}

\* EXEC: the warp that retires an instruction on this clock, and what it is.
Retiring   == IF Full(re) /\ ~Stall THEN {re.warp} ELSE {}
\* Fault: the lanes that have exited still execute.
ActiveE_Exited == Top(stack[re.warp]).mask
ActiveE    == Active(stack[re.warp], exited[re.warp])
DispatchNow == IF Retiring # {} /\ InstrOf(re).op \in MemOps THEN Retiring ELSE {}
ParkNow     == IF Retiring # {} /\ InstrOf(re).op = "BAR" THEN Retiring ELSE {}

\* The predicate values EXEC may see.
Predicates == IF Retiring # {} /\ InstrOf(re).guarded THEN SUBSET ActiveE ELSE {{}}

\* Nothing can be picked and nothing is on its way: the barrier opens, or the
\* block is over.
\* Faults: what is in flight is not waited for; a parked warp counts as gone.
Quiet_NoDrain  == Ready = {}
Parked_Gone    == (resident \cap finished) \cap at_barrier
Quiet    == Ready = {} /\ in_flight = {}
Parked   == (resident \ finished) \cap at_barrier
Release  == Quiet /\ Parked # {}
Complete == Quiet /\ Parked = {}

\* The warp's own state after this clock, the predicate being true on p.
WarpsNext(p) ==
  LET insn == InstrOf(re)
      gm   == GuardMask(ActiveE, insn, p)
  IN  /\ stack' = [w \in Warps |->
           IF w \in PoppedNow THEN PopFrame(stack[w])
           ELSE IF w \in Retiring THEN ExecStack(stack[w], exited[w], insn, re.pc, gm)
           ELSE stack[w]]
      /\ exited' = [w \in Warps |->
           IF w \in Retiring THEN ExecExited(exited[w], insn, gm) ELSE exited[w]]

\* Fault: READ takes the next instruction during a stall.
PipelineNext_Drops ==
  /\ pf' = IF Complete THEN Nothing
           ELSE IF Stall THEN pf
           ELSE IF IssuedNow # {} THEN [warp |-> Sel, pc |-> Top(stack[Sel]).pc]
           ELSE Nothing
  /\ fr' = IF Complete THEN Nothing ELSE pf
  /\ re' = IF Complete THEN Nothing ELSE IF Stall THEN re ELSE fr
PipelineNext ==
  /\ pf' = IF Complete THEN Nothing
           ELSE IF Stall THEN pf
           ELSE IF IssuedNow # {} THEN [warp |-> Sel, pc |-> Top(stack[Sel]).pc]
           ELSE Nothing
  /\ fr' = IF Complete THEN Nothing ELSE IF Stall THEN fr ELSE pf
  /\ re' = IF Complete THEN Nothing ELSE IF Stall THEN re ELSE fr

\* A dispatch overrides what the unit would have done: it may take over on the
\* very clock on which the previous request completes.
MemoryUnitNext(p, group, answered) ==
  mu' = IF DispatchNow # {}
        THEN [warp |-> re.warp, op |-> InstrOf(re).op,
              pending |-> GuardMask(ActiveE, InstrOf(re), p),
              wait |-> FALSE, match |-> {}]
        ELSE MuNext(group, answered)

\* One clock while a block is resident.
Clock(p, group, answered) ==
  /\ running
  /\ WarpsNext(p)
  /\ PipelineNext
  /\ MemoryUnitNext(p, group, answered)
  /\ ptr' = IF PickAct THEN Sel ELSE ptr
  /\ finished' = finished \cup FinishedNow
  /\ in_flight' = ((in_flight \ (IF MComplete THEN {mu.warp} ELSE {})) \cup IssuedNow)
                     \ (Retiring \ DispatchNow)
  /\ at_barrier' = IF Release THEN at_barrier \ (resident \ finished)
                   ELSE at_barrier \cup ParkNow
  /\ running' = ~Complete
  /\ block_done' = (block_done \/ Complete)
  /\ UNCHANGED << imem, resident >>

-----------------------------------------------------------------------------
\* The launch of a block of tpb threads; `start` is ignored while one runs.
\* The memory unit and the scheduler's pointer are left as they are.
Present(w, tpb)  == {l \in Lanes : w * WarpSize + l < tpb}
ResidentOf(tpb)  == {w \in Warps : w * WarpSize < tpb}
LaunchFrame(w, tpb, entry) ==
  [mask |-> Present(w, tpb), pc |-> entry, rpc |-> DONE, pend |-> DONE]

Launch(tpb, entry) ==
  /\ ~running
  /\ stack' = [w \in Warps |-> IF w \in ResidentOf(tpb)
                                THEN << LaunchFrame(w, tpb, entry) >> ELSE << >>]
  /\ exited' = [w \in Warps |-> Lanes \ Present(w, tpb)]
  /\ resident' = ResidentOf(tpb)
  /\ finished' = Warps \ ResidentOf(tpb)
  /\ at_barrier' = {} /\ in_flight' = {}
  /\ pf' = Nothing /\ fr' = Nothing /\ re' = Nothing
  /\ block_done' = FALSE /\ running' = TRUE
  /\ UNCHANGED << imem, ptr, mu >>

\* Reset.
Init ==
  /\ imem \in Programs
  /\ running = FALSE /\ block_done = FALSE
  /\ stack = [w \in Warps |-> << >>] /\ exited = [w \in Warps |-> {}]
  /\ resident = {} /\ finished = Warps /\ at_barrier = {} /\ in_flight = {}
  /\ ptr = 0
  /\ pf = Nothing /\ fr = Nothing /\ re = Nothing
  /\ mu = Idle

Tick(answered) ==
  \E p \in Predicates, group \in Groups : Clock(p, group, answered)

\* The L1 answers on this clock, or it does not.
Answer  == mu.wait /\ Tick(TRUE)
Advance == Tick(FALSE)

Next == Answer \/ Advance
        \/ \E tpb \in BlockSizes, entry \in Entries : Launch(tpb, entry)

Spec == Init /\ [][Next]_vars

\* The clock never stops, and the memory below the unit answers eventually
\* (MemSystem).
FairSpec == Spec /\ WF_vars(Answer \/ Advance) /\ WF_vars(Answer)

-----------------------------------------------------------------------------
TypeOK ==
  /\ imem \in Imem
  /\ running \in BOOLEAN /\ block_done \in BOOLEAN
  /\ stack \in [Warps -> Seq(Frame)]
  /\ exited \in [Warps -> SUBSET Lanes]
  /\ resident \in SUBSET Warps /\ finished \in SUBSET Warps
  /\ at_barrier \in SUBSET Warps /\ in_flight \in SUBSET Warps
  /\ ptr \in Warps
  /\ pf \in Slot /\ fr \in Slot /\ re \in Slot
  /\ mu \in Request

\* Where the instructions in flight are: a warp, or -1, for each place.
Place == << pf.warp, fr.warp, re.warp, mu.warp >>

\* A warp has at most one instruction between PICK and retirement, and in_flight
\* says exactly which warps have one: "the per-warp in-flight bit is the
\* scoreboard".  Nothing is dropped by a stall, by a dispatch that takes the
\* memory unit over as it completes, or by the end of the block.  It subsumes
\* the assertions a_exec_inflight, a_mem_inflight and a_wports_disjoint.
InFlightOnce ==
  /\ \A i, j \in 1 .. 4 : i # j /\ Place[i] # -1 => Place[i] # Place[j]
  /\ in_flight = {Place[i] : i \in 1 .. 4} \ {-1}

\* A warp in flight is live and not parked, a finished warp is never parked
\* (a_bar_fin), and without a block nothing is in flight.
LiveInFlight ==
  /\ in_flight \subseteq (resident \ finished) \ at_barrier
  /\ finished \cap at_barrier = {}
  /\ ~running => in_flight = {}

\* What PICK decided still holds at EXEC, three clocks and any number of stalls
\* later: the frame it read is still on top, at the pc that was fetched, with
\* lanes to execute for ("its own state can't change in flight").
DecisionHolds ==
  \A s \in {pf, fr, re} \ {Nothing} :
     /\ PickIssue(stack[s.warp], exited[s.warp])
     /\ Top(stack[s.warp]).pc = s.pc

\* When the block is reported done, every resident warp is finished and nothing
\* is left in the pipeline or the memory unit.
DoneIsFinal ==
  block_done => /\ ~running
                /\ resident \subseteq finished
                /\ {pf, fr, re} = {Nothing} /\ mu = Idle

-----------------------------------------------------------------------------
\* A warp that is ready is picked, whatever the others do.
NoStarvation == \A w \in Warps : (running /\ w \in Ready) ~> (w \notin Ready)

\* A block whose program only branches forward is completed: no warp is left
\* behind a barrier, a stall or the memory unit.
Completes == running ~> block_done

------------------------------------------------------------------------------
\* What the unit implements: for each warp the atomic warp of SimtStack, and for the block
\* the barrier of BlockBarrier.

\* Each warp of the unit is the warp of SimtStack: though instructions of several
\* warps overlap and stall each other, a clock gives every warp one whole step
\* of its own (a pop, a retired instruction, its end), or none.
Warp(w) == INSTANCE SimtStack WITH
             stack <- stack[w], exited <- exited[w], finished <- w \in finished,
             StackDepth <- 2 * WarpSize

WarpsAreSerial ==
  [][running => \A w \in resident : Warp(w)!Next \/ UNCHANGED Warp(w)!vars]_vars

\* The block as its kernel sees it: warps that work, wait at the barrier and end.
Block == INSTANCE BlockBarrier WITH
           open <- running,
           live <- resident \ finished,
           waiting <- at_barrier,
           working <- in_flight

\* The barrier opens only when every live warp has reached it and every
\* instruction issued before it, memory accesses included, is over.
BarrierSpec == Block!Spec
=============================================================================
