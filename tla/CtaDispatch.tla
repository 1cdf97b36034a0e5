---------------------------- MODULE CtaDispatch ----------------------------
(***************************************************************************)
(* cta_dispatch: the dispatcher that hands the blocks of a grid to free    *)
(* compute units and flushes the caches when all are drained.  One step is *)
(* one clock of the dispatcher and of what it drives: compute units that   *)
(* take `start` unless they are running and are done after any number of   *)
(* clocks (CuCore), and caches that report their flush after a while       *)
(* (MemSystem).                                                            *)
(***************************************************************************)
EXTENDS Integers, FiniteSets

CONSTANTS NumCU,         \* NUM_CU
          GridSizes,     \* the values of grid_nx considered
          Descriptors    \* the pairs of tpb and entry considered

CUs == 0 .. NumCU - 1
L2  == NumCU             \* the L2, among the caches

ASSUME DispatchAssumption ==
  /\ NumCU \in Nat \ {0}
  /\ GridSizes \subseteq Nat

VARIABLES
  dstate, nx_q, next_bidx,
  launched, flush_seen,       \* sets of compute units
  cu_start,                   \* the compute units that see a start pulse
  cu_bidx,                    \* the block index driven to each
  desc,                       \* cu_tpb and cu_entry
  cu_flush, grid_done,        \* pulses; l2_flush is cu_flush
  running, cu_done,           \* the compute units' running and block_done
  flushing, reports,          \* the L1s still walking, and those reporting
  l2_flushing, l2_report,
  cached                      \* the caches that may hold data: L1s, and L2

dispatchVars == << dstate, nx_q, next_bidx, launched, flush_seen, cu_start, cu_bidx,
                   desc, cu_flush, grid_done >>
unitVars     == << running, cu_done, flushing, reports, l2_flushing, l2_report, cached >>
vars == << dispatchVars, unitVars >>

-----------------------------------------------------------------------------
\* The compute units and the caches on a clock on which the blocks of `over` end,
\* the L1s in rep finish their walk, and the L2 does or does not.
Started == cu_start \ running

Units(over, rep, l2rep) ==
  /\ running' = (running \ over) \cup Started
  /\ cu_done' = (cu_done \cup over) \ Started
  /\ flushing' = (IF cu_flush THEN CUs ELSE flushing \ rep)
  /\ reports' = rep
  /\ l2_flushing' = (cu_flush \/ (l2_flushing /\ ~l2rep))
  /\ l2_report' = l2rep
  /\ cached' = ((cached \cup Started \cup (IF Started # {} THEN {L2} ELSE {})) \ rep)
                  \ (IF l2rep THEN {L2} ELSE {})

\* What the environment may do on a clock.  The L2's walk is not the shorter one:
\* it has no fewer sets than an L1 (FlushEnds in MemSystem).
Tick(over, rep, l2rep) ==
  /\ over \subseteq running /\ rep \subseteq flushing
  /\ l2rep => l2_flushing /\ flushing \subseteq rep
  /\ Units(over, rep, l2rep)

-----------------------------------------------------------------------------
\* Fault: a unit is free while its start pulse is on the way.
FreeCUs_Pulsed == {c \in CUs : c \notin launched \/ c \in cu_done}
FreeCUs == {c \in CUs : c \notin launched \/ c \in cu_done} \ cu_start

\* Fault: the drain does not wait for a start pulse on the way.
Drained_Pulsed == (CUs \ launched) \cup cu_done = CUs
Drained == (CUs \ launched) \cup cu_done = CUs /\ cu_start = {}

\* Fault: a report counts only in its own clock.
Seen_Now == reports
Seen == flush_seen \cup reports

\* The registered outputs are pulses: low unless set on this clock.
NoPulse == cu_start' = {} /\ cu_flush' = FALSE /\ grid_done' = FALSE

\* D_IDLE, no launch.
Wait ==
  /\ dstate = "IDLE"
  /\ NoPulse
  /\ UNCHANGED << dstate, nx_q, next_bidx, launched, flush_seen, cu_bidx, desc >>

\* D_IDLE, launch: an empty grid is done at once.
Launch(nx, d) ==
  /\ dstate = "IDLE"
  /\ nx_q' = nx /\ next_bidx' = 0 /\ desc' = d /\ launched' = {}
  /\ cu_start' = {} /\ cu_flush' = FALSE
  /\ grid_done' = (nx = 0)
  /\ dstate' = IF nx = 0 THEN "IDLE" ELSE "DISPATCH"
  /\ UNCHANGED << flush_seen, cu_bidx >>

\* Fault: the last block is recognised one block late.
LastBlock_Late == next_bidx >= nx_q
LastBlock == next_bidx + 1 >= nx_q

\* D_DISPATCH: the next block goes to the first free unit.
Dispatch ==
  /\ dstate = "DISPATCH" /\ FreeCUs # {}
  /\ LET c == CHOOSE c \in FreeCUs : \A e \in FreeCUs : c <= e
     IN  /\ cu_start' = {c}
         /\ cu_bidx' = [cu_bidx EXCEPT ![c] = next_bidx]
         /\ launched' = launched \cup {c}
  /\ next_bidx' = next_bidx + 1
  /\ dstate' = IF LastBlock THEN "DRAIN" ELSE "DISPATCH"
  /\ cu_flush' = FALSE /\ grid_done' = FALSE
  /\ UNCHANGED << nx_q, flush_seen, desc >>

Occupied ==
  /\ dstate = "DISPATCH" /\ FreeCUs = {}
  /\ NoPulse
  /\ UNCHANGED << dstate, nx_q, next_bidx, launched, flush_seen, cu_bidx, desc >>

\* D_DRAIN: all units are done, and every cache is told to flush.
Drain ==
  /\ dstate = "DRAIN" /\ Drained
  /\ cu_flush' = TRUE /\ flush_seen' = {} /\ dstate' = "FLUSH"
  /\ cu_start' = {} /\ grid_done' = FALSE
  /\ UNCHANGED << nx_q, next_bidx, launched, cu_bidx, desc >>

Undrained ==
  /\ dstate = "DRAIN" /\ ~Drained
  /\ NoPulse
  /\ UNCHANGED << dstate, nx_q, next_bidx, launched, flush_seen, cu_bidx, desc >>

\* Fault: the grid is reported with the flush pulses.
FlushPulse_Reports ==
  /\ dstate = "FLUSH" /\ dstate' = "FWAIT"
  /\ cu_start' = {} /\ cu_flush' = FALSE /\ grid_done' = TRUE
  /\ UNCHANGED << nx_q, next_bidx, launched, flush_seen, cu_bidx, desc >>

\* D_FLUSH: the pulses are on the way.
FlushPulse ==
  /\ dstate = "FLUSH" /\ dstate' = "FWAIT"
  /\ NoPulse
  /\ UNCHANGED << nx_q, next_bidx, launched, flush_seen, cu_bidx, desc >>

\* D_FWAIT: the grid is done when the L2 reports and every L1 has.
FlushWait ==
  /\ dstate = "FWAIT"
  /\ flush_seen' = Seen
  /\ grid_done' = (Seen = CUs /\ l2_report)
  /\ dstate' = IF grid_done' THEN "IDLE" ELSE "FWAIT"
  /\ cu_start' = {} /\ cu_flush' = FALSE
  /\ UNCHANGED << nx_q, next_bidx, launched, cu_bidx, desc >>

Busy == Dispatch \/ Occupied \/ Drain \/ Undrained \/ FlushPulse \/ FlushWait

-----------------------------------------------------------------------------
Init ==
  /\ dstate = "IDLE" /\ nx_q = 0 /\ next_bidx = 0
  /\ launched = {} /\ flush_seen = {} /\ cu_start = {}
  /\ cu_bidx = [c \in CUs |-> 0] /\ desc \in Descriptors
  /\ cu_flush = FALSE /\ grid_done = FALSE
  /\ running = {} /\ cu_done = {}
  /\ flushing = {} /\ reports = {} /\ l2_flushing = FALSE /\ l2_report = FALSE
  /\ cached = {}

Idle == Wait \/ \E nx \in GridSizes, d \in Descriptors : Launch(nx, d)

Next == \E over \in SUBSET running, rep \in SUBSET flushing, l2rep \in BOOLEAN :
          Tick(over, rep, l2rep) /\ (Idle \/ Busy)
Spec == Init /\ [][Next]_vars

-----------------------------------------------------------------------------
TypeOK ==
  /\ dstate \in {"IDLE", "DISPATCH", "DRAIN", "FLUSH", "FWAIT"}
  /\ nx_q \in Nat /\ next_bidx \in 0 .. nx_q
  /\ launched \subseteq CUs /\ flush_seen \subseteq CUs /\ cu_start \subseteq CUs
  /\ cu_bidx \in [CUs -> Nat] /\ desc \in Descriptors
  /\ cu_flush \in BOOLEAN /\ grid_done \in BOOLEAN
  /\ running \subseteq CUs /\ cu_done \subseteq CUs
  /\ flushing \subseteq CUs /\ reports \subseteq CUs
  /\ l2_flushing \in BOOLEAN /\ l2_report \in BOOLEAN
  /\ cached \subseteq CUs \cup {L2}

------------------------------------------------------------------------------
\* What the dispatcher, its compute units and its caches implement.
\* A grid is executed: its blocks that have not begun are those not yet handed
\* out and those whose start pulse is on the way.
Grid == INSTANCE GridExecution WITH
          open     <- dstate # "IDLE",
          todo     <- {b \in 0 .. nx_q - 1 : b >= next_bidx} \cup {cu_bidx[c] : c \in cu_start},
          busy     <- [c \in CUs |-> IF c \in running
                                     THEN [block |-> cu_bidx[c], desc |-> desc]
                                     ELSE [block |-> -1]],
          reported <- grid_done

\* Every block of a grid runs exactly once, to its end, under one index and one
\* launch descriptor that do not change under it; and grid_done is pulsed once,
\* after the last block has ended and every cache has been flushed.
GridSpec == Grid!Spec
=============================================================================
