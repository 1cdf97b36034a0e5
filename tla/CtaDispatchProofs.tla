------------------------- MODULE CtaDispatchProofs -------------------------
(***************************************************************************)
(* The block dispatcher, for any number of compute units and any grids:    *)
(* every block runs once and is reported only when all have ended and the  *)
(* caches are clean.                                                       *)
(***************************************************************************)
EXTENDS CtaDispatch, RoundRobinProofs, FiniteSetTheorems

\* The units: a start pulse goes to one unit, which is not running; the done level of a
\* unit that runs is down, so that a unit that looks free or drained is.
UnitsInv ==
  /\ cu_start \cap running = {} /\ \A c, e \in cu_start : c = e
  /\ running \cup cu_start \subseteq launched
  /\ running \cap cu_done = {}
  /\ \A c \in cu_start : cu_bidx[c] < next_bidx

\* The phases of a grid: blocks are left only while they are handed out, and no unit is
\* at work when the caches are.
PhaseInv ==
  /\ dstate = "DISPATCH" => next_bidx < nx_q
  /\ dstate # "DISPATCH" => next_bidx = nx_q
  /\ dstate \notin {"DISPATCH", "DRAIN"} => running = {} /\ cu_start = {}
  /\ grid_done => dstate = "IDLE"

\* The caches: they walk only while the dispatcher waits, what is not walking any more is
\* clean, and the L2 is the last.
CacheInv ==
  /\ cu_flush <=> dstate = "FLUSH"
  /\ dstate # "FWAIT" => flushing = {} /\ ~l2_flushing /\ ~l2_report
  /\ l2_report => flushing = {} /\ ~l2_flushing
  /\ dstate = "FWAIT" =>
       /\ \A c \in cached \cap CUs : c \in flushing
       /\ L2 \in cached => l2_flushing
  /\ dstate = "IDLE" => cached = {}

IInv == TypeOK /\ UnitsInv /\ PhaseInv /\ CacheInv

LEMMA L2Apart == L2 \notin CUs
  BY DispatchAssumption DEF L2, CUs

LEMMA Initially == Init => IInv
  <1> SUFFICES ASSUME Init PROVE IInv
    OBVIOUS
  <1>1. TypeOK
    <2>1. nx_q \in Nat /\ next_bidx \in 0 .. nx_q
      BY DEF Init
    <2>2. /\ cu_flush \in BOOLEAN /\ grid_done \in BOOLEAN
          /\ l2_flushing \in BOOLEAN /\ l2_report \in BOOLEAN
      BY Zenon DEF Init
    <2>3. cu_bidx \in [CUs -> Nat]
      BY DEF Init
    <2> QED
      BY <2>1, <2>2, <2>3 DEF Init, TypeOK
  <1>2. UnitsInv /\ PhaseInv
    BY DEF Init, UnitsInv, PhaseInv
  <1>3. CacheInv
    BY Zenon DEF Init, CacheInv
  <1> QED
    BY <1>1, <1>2, <1>3 DEF IInv

-----------------------------------------------------------------------------
\* One clock of the units and the caches.
Clock == \E over \in SUBSET running, rep \in SUBSET flushing, l2rep \in BOOLEAN : Tick(over, rep, l2rep)

\* A unit runs on or is started by its pulse, and its done level is down while it runs;
\* nothing becomes clean before the walk, nothing is filled without a start pulse, and in
\* the walk what has become clean has reported.
LEMMA ClockStep ==
  ASSUME IInv, Clock
  PROVE  /\ cu_start \subseteq running' /\ running' \subseteq running \cup cu_start
         /\ running' \cap cu_done' = {}
         /\ running' \subseteq CUs /\ cu_done' \subseteq CUs
         /\ flushing' \subseteq CUs /\ reports' \subseteq CUs
         /\ l2_flushing' \in BOOLEAN /\ l2_report' \in BOOLEAN
         /\ cached' \subseteq CUs \cup {L2}
         /\ dstate \notin {"FLUSH", "FWAIT"} =>
              flushing' = {} /\ l2_flushing' = FALSE /\ l2_report' = FALSE /\ cached \subseteq cached'
         /\ cu_start = {} => cached' \subseteq cached
         /\ dstate = "FLUSH" => l2_flushing' = TRUE /\ l2_report' = FALSE /\ flushing' = CUs
         /\ dstate = "FWAIT" =>
              /\ l2_report' => flushing' = {} /\ ~l2_flushing'
              /\ \A c \in cached' \cap CUs : c \in flushing'
              /\ L2 \in cached' => l2_flushing'
         /\ dstate = "FWAIT" /\ l2_report =>
              cached' = {} /\ flushing' = {} /\ ~l2_flushing' /\ ~l2_report'
  <1>0. PICK over \in SUBSET running, rep \in SUBSET flushing, l2rep \in BOOLEAN : Tick(over, rep, l2rep)
    BY Zenon DEF Clock
  <1>1. Started = cu_start
    BY DEF IInv, UnitsInv, Started
  <1>2. /\ Units(over, rep, l2rep)
        /\ l2rep => l2_flushing /\ flushing \subseteq rep
    BY <1>0, Zenon DEF Tick
  <1>3. /\ running' = (running \ over) \cup cu_start
        /\ cu_done' = (cu_done \cup over) \ cu_start
        /\ flushing' = IF cu_flush THEN CUs ELSE flushing \ rep
        /\ reports' = rep
        /\ cached' = ((cached \cup cu_start \cup (IF cu_start # {} THEN {L2} ELSE {})) \ rep)
                        \ (IF l2rep THEN {L2} ELSE {})
    BY <1>1, <1>2, Zenon DEF Units
  <1>4. l2_flushing' = (cu_flush \/ (l2_flushing /\ ~l2rep)) /\ l2_report' = l2rep
    BY <1>2, Zenon DEF Units
  <1>5. TypeOK /\ UnitsInv /\ PhaseInv /\ CacheInv
    BY DEF IInv
  <1>6. /\ running' \cap cu_done' = {} /\ running' \subseteq CUs /\ cu_done' \subseteq CUs
        /\ flushing' \subseteq CUs /\ reports' \subseteq CUs /\ cached' \subseteq CUs \cup {L2}
        /\ cu_start \subseteq running' /\ running' \subseteq running \cup cu_start
    BY <1>3, <1>5 DEF TypeOK, UnitsInv
  <1>7. l2_flushing' \in BOOLEAN /\ l2_report' \in BOOLEAN
    BY <1>4, Zenon
  <1>8. ASSUME dstate \notin {"FLUSH", "FWAIT"}
        PROVE  flushing' = {} /\ l2_flushing' = FALSE /\ l2_report' = FALSE /\ cached \subseteq cached'
    <2>1. ~cu_flush /\ flushing = {} /\ ~l2_flushing
      BY <1>5, <1>8 DEF CacheInv
    <2>2. ~l2rep
      BY <1>2, <2>1
    <2>3. flushing' = {} /\ cached \subseteq cached'
      BY <1>3, <2>1, <2>2
    <2> QED
      BY <1>4, <2>1, <2>2, <2>3, Zenon
  <1>9. ASSUME dstate = "FLUSH"
        PROVE  l2_flushing' = TRUE /\ l2_report' = FALSE /\ flushing' = CUs
    <2>1. cu_flush /\ ~l2_flushing
      BY <1>5, <1>9 DEF CacheInv
    <2>2. ~l2rep
      BY <1>2, <2>1
    <2> QED
      BY <1>3, <1>4, <2>1, <2>2, Zenon
  <1>10. ASSUME dstate = "FWAIT"
         PROVE  /\ l2_report' => flushing' = {} /\ ~l2_flushing'
                /\ \A c \in cached' \cap CUs : c \in flushing'
                /\ L2 \in cached' => l2_flushing'
    <2>1. ~cu_flush /\ cu_start = {}
      BY <1>5, <1>10 DEF CacheInv, PhaseInv
    <2>2. (\A c \in cached \cap CUs : c \in flushing) /\ (L2 \in cached => l2_flushing)
      BY <1>5, <1>10 DEF CacheInv
    <2>3. flushing' = flushing \ rep /\ cached' = (cached \ rep) \ (IF l2rep THEN {L2} ELSE {})
      BY <1>3, <2>1
    <2>4. l2_flushing' <=> l2_flushing /\ ~l2rep
      BY <1>4, <2>1, Zenon
    <2>5. l2_report' => flushing' = {} /\ ~l2_flushing'
      <3>1. l2rep => flushing' = {}
        BY <1>2, <2>3
      <3> QED
        BY <1>4, <2>4, <3>1, Zenon
    <2>6. \A c \in cached' \cap CUs : c \in flushing'
      BY <2>2, <2>3
    <2>7. L2 \in cached' => L2 \in cached /\ ~l2rep
      BY <2>3
    <2> QED
      BY <2>2, <2>4, <2>5, <2>6, <2>7, Zenon
  <1>11. cu_start = {} => cached' \subseteq cached
    BY <1>3
  <1>12. ASSUME dstate = "FWAIT", l2_report
         PROVE  cached' = {} /\ flushing' = {} /\ ~l2_flushing' /\ ~l2_report'
    <2>1. ~cu_flush /\ cu_start = {} /\ flushing = {} /\ ~l2_flushing
      BY <1>5, <1>12 DEF CacheInv, PhaseInv
    <2>2. cached = {}
      BY <1>5, <1>12, <2>1 DEF CacheInv, TypeOK
    <2>3. ~l2rep /\ cached' = {} /\ flushing' = {}
      BY <1>2, <1>3, <2>1, <2>2
    <2> QED
      BY <1>4, <2>1, <2>3, Zenon
  <1> QED
    BY <1>6, <1>7, <1>8, <1>9, <1>10, <1>11, <1>12, Zenon

-----------------------------------------------------------------------------
\* The unit chosen for the next block is free.
LEMMA FreeUnit ==
  ASSUME IInv, FreeCUs # {}
  PROVE  LET c == CHOOSE c \in FreeCUs : \A e \in FreeCUs : c <= e
         IN  c \in CUs /\ c \notin running /\ c \notin cu_start
  <1>1. \A c \in FreeCUs : c \in CUs /\ c \notin running /\ c \notin cu_start
    BY DEF IInv, UnitsInv, FreeCUs
  <1>2. FreeCUs \in SUBSET Nat
    BY DispatchAssumption DEF FreeCUs, CUs
  <1>3. \E c \in FreeCUs : \A e \in FreeCUs : c <= e
    BY <1>2, LeastNatural
  <1> QED
    BY <1>1, <1>3

\* Every clock keeps the invariant, whatever the dispatcher does on it.
LEMMA Preserved ==
  ASSUME IInv, [Next]_vars
  PROVE  IInv'
  <1>1. CASE UNCHANGED vars
    BY <1>1 DEF IInv, TypeOK, UnitsInv, PhaseInv, CacheInv, vars, dispatchVars, unitVars
  <1>2. CASE Next
    <2>1. Clock /\ (Idle \/ Busy)
      BY <1>2, Zenon DEF Next, Clock
    <2> DEFINE Env ==
          /\ cu_start \subseteq running' /\ running' \subseteq running \cup cu_start
          /\ running' \cap cu_done' = {}
          /\ running' \subseteq CUs /\ cu_done' \subseteq CUs
          /\ flushing' \subseteq CUs /\ reports' \subseteq CUs
          /\ l2_flushing' \in BOOLEAN /\ l2_report' \in BOOLEAN
          /\ cached' \subseteq CUs \cup {L2}
    <2>2. Env
      BY <2>1, ClockStep, Zenon
    <2>3. /\ dstate \notin {"FLUSH", "FWAIT"} =>
               flushing' = {} /\ l2_flushing' = FALSE /\ l2_report' = FALSE
          /\ cu_start = {} => cached' \subseteq cached
          /\ dstate = "FLUSH" => l2_flushing' = TRUE /\ l2_report' = FALSE /\ flushing' = CUs
          /\ dstate = "FWAIT" =>
               /\ l2_report' => flushing' = {} /\ ~l2_flushing'
               /\ \A c \in cached' \cap CUs : c \in flushing'
               /\ L2 \in cached' => l2_flushing'
          /\ dstate = "FWAIT" /\ l2_report =>
               cached' = {} /\ flushing' = {} /\ ~l2_flushing' /\ ~l2_report'
      BY <2>1, ClockStep, Zenon
    <2>4. TypeOK /\ UnitsInv /\ PhaseInv /\ CacheInv
      BY DEF IInv
    <2> HIDE DEF Env
    <2>5. CASE Wait
      <3>1. cu_start = {} /\ running = {} /\ cached = {} /\ dstate = "IDLE"
        BY <2>4, <2>5 DEF Wait, PhaseInv, CacheInv
      <3>2. TypeOK'
        BY <2>2, <2>4, <2>5 DEF Wait, NoPulse, Env, TypeOK
      <3>3. UnitsInv' /\ PhaseInv'
        BY <2>2, <2>4, <2>5, <3>1 DEF Wait, NoPulse, Env, UnitsInv, PhaseInv
      <3>4. CacheInv'
        BY <2>3, <2>5, <3>1 DEF Wait, NoPulse, CacheInv
      <3> QED
        BY <3>2, <3>3, <3>4 DEF IInv
    <2>6. CASE \E nx \in GridSizes, d \in Descriptors : Launch(nx, d)
      <3>0. PICK nx \in GridSizes, d \in Descriptors : Launch(nx, d)
        BY <2>6
      <3>1. cu_start = {} /\ running = {} /\ cached = {} /\ dstate = "IDLE" /\ nx \in Nat
        BY <2>4, <3>0, DispatchAssumption DEF Launch, PhaseInv, CacheInv
      <3>2. TypeOK'
        <4>1. /\ nx_q' \in Nat /\ next_bidx' \in 0 .. nx_q'
              /\ dstate' \in {"IDLE", "DISPATCH", "DRAIN", "FLUSH", "FWAIT"}
              /\ launched' \subseteq CUs /\ flush_seen' \subseteq CUs /\ cu_start' \subseteq CUs
              /\ cu_bidx' \in [CUs -> Nat] /\ desc' \in Descriptors
          BY <2>4, <3>0, <3>1 DEF Launch, TypeOK
        <4>2. cu_flush' \in BOOLEAN /\ grid_done' \in BOOLEAN
          BY <3>0, Zenon DEF Launch
        <4> QED
          BY <2>2, <4>1, <4>2, Zenon DEF Env, TypeOK
      <3>3. UnitsInv' /\ PhaseInv'
        <4>1. /\ cu_start' = {} /\ running' = {} /\ next_bidx' = 0 /\ nx_q' = nx
              /\ dstate' = IF nx = 0 THEN "IDLE" ELSE "DISPATCH"
          BY <2>2, <3>0, <3>1 DEF Launch, Env
        <4>2. grid_done' <=> nx = 0
          BY <3>0, Zenon DEF Launch
        <4> QED
          BY <3>1, <4>1, <4>2 DEF UnitsInv, PhaseInv
      <3>4. CacheInv'
        BY <2>3, <3>0, <3>1 DEF Launch, CacheInv
      <3> QED
        BY <3>2, <3>3, <3>4 DEF IInv
    <2>7. CASE Dispatch
      <3> DEFINE c == CHOOSE c \in FreeCUs : \A e \in FreeCUs : c <= e
      <3>1. /\ dstate = "DISPATCH" /\ FreeCUs # {}
            /\ cu_start' = {c} /\ cu_bidx' = [cu_bidx EXCEPT ![c] = next_bidx]
            /\ launched' = launched \cup {c} /\ next_bidx' = next_bidx + 1
            /\ dstate' = IF LastBlock THEN "DRAIN" ELSE "DISPATCH"
            /\ cu_flush' = FALSE /\ grid_done' = FALSE
            /\ UNCHANGED << nx_q, flush_seen, desc >>
        BY <2>7, Zenon DEF Dispatch
      <3>2. c \in CUs /\ c \notin running /\ c \notin cu_start
        BY <3>1, FreeUnit
      <3> HIDE DEF c
      <3>3. next_bidx \in Nat /\ nx_q \in Nat /\ next_bidx < nx_q
        BY <2>4, <3>1 DEF TypeOK, PhaseInv
      <3>4. TypeOK'
        <4>1. /\ nx_q' \in Nat /\ next_bidx' \in 0 .. nx_q'
              /\ dstate' \in {"IDLE", "DISPATCH", "DRAIN", "FLUSH", "FWAIT"}
          BY <3>1, <3>3
        <4>2. /\ launched' \subseteq CUs /\ flush_seen' \subseteq CUs /\ cu_start' \subseteq CUs
              /\ cu_bidx' \in [CUs -> Nat] /\ desc' \in Descriptors
              /\ cu_flush' \in BOOLEAN /\ grid_done' \in BOOLEAN
          BY <2>4, <3>1, <3>2, <3>3 DEF TypeOK
        <4> QED
          BY <2>2, <4>1, <4>2, Zenon DEF Env, TypeOK
      <3>5. UnitsInv'
        BY <2>2, <2>4, <3>1, <3>2, <3>3 DEF Env, UnitsInv, TypeOK
      <3>6. PhaseInv'
        BY <3>1, <3>3 DEF PhaseInv, LastBlock
      <3>7. CacheInv'
        BY <2>3, <3>1 DEF CacheInv
      <3> QED
        BY <3>4, <3>5, <3>6, <3>7 DEF IInv
    <2>8. CASE Occupied
      <3>1. TypeOK'
        BY <2>2, <2>4, <2>8 DEF Occupied, NoPulse, Env, TypeOK
      <3>2. UnitsInv' /\ PhaseInv'
        BY <2>2, <2>4, <2>8 DEF Occupied, NoPulse, Env, UnitsInv, PhaseInv
      <3>3. CacheInv'
        BY <2>3, <2>8 DEF Occupied, NoPulse, CacheInv
      <3> QED
        BY <3>1, <3>2, <3>3 DEF IInv
    <2>9. CASE Drain
      <3>1. cu_start = {} /\ running = {}
        BY <2>4, <2>9 DEF Drain, Drained, UnitsInv, TypeOK
      <3>2. TypeOK'
        BY <2>2, <2>4, <2>9 DEF Drain, Env, TypeOK
      <3>3. UnitsInv' /\ PhaseInv'
        BY <2>2, <2>4, <2>9, <3>1 DEF Drain, Env, UnitsInv, PhaseInv
      <3>4. CacheInv'
        BY <2>3, <2>9 DEF Drain, CacheInv
      <3> QED
        BY <3>2, <3>3, <3>4 DEF IInv
    <2>10. CASE Undrained
      <3>1. TypeOK'
        BY <2>2, <2>4, <2>10 DEF Undrained, NoPulse, Env, TypeOK
      <3>2. UnitsInv' /\ PhaseInv'
        BY <2>2, <2>4, <2>10 DEF Undrained, NoPulse, Env, UnitsInv, PhaseInv
      <3>3. CacheInv'
        BY <2>3, <2>10 DEF Undrained, NoPulse, CacheInv
      <3> QED
        BY <3>1, <3>2, <3>3 DEF IInv
    <2>11. CASE FlushPulse
      <3>1. cu_start = {} /\ running = {}
        BY <2>4, <2>11 DEF FlushPulse, PhaseInv
      <3>2. TypeOK'
        BY <2>2, <2>4, <2>11 DEF FlushPulse, NoPulse, Env, TypeOK
      <3>3. UnitsInv' /\ PhaseInv'
        BY <2>2, <2>4, <2>11, <3>1 DEF FlushPulse, NoPulse, Env, UnitsInv, PhaseInv
      <3>4. CacheInv'
        BY <2>2, <2>3, <2>11, Zenon DEF FlushPulse, NoPulse, Env, CacheInv
      <3> QED
        BY <3>2, <3>3, <3>4 DEF IInv
    <2>12. CASE FlushWait
      <3>1. cu_start = {} /\ running = {} /\ dstate = "FWAIT"
        BY <2>4, <2>12 DEF FlushWait, PhaseInv
      <3>2. grid_done' => cached' = {} /\ flushing' = {} /\ ~l2_flushing' /\ ~l2_report'
        <4>1. grid_done' => l2_report
          BY <2>12, Zenon DEF FlushWait
        <4> QED
          BY <2>3, <3>1, <4>1, Zenon
      <3>3. TypeOK'
        BY <2>2, <2>4, <2>12 DEF FlushWait, Env, TypeOK, Seen
      <3>4. UnitsInv' /\ PhaseInv'
        BY <2>2, <2>4, <2>12, <3>1 DEF FlushWait, Env, UnitsInv, PhaseInv
      <3>5. CacheInv'
        BY <2>3, <2>12, <3>1, <3>2 DEF FlushWait, CacheInv
      <3> QED
        BY <3>3, <3>4, <3>5 DEF IInv
    <2> QED
      BY <2>1, <2>5, <2>6, <2>7, <2>8, <2>9, <2>10, <2>11, <2>12 DEF Idle, Busy
  <1> QED
    BY <1>1, <1>2

LEMMA Invariant == Spec => []IInv
  BY Initially, Preserved, PTL DEF Spec

\* The dispatcher's registers have their types in every state; among them, that the next
\* block's index never passes the grid's size.
THEOREM DispatcherTypes == Spec => []TypeOK
  BY Invariant, PTL DEF IInv

-----------------------------------------------------------------------------
\* The abstract grid's values, as CtaDispatch gives them.
Todo == {b \in 0 .. nx_q - 1 : b >= next_bidx} \cup {cu_bidx[c] : c \in cu_start}
Work == [c \in CUs |-> IF c \in running THEN [block |-> cu_bidx[c], desc |-> desc]
                       ELSE [block |-> -1]]

\* A block's record is not the one of a unit without work.
LEMMA AtWork ==
  ASSUME NEW b \in Nat, NEW d
  PROVE  [block |-> b, desc |-> d] # [block |-> -1]
  <1>1. [block |-> b, desc |-> d].block # [block |-> -1].block
    OBVIOUS
  <1> QED
    BY <1>1

\* While blocks are handed out and end, the units whose pulse has landed begin the blocks
\* that were on their way, and no block is begun twice or dropped.
LEMMA RunStep ==
  ASSUME IInv, IInv', Clock, dstate \in {"DISPATCH", "DRAIN"}, dstate' # "IDLE", ~grid_done',
         desc' = desc, \A c \in running \cup cu_start : cu_bidx'[c] = cu_bidx[c],
         Todo' = {b \in 0 .. nx_q - 1 : b >= next_bidx}
  PROVE  Grid!Run /\ cached \subseteq cached'
  <1>1. /\ cu_start \subseteq running' /\ running' \subseteq running \cup cu_start
        /\ cached \subseteq cached'
    BY ClockStep, Zenon
  <1>2. \A c \in CUs : /\ c \in running => Work[c] = [block |-> cu_bidx[c], desc |-> desc]
                       /\ c \notin running => Work[c] = [block |-> -1]
                       /\ Work[c] = [block |-> -1] <=> c \notin running
    BY AtWork DEF Work, IInv, TypeOK
  <1>3. \A c \in CUs : /\ c \in running' => Work'[c] = [block |-> cu_bidx'[c], desc |-> desc']
                       /\ c \notin running' => Work'[c] = [block |-> -1]
                       /\ Work'[c] = [block |-> -1] <=> c \notin running'
    BY AtWork DEF Work, IInv, TypeOK
  <1>4. cu_start \subseteq CUs /\ cu_start \cap running = {} /\ \A c, e \in cu_start : c = e
    BY DEF IInv, TypeOK, UnitsInv
  <1> DEFINE begins(c) == Work[c] = [block |-> -1] /\ \E b \in Todo : Work'[c] = [block |-> b, desc |-> desc]
             ends(c)   == Work[c] # [block |-> -1] /\ Work'[c] = [block |-> -1]
  <1>5. \A c \in cu_start : begins(c) /\ Work'[c].block = cu_bidx[c]
    <2> SUFFICES ASSUME NEW c \in cu_start PROVE begins(c) /\ Work'[c].block = cu_bidx[c]
      OBVIOUS
    <2>1. cu_bidx[c] \in Todo
      BY DEF Todo
    <2>2. Work'[c] = [block |-> cu_bidx[c], desc |-> desc]
      BY <1>1, <1>3, <1>4
    <2>3. Work[c] = [block |-> -1]
      BY <1>2, <1>4
    <2> QED
      BY <2>1, <2>2, <2>3
  <1>6. \A c \in CUs : begins(c) => c \in cu_start
    <2> SUFFICES ASSUME NEW c \in CUs, begins(c) PROVE c \in cu_start
      OBVIOUS
    <2>1. c \notin running
      BY <1>2
    <2>2. PICK b \in Todo : Work'[c] = [block |-> b, desc |-> desc]
      OBVIOUS
    <2>3. b # -1
      BY DEF Todo, IInv, TypeOK
    <2>4. Work'[c] # [block |-> -1]
      BY <2>2, <2>3
    <2> QED
      BY <1>1, <1>3, <2>1, <2>4
  <1>7. \A c \in CUs : begins(c) \/ ends(c) \/ Work'[c] = Work[c]
    BY <1>1, <1>2, <1>3, <1>5
  <1>8. {c \in CUs : begins(c)} = cu_start
    BY <1>4, <1>5, <1>6
  <1>9. Todo' = Todo \ {Work'[c].block : c \in cu_start}
    <2>1. {Work'[c].block : c \in cu_start} = {cu_bidx[c] : c \in cu_start}
      BY <1>5
    <2>2. \A c \in cu_start : cu_bidx[c] < next_bidx /\ cu_bidx[c] \in Nat
      BY <1>4 DEF IInv, TypeOK, UnitsInv
    <2>3. next_bidx \in Nat /\ nx_q \in Nat
      BY DEF IInv, TypeOK
    <2> DEFINE left == {b \in 0 .. nx_q - 1 : b >= next_bidx}
    <2>4. \A b \in left : b \notin {cu_bidx[c] : c \in cu_start}
      BY <2>2, <2>3
    <2>5. Todo = left \cup {cu_bidx[c] : c \in cu_start} /\ Todo' = left
      BY DEF Todo
    <2> HIDE DEF left
    <2> QED
      BY <2>1, <2>4, <2>5
  <1>10. dstate # "IDLE" /\ dstate' # "IDLE" /\ ~grid_done'
    OBVIOUS
  <1>11. \A c, e \in cu_start : c # e => Work'[c].block # Work'[e].block
    BY <1>4
  <1> QED
    BY <1>1, <1>7, <1>8, <1>9, <1>10, <1>11
       DEF Grid!Run, Grid!Begins, Grid!Ends, Grid!Nobody, Todo, Work

\* With all units drained and no block left, what the caches do makes them cleaner.
LEMMA CleanStep ==
  ASSUME IInv, IInv', Clock, dstate # "IDLE", dstate' # "IDLE", ~grid_done, ~grid_done',
         cu_start = {}, cu_start' = {}, running = {}, next_bidx = nx_q,
         UNCHANGED << nx_q, next_bidx, desc >>
  PROVE  Grid!Clean
  <1>1. running' = {} /\ cached' \subseteq cached
    BY ClockStep
  <1>2. Todo = {} /\ Todo' = {}
    BY DEF Todo, IInv, TypeOK
  <1>3. Work = [c \in CUs |-> [block |-> -1]] /\ Work' = [c \in CUs |-> [block |-> -1]]
    BY <1>1 DEF Work
  <1>4. grid_done' = grid_done
    <2>1. grid_done \in BOOLEAN /\ grid_done' \in BOOLEAN
      BY DEF IInv, TypeOK
    <2> QED
      BY <2>1, Zenon
  <1> QED
    BY <1>1, <1>2, <1>3, <1>4 DEF Grid!Clean, Grid!Over, Grid!Nobody, Todo, Work

\* Each clock of the dispatcher is a step of the abstract grid.
LEMMA GridStep ==
  ASSUME IInv, IInv', [Next]_vars
  PROVE  [Grid!Next]_Grid!vars
  <1>1. CASE UNCHANGED vars
    BY <1>1 DEF vars, dispatchVars, unitVars, Grid!vars
  <1>2. CASE Next
    <2>1. Clock /\ (Idle \/ Busy)
      BY <1>2, Zenon DEF Next, Clock
    <2>2. TypeOK /\ UnitsInv /\ PhaseInv /\ CacheInv
      BY DEF IInv
    <2>3. CASE Wait
      <3>1. /\ dstate = "IDLE" /\ dstate' = "IDLE" /\ cu_start = {} /\ cu_start' = {} /\ running = {}
            /\ cached = {} /\ UNCHANGED << nx_q, next_bidx, desc >>
        BY <2>2, <2>3 DEF Wait, NoPulse, PhaseInv, CacheInv
      <3>2. running' = {} /\ cached' = {} /\ ~grid_done'
        BY <2>1, <2>3, <3>1, ClockStep DEF Wait, NoPulse
      <3> QED
        BY <3>1, <3>2 DEF Grid!Next, Grid!Idle
    <2>4. CASE \E nx \in GridSizes, d \in Descriptors : Launch(nx, d)
      <3>0. PICK nx \in GridSizes, d \in Descriptors : Launch(nx, d)
        BY <2>4
      <3>1. /\ dstate = "IDLE" /\ cu_start = {} /\ cu_start' = {} /\ running = {} /\ cached = {}
            /\ nx_q' = nx /\ next_bidx' = 0 /\ desc' = d /\ nx \in Nat
            /\ dstate' = IF nx = 0 THEN "IDLE" ELSE "DISPATCH"
        BY <2>2, <3>0, DispatchAssumption DEF Launch, PhaseInv, CacheInv
      <3>2. running' = {} /\ cached' = {}
        BY <2>1, <3>1, ClockStep
      <3>3. Todo' = 0 .. nx - 1
        BY <3>1 DEF Todo
      <3>4. grid_done' = (nx = 0) /\ (dstate' # "IDLE") = (nx # 0)
        BY <3>0, <3>1, Zenon DEF Launch
      <3>5. Work' = Work
        BY <3>1, <3>2 DEF Work
      <3>6. Grid!Launch
        BY <3>1, <3>2, <3>3, <3>4, <3>5 DEF Grid!Launch, Todo, Work
      <3> QED
        BY <3>6 DEF Grid!Next
    <2>5. CASE Dispatch
      <3> DEFINE c == CHOOSE c \in FreeCUs : \A e \in FreeCUs : c <= e
      <3>1. /\ dstate = "DISPATCH" /\ FreeCUs # {}
            /\ cu_start' = {c} /\ cu_bidx' = [cu_bidx EXCEPT ![c] = next_bidx]
            /\ next_bidx' = next_bidx + 1 /\ nx_q' = nx_q /\ desc' = desc
            /\ dstate' # "IDLE" /\ ~grid_done'
        BY <2>5 DEF Dispatch
      <3>2. c \in CUs /\ c \notin running /\ c \notin cu_start
        BY <3>1, FreeUnit
      <3> HIDE DEF c
      <3>3. next_bidx \in Nat /\ nx_q \in Nat /\ next_bidx < nx_q
        BY <2>2, <3>1 DEF TypeOK, PhaseInv
      <3>4. {cu_bidx'[e] : e \in cu_start'} = {next_bidx}
        BY <2>2, <3>1, <3>2 DEF TypeOK
      <3>5. Todo' = {b \in 0 .. nx_q - 1 : b >= next_bidx}
        BY <3>1, <3>3, <3>4 DEF Todo
      <3>6. \A e \in running \cup cu_start : cu_bidx'[e] = cu_bidx[e]
        BY <2>2, <3>1, <3>2 DEF TypeOK
      <3>7. Grid!Run /\ cached \subseteq cached'
        BY <2>1, <3>1, <3>5, <3>6, RunStep
      <3> QED
        BY <3>7 DEF Grid!Next
    <2>6. CASE Occupied \/ Undrained
      <3>1. /\ dstate \in {"DISPATCH", "DRAIN"} /\ dstate' # "IDLE" /\ ~grid_done' /\ cu_start' = {}
            /\ UNCHANGED << nx_q, next_bidx, desc, cu_bidx >>
        BY <2>6 DEF Occupied, Undrained, NoPulse
      <3>2. Todo' = {b \in 0 .. nx_q - 1 : b >= next_bidx}
        BY <3>1 DEF Todo
      <3>3. Grid!Run /\ cached \subseteq cached'
        BY <2>1, <3>1, <3>2, RunStep
      <3> QED
        BY <3>3 DEF Grid!Next
    <2>7. CASE Drain
      <3>1. cu_start = {} /\ running = {}
        BY <2>2, <2>7 DEF Drain, Drained, UnitsInv, TypeOK
      <3>2. Grid!Clean
        BY <2>1, <2>2, <2>7, <3>1, CleanStep DEF Drain, PhaseInv
      <3> QED
        BY <3>2 DEF Grid!Next
    <2>8. CASE FlushPulse \/ (FlushWait /\ ~grid_done')
      <3>1. /\ dstate \in {"FLUSH", "FWAIT"} /\ dstate' = "FWAIT" /\ cu_start' = {}
            /\ ~grid_done' /\ UNCHANGED << nx_q, next_bidx, desc >>
        BY <2>8 DEF FlushPulse, FlushWait, NoPulse
      <3>2. Grid!Clean
        BY <2>1, <2>2, <3>1, CleanStep DEF PhaseInv
      <3> QED
        BY <3>2 DEF Grid!Next
    <2>9. CASE FlushWait /\ grid_done'
      <3>1. /\ dstate = "FWAIT" /\ dstate' = "IDLE" /\ cu_start = {} /\ cu_start' = {} /\ running = {}
            /\ next_bidx = nx_q /\ UNCHANGED << nx_q, next_bidx, desc >>
        BY <2>2, <2>9 DEF FlushWait, PhaseInv
      <3>2. l2_report
        BY <2>9, Zenon DEF FlushWait
      <3>3. flushing = {} /\ ~l2_flushing
        BY <2>2, <3>2 DEF CacheInv
      <3>4. cached = {} /\ cached' = {} /\ running' = {}
        BY <2>1, <2>2, <3>1, <3>3, ClockStep DEF CacheInv, TypeOK
      <3>5. Todo = {} /\ Todo' = {} /\ Work' = Work /\ Work = [c \in CUs |-> [block |-> -1]]
        BY <2>2, <3>1, <3>4 DEF Todo, Work, TypeOK
      <3>6. Grid!Report
        BY <2>9, <3>1, <3>4, <3>5 DEF Grid!Report, Grid!Over, Grid!Nobody, Todo, Work
      <3> QED
        BY <3>6 DEF Grid!Next
    <2> QED
      BY <2>1, <2>3, <2>4, <2>5, <2>6, <2>7, <2>8, <2>9 DEF Idle, Busy
  <1> QED
    BY <1>1, <1>2

\* Whatever the grids and the number of units: every block runs exactly once and to its
\* end, with the index and the launch values it was given, and grid_done comes once, after
\* the last block's end and the last cache's walk.
THEOREM GridImplemented == Spec => GridSpec
  <1>1. Init => Grid!Init
    <2> SUFFICES ASSUME Init PROVE Grid!Init
      OBVIOUS
    <2>1. Todo = {} /\ Work = [c \in CUs |-> [block |-> -1]]
      BY DEF Init, Todo, Work
    <2>2. dstate = "IDLE" /\ desc \in Descriptors /\ cached = {} /\ grid_done = FALSE
      BY DEF Init
    <2> QED
      BY <2>1, <2>2 DEF Grid!Init, Grid!Nobody, Todo, Work
  <1> QED
    BY <1>1, Invariant, GridStep, PTL DEF Spec, GridSpec, Grid!Spec
=============================================================================
