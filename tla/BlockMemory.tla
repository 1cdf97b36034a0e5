------------------------------ MODULE BlockMemory ------------------------------
(***************************************************************************)
(* What the accesses of a block's warps make of memory: the memory unit of *)
(* cu_core.sv, to which the warps' memory instructions come in whatever    *)
(* order the pipeline brings them, and the golden model's run_block, which *)
(* runs each warp to its next barrier. Warps run one straight program; an  *)
(* instruction has an operation, an atomic function and the word each      *)
(* thread addresses, and works on one register of the thread. Global       *)
(* memory answers a line at a time (MemSystem shows that the caches do).   *)
(***************************************************************************)
EXTENDS Integers, Sequences, FiniteSets

CONSTANTS Tpb, WarpSize,               \* threads of the block, and of a warp
          LineWords, GmemWords, SmemWords,
          Width,                       \* of a register
          Stale,                       \* what an earlier block left behind
          Programs

ASSUME BlockAssumption ==
  /\ Tpb \in Nat \ {0} /\ WarpSize \in Nat \ {0} /\ LineWords \in Nat \ {0}
  /\ GmemWords \in Nat \ {0} /\ SmemWords \in Nat \ {0}

LOCAL INSTANCE SequencesExt
LOCAL INSTANCE FiniteSetsExt
A == INSTANCE IntegerUnit

VARIABLES prog, pc, v, gmem, smem, parked, m
vars == <<prog, pc, v, gmem, smem, parked, m>>

Threads == 0 .. Tpb - 1
Warps   == 0 .. (Tpb + WarpSize - 1) \div WarpSize - 1
Present(w) == {l \in 0 .. WarpSize - 1 : w * WarpSize + l \in Threads}
Thread(w, l) == w * WarpSize + l

Atomic(op) == op \in {"ATOMG", "ATOMS"}
Shared(op) == op \in {"LDS", "STS", "ATOMS"}
Loads(op)  == op \in {"LDG", "LDS"} \/ Atomic(op)         \* writes the register
Writes(op) == op \in {"STG", "STS"} \/ Atomic(op)         \* writes memory
Memory(op) == Loads(op) \/ Writes(op)

-----------------------------------------------------------------------------
\* The memory unit: pending and match are sets of lanes, ld is what they have read.
Idle == [busy |-> FALSE, op |-> "NONE", fn |-> 0, warp |-> 0, pending |-> {}, match |-> {},
         wait |-> FALSE, at |-> <<>>, data |-> <<>>, ld |-> <<>>]

Init ==
  /\ prog \in Programs
  /\ pc = [w \in Warps |-> 1]
  /\ v = [t \in Threads |-> Stale]
  /\ gmem = [a \in 0 .. GmemWords - 1 |-> a] /\ smem = [a \in 0 .. SmemWords - 1 |-> Stale]
  /\ parked = {} /\ m = Idle

Finished(w) == pc[w] > Len(prog)
InFlight(w) == m.busy /\ m.warp = w
Ready(w)    == ~Finished(w) /\ w \notin parked /\ ~InFlight(w)
Insn(w)     == prog[pc[w]]
Advance(w)  == pc' = [pc EXCEPT ![w] = @ + 1]

\* RDSR gives a thread its number.
Rdsr(w) ==
  /\ Ready(w) /\ Insn(w).op = "RDSR" /\ Advance(w)
  /\ v' = [t \in Threads |-> IF t \div WarpSize = w THEN t ELSE v[t]]
  /\ UNCHANGED <<prog, gmem, smem, parked, m>>

Bar(w) ==
  /\ Ready(w) /\ Insn(w).op = "BAR" /\ Advance(w)
  /\ parked' = parked \cup {w}
  /\ UNCHANGED <<prog, v, gmem, smem, m>>

\* The barrier opens when no warp can move. A parked warp may have nothing left but to end.
Release ==
  /\ ~m.busy /\ parked # {} /\ \A w \in Warps : ~Ready(w)
  /\ parked' = {}
  /\ UNCHANGED <<prog, pc, v, gmem, smem, m>>

\* EXEC hands a memory instruction to the unit, with the addresses and the data.
Dispatch(w) ==
  /\ Ready(w) /\ Memory(Insn(w).op) /\ ~m.busy /\ Advance(w)
  /\ m' = [busy |-> TRUE, op |-> Insn(w).op, fn |-> Insn(w).fn, warp |-> w,
           pending |-> Present(w), match |-> {}, wait |-> FALSE,
           at   |-> [l \in Present(w) |-> Insn(w).at[Thread(w, l)]],
           data |-> [l \in Present(w) |-> v[Thread(w, l)]],
           ld   |-> [l \in Present(w) |-> v[Thread(w, l)]]]
  /\ UNCHANGED <<prog, v, gmem, smem, parked>>

Lane == Min(m.pending)
Modify(old, l) == A!atom_ref(m.fn, old, m.data[l], m.data[l])

\* Shared memory: one lane a clock, the lowest first; the address is cut to the memory.
SharedStep ==
  LET word == m.at[Lane] % SmemWords IN
  /\ m.busy /\ Shared(m.op) /\ m.pending # {}
  /\ smem' = CASE Atomic(m.op)    -> [smem EXCEPT ![word] = Modify(@, Lane)]
               [] m.op = "STS"    -> [smem EXCEPT ![word] = m.data[Lane]]
               [] OTHER           -> smem
  /\ m' = [m EXCEPT !.ld[Lane] = IF Loads(m.op) THEN smem[word] ELSE @,
                    !.pending = @ \ {Lane}]
  /\ UNCHANGED <<prog, pc, v, gmem, parked>>

\* Fault: lanes of an atomic that share a line share a transaction.
Group_Atomic == {l \in m.pending : m.at[l] \div LineWords = m.at[Lane] \div LineWords}
\* Global memory: the lanes on the leader's line go together; an atomic goes alone.
Group == IF Atomic(m.op) THEN {Lane}
         ELSE {l \in m.pending : m.at[l] \div LineWords = m.at[Lane] \div LineWords}

LineRequest ==
  /\ m.busy /\ ~Shared(m.op) /\ ~m.wait /\ m.pending # {}
  /\ m' = [m EXCEPT !.wait = TRUE, !.match = Group]
  /\ UNCHANGED <<prog, pc, v, gmem, smem, parked>>

\* Fault: the lowest lane that stores to a word wins.
Assemble_Lowest(a) == m.data[Min({l \in m.match : m.at[l] = a})]
\* The line to store: a word takes the highest of its lanes.
Assemble(a) == m.data[Max({l \in m.match : m.at[l] = a})]

LineAnswer ==
  LET leader == Min(m.match)
      stored == {m.at[l] : l \in m.match} IN
  /\ m.busy /\ m.wait
  /\ gmem' = CASE Atomic(m.op) -> [gmem EXCEPT ![m.at[leader]] = Modify(@, leader)]
               [] m.op = "STG" -> [a \in DOMAIN gmem |->
                                     IF a \in stored THEN Assemble(a) ELSE gmem[a]]
               [] OTHER        -> gmem
  /\ m' = [m EXCEPT !.wait = FALSE, !.pending = @ \ m.match,
                    !.ld = [l \in DOMAIN m.ld |-> IF l \in m.match /\ Loads(m.op)
                                                  THEN gmem[m.at[l]] ELSE m.ld[l]]]
  /\ UNCHANGED <<prog, pc, v, smem, parked>>

\* All lanes served: a load or an atomic writes its register back.
Complete ==
  /\ m.busy /\ m.pending = {} /\ ~m.wait
  /\ m' = Idle
  /\ v' = [t \in Threads |->
             IF Loads(m.op) /\ t \div WarpSize = m.warp THEN m.ld[t % WarpSize] ELSE v[t]]
  /\ UNCHANGED <<prog, pc, gmem, smem, parked>>

Done == ~m.busy /\ parked = {} /\ \A w \in Warps : Finished(w)
Ended == Done /\ UNCHANGED vars

Next == \/ \E w \in Warps : Rdsr(w) \/ Bar(w) \/ Dispatch(w)
        \/ Release \/ SharedStep \/ LineRequest \/ LineAnswer \/ Complete \/ Ended
Spec == Init /\ [][Next]_vars

-----------------------------------------------------------------------------
\* The golden model: the state of a block is b = [v, g, s, pc, parked].
gst(b, a, x) == [b EXCEPT !.g[a] = x]
gld(b, a)    == b.g[a]

IssAccess(b, i, t) ==
  LET a   == i.at[t]
      old == CASE ~Shared(i.op) -> gld(b, a)
               [] Shared(i.op) /\ a < SmemWords -> b.s[a]
               [] OTHER -> 0
      new == IF Atomic(i.op) THEN A!atom_ref(i.fn, old, b.v[t], b.v[t]) ELSE b.v[t]
      put == CASE ~Writes(i.op)   -> b
               [] Writes(i.op) /\ ~Shared(i.op) -> gst(b, a, new)
               [] Writes(i.op) /\ Shared(i.op) /\ a < SmemWords -> [b EXCEPT !.s[a] = new]
               [] OTHER -> b
  IN  CASE i.op = "RDSR" -> [b EXCEPT !.v[t] = t]
        [] Memory(i.op)  -> IF Loads(i.op) THEN [put EXCEPT !.v[t] = old] ELSE put
        [] OTHER         -> b

\* One instruction: the lanes in order.
IssInsn(b, w) ==
  LET i == prog[b.pc[w]]
      ts == [n \in 1 .. Cardinality(Present(w)) |-> Thread(w, n - 1)]
      after == FoldLeft(LAMBDA acc, t : IssAccess(acc, i, t), b, ts)
  IN  [after EXCEPT !.pc[w] = @ + 1, !.parked = IF i.op = "BAR" THEN @ \cup {w} ELSE @]

\* The scheduler, an instruction at a time: the lowest warp that is neither parked nor
\* finished goes on; when there is none, the barrier opens.
IssStep(b) ==
  LET ready == {w \in Warps : b.pc[w] <= Len(prog) /\ w \notin b.parked}
  IN  IF ready # {} THEN IssInsn(b, Min(ready)) ELSE [b EXCEPT !.parked = {}]

run_block ==
  LET at[n \in 0 .. 2 * Len(prog) * Cardinality(Warps)] ==
        IF n = 0 THEN [v |-> [t \in Threads |-> 0], g |-> [a \in 0 .. GmemWords - 1 |-> a],
                       s |-> [a \in 0 .. SmemWords - 1 |-> 0],
                       pc |-> [w \in Warps |-> 1], parked |-> {}]
        ELSE IssStep(at[n - 1])
  IN  at[2 * Len(prog) * Cardinality(Warps)]

-----------------------------------------------------------------------------
\* The accesses of the program, each in the interval between barriers where it happens.
Interval(n) == Cardinality({k \in 1 .. n : prog[k].op = "BAR"})
Accesses ==
  {[n |-> n, t |-> t, a |-> prog[n].at[t]] :
     n \in {k \in 1 .. Len(prog) : Memory(prog[k].op)}, t \in Threads}
Conflict(x, y) ==
  /\ x.t \div WarpSize # y.t \div WarpSize /\ Interval(x.n) = Interval(y.n)
  /\ Shared(prog[x.n].op) = Shared(prog[y.n].op) /\ x.a = y.a
  /\ Writes(prog[x.n].op)
RaceFree == \A x, y \in Accesses : ~Conflict(x, y)

\* Registers and shared words are written before they are used, and addresses exist.
Before(x, y) == x.n < y.n /\ (x.t \div WarpSize = y.t \div WarpSize \/ Interval(x.n) < Interval(y.n))
WellDefined ==
  /\ \A n \in 1 .. Len(prog) :
       Writes(prog[n].op) => \E k \in 1 .. n - 1 : prog[k].op = "RDSR" \/ Loads(prog[k].op)
  /\ \A x \in Accesses : Shared(prog[x.n].op) =>
       /\ x.a < SmemWords
       /\ Loads(prog[x.n].op) =>
            \E y \in Accesses : Before(y, x) /\ prog[y.n].op = "STS" /\ y.a = x.a

\* Warps may also race with additions, if nothing in the program reads the sums later.
Sum(x) == Atomic(prog[x.n].op) /\ prog[x.n].fn = 0
OnlySumsRace ==
  /\ \A x, y \in Accesses : Conflict(x, y) => Sum(x) /\ Sum(y)
  /\ \A x, y \in Accesses : Sum(x) /\ y.n > x.n => ~Writes(prog[y.n].op)

\* iss.hpp:166 promises that the two models agree for race-free kernels: when the block is
\* done, whatever the order of its warps was, all of global memory, every shared word that
\* was written and every register that was loaded hold what the golden model computes. If
\* warps race with atomic additions alone, none is lost and memory still agrees, although
\* the values that the threads get back depend on the order.
BlockAgrees ==
  (Done /\ WellDefined /\ (RaceFree \/ OnlySumsRace)) =>
    /\ gmem = run_block.g
    /\ \A x \in Accesses :
         (Shared(prog[x.n].op) /\ Writes(prog[x.n].op)) => smem[x.a] = run_block.s[x.a]
    /\ (RaceFree /\ \E n \in 1 .. Len(prog) : prog[n].op = "RDSR" \/ Loads(prog[n].op))
         => v = run_block.v
=============================================================================
