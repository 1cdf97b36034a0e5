------------------------------ MODULE MemSystem ------------------------------
(***************************************************************************)
(* Global memory as gpu_top wires it: an l1_dcache per compute unit, the   *)
(* shared l2_cache, and the memory array behind it.  One step is one       *)
(* clock.  A compute unit is its memory unit: it raises a request when it  *)
(* has none outstanding (c_wait) and waits for resp_ready.  The dispatcher *)
(* is reduced to the kernel boundary: when every unit is idle it pulses    *)
(* the flush of every cache, and the host owns the memory once all have    *)
(* reported.                                                               *)
(***************************************************************************)
EXTENDS L1DCache, L2Cache

CONSTANT Requests   \* what compute unit c may ask for: Requests[c]

CUs == Ports
ASSUME RequestsAssumption == Requests \in [CUs -> SUBSET Request]

VARIABLES l1,      \* the L1 of each compute unit
          l2,
          gmem,    \* the memory array
          wait,    \* the compute units with a request outstanding
          phase,   \* "kernel", "flush" (flush pulsed, not all reported), "idle"
          seen     \* the L1s that have reported their flush
vars == << l1, l2, gmem, wait, phase, seen >>

Raised == {c \in CUs : L1MemReq(l1[c], l2.ack = c)}

\* A clock on which the units ask for req, and the flush is pulsed or not.
Clock(req, flush) ==
  /\ l1' = [c \in CUs |-> L1Next(l1[c], req[c], flush, l2.ack = c, l2.out)]
  /\ l2' = L2Next(l2, Raised, [c \in CUs |-> l1[c].q], flush, gmem)
  /\ gmem' = IF WritesBack(l2) THEN [gmem EXCEPT ![Victim(l2).line] = Victim(l2).data]
             ELSE gmem
  /\ wait' = {c \in CUs : IF c \in wait THEN l1[c].resp = NoAnswer ELSE req[c] # NoReq}

Quiet == [c \in CUs |-> NoReq]

\* The kernel runs: any unit without a request may raise one.
Run ==
  /\ phase = "kernel"
  /\ \E req \in [CUs -> UNION {Requests[c] : c \in CUs} \cup {NoReq}] :
        /\ \A c \in CUs : req[c] \in {NoReq} \cup (IF c \in wait THEN {} ELSE Requests[c])
        /\ Clock(req, FALSE)
  /\ UNCHANGED << phase, seen >>

\* Every unit is done: the dispatcher pulses the flush of all L1s and the L2.
EndKernel ==
  /\ phase = "kernel" /\ wait = {}
  /\ Clock(Quiet, TRUE)
  /\ phase' = "flush" /\ seen' = {}

\* Fault: a report counts only in its own clock.
Reported_Now == {c \in CUs : l1[c].flushed}
Reported == seen \cup {c \in CUs : l1[c].flushed}

\* D_FWAIT: the L1s' reports are collected; the L2's is not, and must come with the
\* last of them or later.
Flush ==
  /\ phase = "flush"
  /\ Clock(Quiet, FALSE)
  /\ seen' = Reported
  /\ phase' = IF Reported = CUs /\ l2.flushed THEN "idle" ELSE "flush"

\* The host writes memory and launches again.
HostWrite ==
  /\ phase = "idle"
  /\ \E l \in Lines, w \in Offsets, v \in Word : gmem' = [gmem EXCEPT ![l][w] = v]
  /\ UNCHANGED << l1, l2, wait, phase, seen >>

Launch ==
  /\ phase = "idle"
  /\ phase' = "kernel"
  /\ UNCHANGED << l1, l2, gmem, wait, seen >>

Init ==
  /\ l1 = [c \in CUs |-> L1Init] /\ l2 = L2Init
  /\ gmem \in {[l \in Lines |-> [w \in Offsets |-> 0]]}
  /\ wait = {} /\ phase = "idle" /\ seen = {}

Next == Run \/ EndKernel \/ Flush \/ HostWrite \/ Launch
Spec == Init /\ [][Next]_vars

\* The clock never stops.
FairSpec == Spec /\ WF_vars(Run) /\ WF_vars(Flush)

-----------------------------------------------------------------------------
TypeOK ==
  /\ l1 \in [CUs -> L1Type] /\ l2 \in L2Type /\ gmem \in Memory
  /\ wait \subseteq CUs /\ phase \in {"kernel", "flush", "idle"} /\ seen \subseteq CUs

\* The request the L2 serves is the one its L1 still holds, and the answer it
\* pulses finds that L1 waiting for it: none is served twice or for nobody.
Handshake ==
  /\ l2.st \in {"LOOKUP", "WB", "FILL", "SERVE"} =>
        /\ l1[l2.port].st \in {"FILL", "STORE", "ATOM"}
        /\ l1[l2.port].q = l2.q
  /\ l2.ack # NoPort => l1[l2.ack].st \in {"FILL", "STORE", "ATOM"}

\* A line the L2 calls clean is the line in memory, so dropping it loses nothing.
CleanIsMemory ==
  \A s \in 0 .. L2Sets - 1 :
     LET l == l2.lines[s]
     IN  l # Empty /\ ~l.dirty => l.data = gmem[l.line]

\* When the host is told that the grid is over, no cache holds anything: the memory
\* array is the whole truth, for the host and for the next kernel.
BoundaryEmpty ==
  phase = "idle" => /\ \A c \in CUs : l1[c] = L1Init
                    /\ \A s \in 0 .. L2Sets - 1 : l2.lines[s] = Empty

\* A grid's flush comes to its end.  It does as long as the L2 has no fewer sets
\* than an L1, so that its walk is not the shorter one.
FlushEnds == phase = "flush" ~> phase = "idle"

\* Every request is answered, however much the other units ask for.
Answered == \A c \in CUs : (c \in wait) ~> (c \notin wait)

------------------------------------------------------------------------------
\* The caches implement GlobalMemory. The memory is the L2's line where it holds one, else
\* the array; a unit's view is its L1's line where it holds one, but not the words of a
\* store the L2 has not yet performed.
MemLine(l) == LET e == l2.lines[SetOf(l, L2Sets)]
              IN  IF e.line = l THEN e.data ELSE gmem[l]

Unperformed(c, l) ==
  IF l1[c].st = "STORE" /\ l2.ack # c /\ l1[c].q.line = l THEN l1[c].q.strb ELSE {}

ViewLine(c, l) ==
  LET e == l1[c].lines[SetOf(l, L1Sets)]
  IN  [w \in Offsets |-> IF e.line = l /\ w \notin Unperformed(c, l)
                         THEN e.data[w] ELSE MemLine(l)[w]]

Op(c) == IF c \notin wait THEN [st |-> "none"]
         ELSE IF l1[c].resp # NoAnswer THEN [st |-> "told", ans |-> l1[c].resp]
         ELSE IF l2.ack = c THEN [st |-> "told", ans |-> l2.out]
         ELSE [st |-> "asked", req |-> l1[c].q]

Global == INSTANCE GlobalMemory WITH
            mem  <- [l \in Lines |-> MemLine(l)],
            view <- [c \in CUs |-> [l \in Lines |-> ViewLine(c, l)]],
            host <- gmem,
            op   <- [c \in CUs |-> Op(c)]

\* No store is lost, not even beside another unit's store to the same line; each
\* atomic takes effect once, on the value every unit agrees on; a unit reads its
\* own stores; and at grid_done the host and the next kernel see everything.
GlobalSpec == Global!Spec
=============================================================================
