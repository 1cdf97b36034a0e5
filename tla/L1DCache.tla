------------------------------ MODULE L1DCache ------------------------------
(***************************************************************************)
(* l1_dcache: the write-through cache in front of a compute unit's memory  *)
(* unit.  One cache is a record; L1Next is its value after a clock, given  *)
(* what it sees on its ports.  MemSystem has one per compute unit.         *)
(***************************************************************************)
EXTENDS MemoryWords

CONSTANT L1Sets    \* SETS
ASSUME L1Assumption == L1Sets \in Nat \ {0}

\* A set holds a line, or is invalid (vld low).
Invalid == [line |-> -1]
L1Line  == [line : Lines, data : LineData] \cup {Invalid}

\* The latched request q is kept while it is served; resp and flushed are the
\* one-clock pulses resp_ready and flush_done, walk the flush walker's set.
L1Type == [st : {"IDLE", "LOOKUP", "FILL", "STORE", "ATOM", "FLUSH"},
           lines : [0 .. L1Sets - 1 -> L1Line],
           q : Request \cup {NoReq}, resp : Answers \cup {NoAnswer},
           walk : 0 .. L1Sets, flushed : BOOLEAN]

L1Init == [st |-> "IDLE", lines |-> [s \in 0 .. L1Sets - 1 |-> Invalid],
           q |-> NoReq, resp |-> NoAnswer, walk |-> 0, flushed |-> FALSE]

\* Fault: the request stays up while it is acknowledged.
L1MemReq_Level(c, ack) == c.st \in {"FILL", "STORE", "ATOM"}

\* mem_req goes down in the very clock of the acknowledgement, for the L2 looks
\* at it again in that clock.
L1MemReq(c, ack) == c.st \in {"FILL", "STORE", "ATOM"} /\ ~ack

\* Fault: an atomic leaves the line it makes stale.
L1Lookup_KeepsAtomic(c) ==
  LET s == SetOf(c.q.line, L1Sets)
      hit == c.lines[s].line = c.q.line
  IN  CASE c.q.op = "ATOM" -> [c EXCEPT !.st = "ATOM"]
        [] c.q.op = "ST" ->
             [c EXCEPT !.st = "STORE",
                       !.lines = IF hit THEN [c.lines EXCEPT ![s] =
                                   [line |-> c.q.line,
                                    data |-> Merge(c.lines[s].data, c.q.data, c.q.strb)]]
                                 ELSE c.lines]
        [] c.q.op = "LD" /\ hit ->
             [c EXCEPT !.st = "IDLE", !.resp = AnswerTo(c.q, c.lines[s].data), !.q = NoReq]
        [] OTHER -> [c EXCEPT !.st = "FILL"]

\* LOOKUP.  A load that hits is answered at once; a store updates the line when
\* it is there and is always forwarded; an atomic drops the line.
L1Lookup(c) ==
  LET s == SetOf(c.q.line, L1Sets)
      hit == c.lines[s].line = c.q.line
      With(l) == IF hit THEN [c.lines EXCEPT ![s] = l] ELSE c.lines
  IN  CASE c.q.op = "ATOM" -> [c EXCEPT !.st = "ATOM", !.lines = With(Invalid)]
        [] c.q.op = "ST" ->
             [c EXCEPT !.st = "STORE",
                       !.lines = With([line |-> c.q.line,
                                       data |-> Merge(c.lines[s].data, c.q.data, c.q.strb)])]
        [] c.q.op = "LD" /\ hit ->
             [c EXCEPT !.st = "IDLE", !.resp = AnswerTo(c.q, c.lines[s].data), !.q = NoReq]
        [] OTHER -> [c EXCEPT !.st = "FILL"]

\* The L2 has answered: a load fills its line.
L1Answered(c, answer) ==
  [c EXCEPT !.st = "IDLE", !.resp = answer, !.q = NoReq,
            !.lines = IF c.st = "FILL"
                      THEN [c.lines EXCEPT ![SetOf(c.q.line, L1Sets)] =
                              [line |-> c.q.line, data |-> answer.data]]
                      ELSE c.lines]

\* Faults: the walk invalidates one set too few, or runs one set too far.
L1Walk_Short(c) ==
  IF c.walk = L1Sets - 1 THEN [c EXCEPT !.st = "IDLE", !.flushed = TRUE, !.walk = 0]
  ELSE [c EXCEPT !.lines = [c.lines EXCEPT ![c.walk] = Invalid],
                 !.walk = c.walk + 1]
L1Walk_Long(c) ==
  IF c.walk > L1Sets THEN [c EXCEPT !.st = "IDLE", !.flushed = TRUE, !.walk = 0]
  ELSE [c EXCEPT !.lines = [s \in DOMAIN c.lines |-> IF s = c.walk THEN Invalid ELSE c.lines[s]],
                 !.walk = c.walk + 1]

L1Walk(c) ==
  IF c.walk = L1Sets THEN [c EXCEPT !.st = "IDLE", !.flushed = TRUE, !.walk = 0]
  ELSE [c EXCEPT !.lines = [c.lines EXCEPT ![c.walk] = Invalid],
                !.walk = c.walk + 1]

\* A clock of the cache, which sees the request req, a flush pulse, or the L2's
\* acknowledgement with its answer.
L1Next(c, req, flush, ack, answer) ==
  LET d == [c EXCEPT !.resp = NoAnswer, !.flushed = FALSE]
  IN  CASE c.st = "IDLE" /\ flush                 -> [d EXCEPT !.st = "FLUSH"]
        [] c.st = "IDLE" /\ ~flush /\ req # NoReq -> [d EXCEPT !.st = "LOOKUP", !.q = req]
        [] c.st = "LOOKUP"                        -> L1Lookup(d)
        [] c.st \in {"FILL", "STORE", "ATOM"} /\ ack -> L1Answered(d, answer)
        [] c.st = "FLUSH"                         -> L1Walk(d)
        [] OTHER                                  -> d
=============================================================================
