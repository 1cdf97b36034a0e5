------------------------------- MODULE L2Cache -------------------------------
(***************************************************************************)
(* l2_cache: the shared write-back cache.  It serves one port at a time,   *)
(* chosen round-robin, and is the only writer of the memory behind it      *)
(* while a kernel runs.  The cache is a record; L2Next is its value after  *)
(* a clock.                                                                *)
(***************************************************************************)
EXTENDS MemoryWords, RoundRobin

CONSTANTS L2Sets,      \* SETS
          NumPorts     \* NUM_PORTS
ASSUME L2Assumption == L2Sets \in Nat \ {0} /\ NumPorts \in Nat \ {0}

Ports  == 0 .. NumPorts - 1
NoPort == -1

Empty  == [line |-> -1, dirty |-> FALSE]
L2Line == [line : Lines, dirty : BOOLEAN, data : LineData] \cup {Empty}

\* port is the port served last (cur_port and rr_ptr, always written together);
\* ack is the port of the p_ack pulse and out the buses valid with it.  mem_we is
\* high exactly in the states WB and FLUSH_WB.
L2Type == [st : {"IDLE", "LOOKUP", "WB", "FILL", "SERVE", "FLUSH", "FLUSH_WB"},
           lines : [0 .. L2Sets - 1 -> L2Line],
           q : Request \cup {NoReq}, port : Ports,
           ack : Ports \cup {NoPort}, out : Answers \cup {NoAnswer},
           walk : 0 .. L2Sets, flushed : BOOLEAN]

L2Init == [st |-> "IDLE", lines |-> [s \in 0 .. L2Sets - 1 |-> Empty],
           q |-> NoReq, port |-> 0, ack |-> NoPort, out |-> NoAnswer,
           walk |-> 0, flushed |-> FALSE]

L2Set(c) == SetOf(c.q.line, L2Sets)

\* The line the memory is written with, while mem_we is high.
WritesBack(c) == c.st \in {"WB", "FLUSH_WB"}
Victim(c)     == c.lines[IF c.st = "FLUSH_WB" THEN c.walk ELSE L2Set(c)]

\* Fault: the line written is not marked dirty.
Serve_Clean(c) ==
  LET s == L2Set(c)
      l == c.lines[s]
  IN  [c EXCEPT !.st = "IDLE", !.q = NoReq, !.ack = c.port, !.out = AnswerTo(c.q, l.data),
                !.lines = [c.lines EXCEPT ![s] =
                   [line |-> l.line, dirty |-> l.dirty, data |-> Performed(c.q, l.data)]]]

\* t_serve: the latched request is performed on the line, which is there by now.
Serve(c) ==
  LET s == L2Set(c)
      l == c.lines[s]
  IN  [c EXCEPT !.st = "IDLE", !.q = NoReq, !.ack = c.port, !.out = AnswerTo(c.q, l.data),
                !.lines = [c.lines EXCEPT ![s] =
                   [line |-> l.line, dirty |-> l.dirty \/ c.q.op # "LD",
                    data |-> Performed(c.q, l.data)]]]

L2Lookup(c) ==
  LET l == c.lines[L2Set(c)]
  IN  IF l.line = c.q.line THEN Serve(c)
      ELSE [c EXCEPT !.st = IF l.dirty THEN "WB" ELSE "FILL"]

L2Fill(c, memory) ==
  [c EXCEPT !.st = "SERVE",
            !.lines = [c.lines EXCEPT ![L2Set(c)] =
               [line |-> c.q.line, dirty |-> FALSE, data |-> memory[c.q.line]]]]

Dropped(c) == [c EXCEPT !.lines = [c.lines EXCEPT ![c.walk] = Empty], !.walk = c.walk + 1]

\* Fault: the flush drops lines without writing them back.
L2Walk_NoWriteBack(c) ==
  IF c.walk = L2Sets THEN [c EXCEPT !.st = "IDLE", !.flushed = TRUE, !.walk = 0]
  ELSE Dropped(c)

L2Walk(c) ==
  IF c.walk = L2Sets THEN [c EXCEPT !.st = "IDLE", !.flushed = TRUE, !.walk = 0]
  ELSE IF c.lines[c.walk].dirty THEN [c EXCEPT !.st = "FLUSH_WB"]
  ELSE Dropped(c)

\* A clock of the cache: the ports in raised ask for req, and the memory holds
\* memory.
L2Next(c, raised, req, flush, memory) ==
  LET d == [c EXCEPT !.ack = NoPort, !.out = NoAnswer, !.flushed = FALSE]
      pick == Select(raised, c.port, NumPorts)
  IN  CASE c.st = "IDLE" /\ flush -> [d EXCEPT !.st = "FLUSH"]
        [] c.st = "IDLE" /\ ~flush /\ raised # {} ->
             [d EXCEPT !.st = "LOOKUP", !.q = req[pick], !.port = pick]
        [] c.st = "LOOKUP"   -> L2Lookup(d)
        [] c.st = "WB"       -> [d EXCEPT !.st = "FILL"]
        [] c.st = "FILL"     -> L2Fill(d, memory)
        [] c.st = "SERVE"    -> Serve(d)
        [] c.st = "FLUSH"    -> L2Walk(d)
        [] c.st = "FLUSH_WB" -> [Dropped(d) EXCEPT !.st = "FLUSH"]
        [] OTHER             -> d
=============================================================================
