---------------------------- MODULE MemSystemProofs ----------------------------
(***************************************************************************)
(* First the two caches by themselves: what a clock of l1_dcache and of    *)
(* l2_cache keeps, and what it does to the memory they show, each a record *)
(* with any number of sets, ports, lines and words.  Then the memory       *)
(* system: it keeps its invariant, and with it implements one memory       *)
(* (GlobalMemory), for any number of units and any requests.               *)
(***************************************************************************)
EXTENDS MemSystem, RoundRobinProofs

\* The states in which an L1 waits for the L2.
L1Wait == {"FILL", "STORE", "ATOM"}

\* An L1 by itself.
L1Request(c) ==
  /\ c.q = NoReq <=> c.st \in {"IDLE", "FLUSH"}
  /\ c.st = "FILL" => c.q.op = "LD"
  /\ c.st = "STORE" => c.q.op = "ST"
  /\ c.st = "ATOM" => c.q.op = "ATOM"
  /\ c.resp # NoAnswer => c.st = "IDLE"
L1Entry(c) == c.lines[SetOf(c.q.line, L1Sets)]
L1Copies(c) ==
  /\ c.st \in {"FILL", "ATOM"} => L1Entry(c).line # c.q.line
  /\ c.st = "STORE" /\ L1Entry(c).line = c.q.line =>
       \A w \in c.q.strb : L1Entry(c).data[w] = c.q.data[w]
L1Flush(c) ==
  /\ c.st # "FLUSH" => c.walk = 0
  /\ \A s \in 0 .. L1Sets - 1 : s < c.walk => c.lines[s] = Invalid
  /\ c.flushed => c.st = "IDLE" /\ \A s \in 0 .. L1Sets - 1 : c.lines[s] = Invalid
L1Inv(c) == c \in L1Type /\ L1Request(c) /\ L1Copies(c) /\ L1Flush(c)

\* The L2 by itself.
L2Busy == {"LOOKUP", "WB", "FILL", "SERVE"}
L2Walks == {"FLUSH", "FLUSH_WB"}
L2Request(c) ==
  /\ c.q # NoReq <=> c.st \in L2Busy
  /\ c.ack # NoPort => c.st = "IDLE"
  /\ c.ack # NoPort <=> c.out # NoAnswer
L2Places(c) ==
  /\ \A s \in 0 .. L2Sets - 1 : c.lines[s] # Empty => SetOf(c.lines[s].line, L2Sets) = s
  /\ c.st \in {"WB", "FILL"} => c.lines[L2Set(c)].line # c.q.line
  /\ c.st = "WB" => c.lines[L2Set(c)].dirty
  /\ c.st = "SERVE" => c.lines[L2Set(c)].line = c.q.line
L2Flush(c) ==
  /\ c.st \notin L2Walks => c.walk = 0
  /\ c.st = "FLUSH_WB" => c.walk < L2Sets /\ c.lines[c.walk].dirty
  /\ \A s \in 0 .. L2Sets - 1 : s < c.walk => c.lines[s] = Empty
  /\ c.flushed => c.st = "IDLE" /\ \A s \in 0 .. L2Sets - 1 : c.lines[s] = Empty
L2Inv(c) == c \in L2Type /\ L2Request(c) /\ L2Places(c) /\ L2Flush(c)

\* The memory behind it: a line that is clean, or written back already, is the line there.
CleanInv(c, m) ==
  /\ \A s \in 0 .. L2Sets - 1 : c.lines[s] # Empty /\ ~c.lines[s].dirty => c.lines[s].data = m[c.lines[s].line]
  /\ c.st = "FILL" /\ c.lines[L2Set(c)] # Empty => c.lines[L2Set(c)].data = m[c.lines[L2Set(c)].line]

\* An answer to the request q.
Matches(ans, q) == q # NoReq /\ ans \in Answers /\ ans.op = q.op

\* An L1 by its fields.
L1Rec(st, lines, q, resp, walk, flushed) ==
  [st |-> st, lines |-> lines, q |-> q, resp |-> resp, walk |-> walk, flushed |-> flushed]

\* A clock of an L1, of a kind ("flush" when the flush is pulsed), while the L2
\* acknowledges port.
L1After(c, req, kind, port, me, ans) == L1Next(c, req, kind = "flush", port = me, ans)

\* What the type says of each field of l1_dcache.
LEMMA L1Fields ==
  ASSUME NEW c \in L1Type
  PROVE  /\ c = L1Rec(c.st, c.lines, c.q, c.resp, c.walk, c.flushed)
         /\ c.st \in {"IDLE", "LOOKUP"} \cup L1Wait \cup {"FLUSH"}
         /\ c.lines \in [0 .. L1Sets - 1 -> L1Line]
         /\ c.q \in Request \cup {NoReq} /\ c.resp \in Answers \cup {NoAnswer}
         /\ c.walk \in 0 .. L1Sets /\ c.flushed \in BOOLEAN
  BY DEF L1Type, L1Rec, L1Wait

\* The pulses (c_resp_ready, flush_done) last one clock: what a clock starts from.
LEMMA L1Cleared ==
  ASSUME NEW c \in L1Type, NEW d, d = [c EXCEPT !.resp = NoAnswer, !.flushed = FALSE]
  PROVE  d = L1Rec(c.st, c.lines, c.q, NoAnswer, c.walk, FALSE)
  BY DEF L1Type, L1Rec

\* An idle L1 without a request, and one whose answer has not come, stay as they are.
LEMMA L1Stays ==
  ASSUME NEW c \in L1Type, NEW req, NEW kind, NEW port, NEW me, NEW ans,
         \/ c.st = "IDLE" /\ kind # "flush" /\ req = NoReq
         \/ c.st \in L1Wait /\ port # me
  PROVE  L1After(c, req, kind, port, me, ans) = L1Rec(c.st, c.lines, c.q, NoAnswer, c.walk, FALSE)
  BY DEF L1Type, L1Rec, L1Wait, L1After, L1Next

\* S_IDLE latches the request.
LEMMA L1Accepts ==
  ASSUME NEW c \in L1Type, NEW req, NEW kind, NEW port, NEW me, NEW ans,
         c.st = "IDLE", kind # "flush", req # NoReq
  PROVE  L1After(c, req, kind, port, me, ans) = L1Rec("LOOKUP", c.lines, req, NoAnswer, c.walk, FALSE)
  BY DEF L1Type, L1Rec, L1Wait, L1After, L1Next

\* S_LOOKUP, by the request and whether it hits.
LEMMA L1Looks ==
  ASSUME NEW c \in L1Type, NEW req, NEW kind, NEW port, NEW me, NEW ans,
         c.st = "LOOKUP", c.q \in Request
  PROVE  LET s == SetOf(c.q.line, L1Sets)
             hit == c.lines[s].line = c.q.line
             n == L1After(c, req, kind, port, me, ans)
         IN  /\ c.q.op = "LD" /\ hit =>
                  n = L1Rec("IDLE", c.lines, NoReq, AnswerTo(c.q, c.lines[s].data), c.walk, FALSE)
             /\ c.q.op = "LD" /\ ~hit => n = L1Rec("FILL", c.lines, c.q, NoAnswer, c.walk, FALSE)
             /\ c.q.op = "ST" /\ hit =>
                  n = L1Rec("STORE",
                            [c.lines EXCEPT ![s] = [line |-> c.q.line,
                                                     data |-> Merge(c.lines[s].data, c.q.data, c.q.strb)]],
                            c.q, NoAnswer, c.walk, FALSE)
             /\ c.q.op = "ST" /\ ~hit => n = L1Rec("STORE", c.lines, c.q, NoAnswer, c.walk, FALSE)
             /\ c.q.op = "ATOM" /\ hit =>
                  n = L1Rec("ATOM", [c.lines EXCEPT ![s] = Invalid], c.q, NoAnswer, c.walk, FALSE)
             /\ c.q.op = "ATOM" /\ ~hit => n = L1Rec("ATOM", c.lines, c.q, NoAnswer, c.walk, FALSE)
  <1>0. PICK d : d = [c EXCEPT !.resp = NoAnswer, !.flushed = FALSE]
    OBVIOUS
  <1>1. L1After(c, req, kind, port, me, ans) = L1Lookup(d)
    BY <1>0 DEF L1After, L1Next
  <1>2. d = L1Rec("LOOKUP", c.lines, c.q, NoAnswer, c.walk, FALSE)
    BY <1>0, L1Cleared
  <1> QED
    BY <1>1, <1>2 DEF L1Lookup, L1Rec, Request, Load, Store, Atomic

\* An acknowledge ends S_FILL, S_STORE and S_ATOM; S_FILL puts the line in its set.
LEMMA L1TakesAnswer ==
  ASSUME NEW c \in L1Type, NEW req, NEW kind, NEW port, NEW me, NEW ans, c.st \in L1Wait, port = me
  PROVE  L1After(c, req, kind, port, me, ans) =
           L1Rec("IDLE",
                 IF c.st = "FILL"
                   THEN [c.lines EXCEPT ![SetOf(c.q.line, L1Sets)] = [line |-> c.q.line, data |-> ans.data]]
                   ELSE c.lines,
                 NoReq, ans, c.walk, FALSE)
  <1>0. PICK d : d = [c EXCEPT !.resp = NoAnswer, !.flushed = FALSE]
    OBVIOUS
  <1>1. L1After(c, req, kind, port, me, ans) = L1Answered(d, ans)
    BY <1>0 DEF L1After, L1Next, L1Wait
  <1>2. d = L1Rec(c.st, c.lines, c.q, NoAnswer, c.walk, FALSE)
    BY <1>0, L1Cleared
  <1> QED
    BY <1>1, <1>2 DEF L1Answered, L1Rec

\* The flush walk: its start, its steps and its report.
LEMMA L1Flushes ==
  ASSUME NEW c \in L1Type, NEW req, NEW kind, NEW port, NEW me, NEW ans
  PROVE  LET n == L1After(c, req, kind, port, me, ans)
         IN  /\ c.st = "IDLE" /\ kind = "flush" => n = L1Rec("FLUSH", c.lines, c.q, NoAnswer, c.walk, FALSE)
             /\ c.st = "FLUSH" /\ c.walk = L1Sets => n = L1Rec("IDLE", c.lines, c.q, NoAnswer, 0, TRUE)
             /\ c.st = "FLUSH" /\ c.walk # L1Sets =>
                  n = L1Rec("FLUSH", [c.lines EXCEPT ![c.walk] = Invalid], c.q, NoAnswer, c.walk + 1, FALSE)
  <1>0. PICK d : d = [c EXCEPT !.resp = NoAnswer, !.flushed = FALSE]
    OBVIOUS
  <1>1. d = L1Rec(c.st, c.lines, c.q, NoAnswer, c.walk, FALSE)
    BY <1>0, L1Cleared
  <1>2. c.st = "IDLE" /\ kind = "flush" => L1After(c, req, kind, port, me, ans) = [d EXCEPT !.st = "FLUSH"]
    BY <1>0 DEF L1After, L1Next
  <1>3. c.st = "FLUSH" => L1After(c, req, kind, port, me, ans) = L1Walk(d)
    BY <1>0 DEF L1After, L1Next
  <1> QED
    BY <1>1, <1>2, <1>3 DEF L1Walk, L1Rec

\* Types of what the caches compute.
LEMMA SetOfType ==
  ASSUME NEW n \in Nat \ {0}, NEW l \in Lines
  PROVE  SetOf(l, n) \in 0 .. n - 1
  BY MemoryAssumption DEF SetOf, Lines

\* What a request does to a line is a line; a store changes exactly the words it strobes.
LEMMA PerformedType ==
  ASSUME NEW q \in Request, NEW line \in LineData
  PROVE  /\ Performed(q, line) \in LineData
         /\ AnswerTo(q, line) \in Answers /\ AnswerTo(q, line).op = q.op
         /\ q.op = "LD" => Performed(q, line) = line /\ AnswerTo(q, line).data = line
         /\ q.op = "ST" => \A w \in Offsets :
              Performed(q, line)[w] = IF w \in q.strb THEN q.data[w] ELSE line[w]
  <1>1. CASE q \in Load
    BY <1>1 DEF Load, Performed, AnswerTo, Answers
  <1>2. CASE q \in Store
    <2>1. q.op = "ST" /\ q.data \in LineData /\ q.strb \in SUBSET Offsets
      BY <1>2 DEF Store
    <2>2. Performed(q, line) = Merge(line, q.data, q.strb) /\ AnswerTo(q, line) = [op |-> "ST"]
      BY <2>1 DEF Performed, AnswerTo
    <2>3. Merge(line, q.data, q.strb) \in LineData
      BY <2>1 DEF Merge, LineData
    <2> QED
      BY <2>1, <2>2, <2>3 DEF Merge, Answers
  <1>3. CASE q \in Atomic
    <2>1. /\ q.op = "ATOM" /\ q.off \in Offsets /\ q.val \in Word /\ line[q.off] \in Word
          /\ q.fn \in {"ADD", "MIN", "MAX", "EXCH", "CAS"}
      BY <1>3 DEF Atomic, LineData
    <2>2. (line[q.off] + q.val) % WordSpace \in Word
      BY <2>1, MemoryAssumption DEF Word
    <2>3. AtomicResult(q, line[q.off]) \in Word
      BY <2>1, <2>2 DEF AtomicResult
    <2>4. Performed(q, line) = [line EXCEPT ![q.off] = AtomicResult(q, line[q.off])]
          /\ AnswerTo(q, line) = [op |-> "ATOM", old |-> line[q.off]]
      BY <2>1 DEF Performed, AnswerTo
    <2> QED
      BY <2>1, <2>3, <2>4 DEF LineData, Answers
  <1> QED
    BY <1>1, <1>2, <1>3 DEF Request

\* An answer is told from none, and that of a load is a line.
LEMMA AnswerKinds ==
  ASSUME NEW a \in Answers
  PROVE  a # NoAnswer /\ (a.op = "LD" => a.data \in LineData)
  BY DEF Answers, NoAnswer

\* The three kinds of request.
LEMMA RequestKinds ==
  ASSUME NEW q \in Request
  PROVE  /\ q # NoReq /\ q.op \in {"LD", "ST", "ATOM"} /\ q.line \in Lines
         /\ q.op = "ST" => q.data \in LineData /\ q.strb \in SUBSET Offsets
  BY DEF Request, Load, Store, Atomic, NoReq

\* L1Inv by its fields.
L1Good(st, lines, q, resp, walk, flushed) ==
  LET e == lines[SetOf(q.line, L1Sets)] IN
  /\ st \in {"IDLE", "LOOKUP", "FILL", "STORE", "ATOM", "FLUSH"}
  /\ lines \in [0 .. L1Sets - 1 -> L1Line]
  /\ q \in Request \cup {NoReq} /\ resp \in Answers \cup {NoAnswer}
  /\ walk \in 0 .. L1Sets /\ flushed \in BOOLEAN
  /\ q = NoReq <=> st \in {"IDLE", "FLUSH"}
  /\ st = "FILL" => q.op = "LD" /\ e.line # q.line
  /\ st = "STORE" => q.op = "ST" /\ (e.line = q.line => \A w \in q.strb : e.data[w] = q.data[w])
  /\ st = "ATOM" => q.op = "ATOM" /\ e.line # q.line
  /\ resp # NoAnswer => st = "IDLE"
  /\ st # "FLUSH" => walk = 0
  /\ \A s \in 0 .. L1Sets - 1 : s < walk => lines[s] = Invalid
  /\ flushed => st = "IDLE" /\ \A s \in 0 .. L1Sets - 1 : lines[s] = Invalid

\* L1Inv gives the fields.
LEMMA L1Parts ==
  ASSUME NEW c, L1Inv(c)
  PROVE  c \in L1Type /\ L1Good(c.st, c.lines, c.q, c.resp, c.walk, c.flushed)
  <1>1. c \in L1Type
    BY DEF L1Inv
  <1> QED
    BY <1>1, L1Fields DEF L1Inv, L1Good, L1Request, L1Copies, L1Entry, L1Flush, L1Wait

\* The fields give L1Inv.
LEMMA L1Build ==
  ASSUME NEW st, NEW lines, NEW q, NEW resp, NEW walk, NEW flushed,
         L1Good(st, lines, q, resp, walk, flushed)
  PROVE  L1Inv(L1Rec(st, lines, q, resp, walk, flushed))
  <1>1. L1Rec(st, lines, q, resp, walk, flushed) \in L1Type
    BY DEF L1Rec, L1Type, L1Good
  <1> QED
    BY <1>1 DEF L1Inv, L1Good, L1Rec, L1Request, L1Copies, L1Entry, L1Flush

\* A clock of an L1 keeps L1Inv, whatever the unit asks, if what the L2 answers is
\* the answer to its request.
LEMMA L1Step ==
  ASSUME NEW c, L1Inv(c), NEW req \in Request \cup {NoReq}, NEW kind, NEW port, NEW me,
         NEW ans, c.st \in L1Wait /\ port = me => Matches(ans, c.q)
  PROVE  L1Inv(L1After(c, req, kind, port, me, ans))
  <1> DEFINE n == L1After(c, req, kind, port, me, ans)
  <1>0. c \in L1Type
    BY L1Parts
  <1>1. L1Good(c.st, c.lines, c.q, c.resp, c.walk, c.flushed)
    BY L1Parts
  <1>10. /\ c.lines \in [0 .. L1Sets - 1 -> L1Line] /\ c.q \in Request \cup {NoReq}
         /\ c.walk \in 0 .. L1Sets
         /\ c.st # "FLUSH" => c.walk = 0
         /\ c.st \in {"IDLE", "LOOKUP", "FLUSH"} \cup L1Wait
         /\ c.q = NoReq <=> c.st \in {"IDLE", "FLUSH"}
         /\ c.st = "FILL" => c.q.op = "LD"
         /\ \A s \in 0 .. L1Sets - 1 : s < c.walk => c.lines[s] = Invalid
    BY <1>1 DEF L1Good, L1Wait
  <1>2. CASE \/ c.st = "IDLE" /\ kind # "flush" /\ req = NoReq
             \/ c.st \in L1Wait /\ port # me
    <2>1. n = L1Rec(c.st, c.lines, c.q, NoAnswer, c.walk, FALSE)
      BY <1>0, <1>2, L1Stays
    <2>9. L1Good(c.st, c.lines, c.q, NoAnswer, c.walk, FALSE)
      BY <1>1, <2>1 DEF L1Good, L1Wait
    <2> QED
      BY <2>1, <2>9, L1Build, Zenon
  <1>3. CASE c.st = "IDLE" /\ kind # "flush" /\ req # NoReq
    <2>1. n = L1Rec("LOOKUP", c.lines, req, NoAnswer, c.walk, FALSE)
      BY <1>0, <1>3, L1Accepts
    <2>9. L1Good("LOOKUP", c.lines, req, NoAnswer, c.walk, FALSE)
      BY <1>1, <1>3, <2>1 DEF L1Good, L1Wait
    <2> QED
      BY <2>1, <2>9, L1Build, Zenon
  <1>4. CASE c.st = "LOOKUP"
    <2> DEFINE s == SetOf(c.q.line, L1Sets)
    <2>1. c.q \in Request /\ c.q \in Request \cup {NoReq}
      BY <1>10, <1>4
    <2>2. s \in 0 .. L1Sets - 1 /\ c.walk = 0
      BY <1>10, <1>4, <2>1, RequestKinds, SetOfType, L1Assumption
    <2>3. c.lines[s] \in L1Line
      BY <1>10, <2>2
    <2>4. c.lines[s].line = c.q.line => c.lines[s].data \in LineData
      BY <2>1, <2>3, RequestKinds DEF L1Line, Invalid, Lines
    <2>5. CASE c.q.op = "LD"
      <3>1. CASE c.lines[s].line = c.q.line
        <4>1. n = L1Rec("IDLE", c.lines, NoReq, AnswerTo(c.q, c.lines[s].data), c.walk, FALSE)
          BY <1>0, <1>4, <2>1, <2>5, <3>1, L1Looks, Zenon
        <4>2. AnswerTo(c.q, c.lines[s].data) \in Answers
          BY <2>1, <2>4, <3>1, PerformedType
        <4>9. L1Good("IDLE", c.lines, NoReq, AnswerTo(c.q, c.lines[s].data), c.walk, FALSE)
          BY <1>1, <2>2, <4>1, <4>2 DEF L1Good, L1Wait
        <4> QED
          BY <4>1, <4>9, L1Build, Zenon
      <3>2. CASE c.lines[s].line # c.q.line
        <4>1. n = L1Rec("FILL", c.lines, c.q, NoAnswer, c.walk, FALSE)
          BY <1>0, <1>4, <2>1, <2>5, <3>2, L1Looks, Zenon
        <4>9. L1Good("FILL", c.lines, c.q, NoAnswer, c.walk, FALSE)
          BY <1>1, <2>1, <2>2, <2>5, <3>2, <4>1, RequestKinds
          DEF L1Good, L1Wait
        <4> QED
          BY <4>1, <4>9, L1Build, Zenon
      <3> QED
        BY <3>1, <3>2
    <2>6. CASE c.q.op = "ST"
      <3>1. CASE c.lines[s].line = c.q.line
        <4> DEFINE e == [line |-> c.q.line, data |-> Merge(c.lines[s].data, c.q.data, c.q.strb)]
        <4>1. n = L1Rec("STORE", [c.lines EXCEPT ![s] = e], c.q, NoAnswer, c.walk, FALSE)
          BY <1>0, <1>4, <2>1, <2>6, <3>1, L1Looks, Zenon
        <4>2. e \in L1Line /\ e.line = c.q.line /\ \A w \in c.q.strb : e.data[w] = c.q.data[w]
          BY <2>1, <2>4, <2>6, <3>1, RequestKinds DEF Merge, L1Line, LineData
        <4> HIDE DEF e
        <4>3. PICK lines : lines = [c.lines EXCEPT ![s] = e]
          OBVIOUS
        <4>4. lines \in [0 .. L1Sets - 1 -> L1Line] /\ lines[s] = e
          BY <1>10, <2>2, <4>2, <4>3
        <4>5. L1Good("STORE", lines, c.q, NoAnswer, c.walk, FALSE)
          BY <1>10, <2>1, <2>2, <2>6, <4>2, <4>4, RequestKinds, L1Assumption DEF L1Good
        <4>6. n = L1Rec("STORE", lines, c.q, NoAnswer, c.walk, FALSE)
          BY <4>1, <4>3, Zenon
        <4> QED
          BY <4>5, <4>6, L1Build, Zenon
      <3>2. CASE c.lines[s].line # c.q.line
        <4>1. n = L1Rec("STORE", c.lines, c.q, NoAnswer, c.walk, FALSE)
          BY <1>0, <1>4, <2>1, <2>6, <3>2, L1Looks, Zenon
        <4>9. L1Good("STORE", c.lines, c.q, NoAnswer, c.walk, FALSE)
          BY <1>1, <2>1, <2>2, <2>6, <3>2, <4>1, RequestKinds
          DEF L1Good, L1Wait
        <4> QED
          BY <4>1, <4>9, L1Build, Zenon
      <3> QED
        BY <3>1, <3>2
    <2>7. CASE c.q.op = "ATOM"
      <3>1. CASE c.lines[s].line = c.q.line
        <4>1. n = L1Rec("ATOM", [c.lines EXCEPT ![s] = Invalid], c.q, NoAnswer, c.walk, FALSE)
          BY <1>0, <1>4, <2>1, <2>7, <3>1, L1Looks, Zenon
        <4>2. Invalid \in L1Line /\ Invalid.line # c.q.line
          BY <2>1, RequestKinds DEF L1Line, Invalid, Lines
        <4>3. PICK lines : lines = [c.lines EXCEPT ![s] = Invalid]
          OBVIOUS
        <4>4. lines \in [0 .. L1Sets - 1 -> L1Line] /\ lines[s] = Invalid
          BY <1>10, <2>2, <4>2, <4>3
        <4>5. L1Good("ATOM", lines, c.q, NoAnswer, c.walk, FALSE)
          BY <1>10, <2>1, <2>2, <2>7, <4>2, <4>4, RequestKinds, L1Assumption DEF L1Good
        <4>6. n = L1Rec("ATOM", lines, c.q, NoAnswer, c.walk, FALSE)
          BY <4>1, <4>3, Zenon
        <4> QED
          BY <4>5, <4>6, L1Build, Zenon
      <3>2. CASE c.lines[s].line # c.q.line
        <4>1. n = L1Rec("ATOM", c.lines, c.q, NoAnswer, c.walk, FALSE)
          BY <1>0, <1>4, <2>1, <2>7, <3>2, L1Looks, Zenon
        <4>9. L1Good("ATOM", c.lines, c.q, NoAnswer, c.walk, FALSE)
          BY <1>1, <2>1, <2>2, <2>7, <3>2, <4>1, RequestKinds
          DEF L1Good, L1Wait
        <4> QED
          BY <4>1, <4>9, L1Build, Zenon
      <3> QED
        BY <3>1, <3>2
    <2> QED
      BY <2>1, <2>5, <2>6, <2>7, RequestKinds
  <1>5. CASE c.st \in L1Wait /\ port = me
    <2> DEFINE s == SetOf(c.q.line, L1Sets)
               e == [line |-> c.q.line, data |-> ans.data]
    <2>0. PICK lines : lines = IF c.st = "FILL" THEN [c.lines EXCEPT ![s] = e] ELSE c.lines
      OBVIOUS
    <2>1. n = L1Rec("IDLE", lines, NoReq, ans, c.walk, FALSE)
      BY <1>0, <1>5, <2>0, L1TakesAnswer, Zenon
    <2>2. c.q \in Request /\ ans \in Answers /\ ans.op = c.q.op
      BY <1>10, <1>5 DEF Matches
    <2>3. c.walk = 0 /\ s \in 0 .. L1Sets - 1
      BY <1>10, <1>5, <2>2, RequestKinds, SetOfType, L1Assumption DEF L1Wait
    <2>4. c.st = "FILL" => e \in L1Line
      BY <1>10, <2>2, RequestKinds, AnswerKinds DEF L1Line
    <2>5. lines \in [0 .. L1Sets - 1 -> L1Line]
      BY <1>10, <2>0, <2>3, <2>4
    <2>9. L1Good("IDLE", lines, NoReq, ans, c.walk, FALSE)
      BY <2>2, <2>3, <2>5, L1Assumption DEF L1Good
    <2> QED
      BY <2>1, <2>9, L1Build, Zenon
  <1>6. CASE c.st = "IDLE" /\ kind = "flush"
    <2>1. n = L1Rec("FLUSH", c.lines, c.q, NoAnswer, c.walk, FALSE)
      BY <1>0, <1>6, L1Flushes
    <2>9. L1Good("FLUSH", c.lines, c.q, NoAnswer, c.walk, FALSE)
      BY <1>10, <1>6 DEF L1Good
    <2> QED
      BY <2>1, <2>9, L1Build, Zenon
  <1>7. CASE c.st = "FLUSH"
    <2>1. CASE c.walk = L1Sets
      <3>1. n = L1Rec("IDLE", c.lines, c.q, NoAnswer, 0, TRUE)
        BY <1>0, <1>7, <2>1, L1Flushes
      <3>2. \A s \in 0 .. L1Sets - 1 : c.lines[s] = Invalid
        BY <1>10, <2>1, L1Assumption
      <3>9. L1Good("IDLE", c.lines, c.q, NoAnswer, 0, TRUE)
        BY <1>10, <1>7, <3>2, L1Assumption DEF L1Good
      <3> QED
        BY <3>1, <3>9, L1Build, Zenon
    <2>2. CASE c.walk # L1Sets
      <3>2. Invalid \in L1Line /\ c.walk \in 0 .. L1Sets - 1
        BY <1>10, <2>2, L1Assumption DEF L1Line
      <3>3. PICK lines : lines = [c.lines EXCEPT ![c.walk] = Invalid]
        OBVIOUS
      <3>4. /\ lines \in [0 .. L1Sets - 1 -> L1Line]
            /\ \A s \in 0 .. L1Sets - 1 : s < c.walk + 1 => lines[s] = Invalid
        BY <1>10, <3>2, <3>3, L1Assumption
      <3>5. L1Good("FLUSH", lines, c.q, NoAnswer, c.walk + 1, FALSE)
        BY <1>10, <1>7, <3>2, <3>4, L1Assumption DEF L1Good
      <3>6. n = L1Rec("FLUSH", lines, c.q, NoAnswer, c.walk + 1, FALSE)
        BY <1>0, <1>7, <2>2, <3>3, L1Flushes
      <3> QED
        BY <3>5, <3>6, L1Build, Zenon
    <2> QED
      BY <2>1, <2>2
  <1> QED
    BY <1>10, <1>2, <1>3, <1>4, <1>5, <1>6, <1>7

\* The L2 by its fields.
L2Rec(st, lines, q, port, ack, out, walk, flushed) ==
  [st |-> st, lines |-> lines, q |-> q, port |-> port, ack |-> ack, out |-> out,
   walk |-> walk, flushed |-> flushed]

\* A clock of the L2, of a kind as above.
L2After(c, raised, req, kind, m) == L2Next(c, raised, req, kind = "flush", m)

\* What the type says of each field of l2_cache.
LEMMA L2Fields ==
  ASSUME NEW c \in L2Type
  PROVE  /\ c = L2Rec(c.st, c.lines, c.q, c.port, c.ack, c.out, c.walk, c.flushed)
         /\ c.st \in {"IDLE"} \cup L2Busy \cup L2Walks
         /\ c.lines \in [0 .. L2Sets - 1 -> L2Line]
         /\ c.q \in Request \cup {NoReq} /\ c.port \in Ports
         /\ c.ack \in Ports \cup {NoPort} /\ c.out \in Answers \cup {NoAnswer}
         /\ c.walk \in 0 .. L2Sets /\ c.flushed \in BOOLEAN
  BY DEF L2Type, L2Rec, L2Busy, L2Walks

\* The pulses (ack, flush_done) last one clock here too.
LEMMA L2Cleared ==
  ASSUME NEW c \in L2Type, NEW d, d = [c EXCEPT !.ack = NoPort, !.out = NoAnswer, !.flushed = FALSE]
  PROVE  d = L2Rec(c.st, c.lines, c.q, c.port, NoPort, NoAnswer, c.walk, FALSE)
  BY DEF L2Type, L2Rec

\* T_IDLE starts the flush walk, or waits.
LEMMA L2Waits ==
  ASSUME NEW c \in L2Type, NEW raised, NEW req, NEW kind, NEW m, c.st = "IDLE"
  PROVE  LET n == L2After(c, raised, req, kind, m)
         IN  /\ kind = "flush" => n = L2Rec("FLUSH", c.lines, c.q, c.port, NoPort, NoAnswer, c.walk, FALSE)
             /\ kind # "flush" /\ raised = {} =>
                  n = L2Rec("IDLE", c.lines, c.q, c.port, NoPort, NoAnswer, c.walk, FALSE)
  <1>0. PICK d : d = [c EXCEPT !.ack = NoPort, !.out = NoAnswer, !.flushed = FALSE]
    OBVIOUS
  <1>1. d = L2Rec(c.st, c.lines, c.q, c.port, NoPort, NoAnswer, c.walk, FALSE)
    BY <1>0, L2Cleared
  <1>2. kind = "flush" => L2After(c, raised, req, kind, m) = [d EXCEPT !.st = "FLUSH"]
    BY <1>0 DEF L2After, L2Next
  <1>3. kind # "flush" /\ raised = {} => L2After(c, raised, req, kind, m) = d
    BY <1>0 DEF L2After, L2Next
  <1> QED
    BY <1>1, <1>2, <1>3 DEF L2Rec

\* The L2 once it has picked one of the raised requests.
AfterPick(c, raised, req) ==
  LET pick == Select(raised, c.port, NumPorts)
  IN  L2Rec("LOOKUP", c.lines, req[pick], pick, NoPort, NoAnswer, c.walk, FALSE)

\* T_IDLE latches the request of the port it selects.
LEMMA L2Picks ==
  ASSUME NEW c \in L2Type, NEW raised, NEW req, NEW kind, NEW m,
         c.st = "IDLE", kind # "flush", raised # {}
  PROVE  L2After(c, raised, req, kind, m) = AfterPick(c, raised, req)
  <1>3. PICK pick : pick = Select(raised, c.port, NumPorts)
    OBVIOUS
  <1>0. PICK d : d = [c EXCEPT !.ack = NoPort, !.out = NoAnswer, !.flushed = FALSE]
    OBVIOUS
  <1>1. d = L2Rec(c.st, c.lines, c.q, c.port, NoPort, NoAnswer, c.walk, FALSE)
    BY <1>0, L2Cleared
  <1>2. L2After(c, raised, req, kind, m) = [d EXCEPT !.st = "LOOKUP", !.q = req[pick], !.port = pick]
    BY <1>0, <1>3 DEF L2After, L2Next
  <1>4. L2After(c, raised, req, kind, m)
          = L2Rec("LOOKUP", c.lines, req[pick], pick, NoPort, NoAnswer, c.walk, FALSE)
    BY <1>1, <1>2 DEF L2Rec
  <1> QED
    BY <1>3, <1>4, Zenon DEF AfterPick

\* What t_serve and the fill put in the line's set.
Replaced(lines, s, e) == [lines EXCEPT ![s] = e]
\* The line once t_serve has performed the request on it.
ServedLine(c) == [line |-> c.lines[L2Set(c)].line, dirty |-> c.lines[L2Set(c)].dirty \/ c.q.op # "LD",
                  data |-> Performed(c.q, c.lines[L2Set(c)].data)]
\* The line T_FILL takes from memory.
FilledLine(c, m) == [line |-> c.q.line, dirty |-> FALSE, data |-> m[c.q.line]]

\* T_SERVE, and T_LOOKUP on a hit, perform the request and acknowledge its port.
LEMMA L2Serves ==
  ASSUME NEW c \in L2Type, NEW raised, NEW req, NEW kind, NEW m, NEW s, s = L2Set(c),
         c.st = "SERVE" \/ (c.st = "LOOKUP" /\ c.lines[s].line = c.q.line)
  PROVE  L2After(c, raised, req, kind, m)
           = L2Rec("IDLE", Replaced(c.lines, s, ServedLine(c)), NoReq, c.port, c.port,
                   AnswerTo(c.q, c.lines[s].data), c.walk, FALSE)
  <1>9. PICK lines : lines = Replaced(c.lines, s, ServedLine(c))
    OBVIOUS
  <1>0. PICK d : d = [c EXCEPT !.ack = NoPort, !.out = NoAnswer, !.flushed = FALSE]
    OBVIOUS
  <1>1. d = L2Rec(c.st, c.lines, c.q, c.port, NoPort, NoAnswer, c.walk, FALSE)
    BY <1>0, L2Cleared
  <1>2. c.st = "SERVE" => L2After(c, raised, req, kind, m) = Serve(d)
    BY <1>0 DEF L2After, L2Next
  <1>3. c.st = "LOOKUP" => L2After(c, raised, req, kind, m) = L2Lookup(d)
    BY <1>0 DEF L2After, L2Next
  <1>4. d.lines = c.lines /\ d.q = c.q /\ d.port = c.port /\ L2Set(d) = s
    BY <1>1 DEF L2Rec, L2Set
  <1>5. L2After(c, raised, req, kind, m) = Serve(d)
    BY <1>2, <1>3, <1>4 DEF L2Lookup
  <1>6. Serve(d) = [d EXCEPT !.st = "IDLE", !.q = NoReq, !.ack = c.port, !.out = AnswerTo(c.q, c.lines[s].data),
                !.lines = lines]
    BY <1>4, <1>9 DEF Replaced, ServedLine, Serve
  <1> QED
    BY <1>1, <1>5, <1>6, <1>9 DEF L2Rec

\* T_LOOKUP on a miss writes a dirty line back before it fills.
LEMMA L2Misses ==
  ASSUME NEW c \in L2Type, NEW raised, NEW req, NEW kind, NEW m, NEW s, s = L2Set(c)
  PROVE  LET n == L2After(c, raised, req, kind, m)
         IN  /\ c.st = "LOOKUP" /\ c.lines[s].line # c.q.line =>
                  n = L2Rec(IF c.lines[s].dirty THEN "WB" ELSE "FILL", c.lines, c.q, c.port,
                            NoPort, NoAnswer, c.walk, FALSE)
             /\ c.st = "WB" => n = L2Rec("FILL", c.lines, c.q, c.port, NoPort, NoAnswer, c.walk, FALSE)
  <1>0. PICK d : d = [c EXCEPT !.ack = NoPort, !.out = NoAnswer, !.flushed = FALSE]
    OBVIOUS
  <1>1. d = L2Rec(c.st, c.lines, c.q, c.port, NoPort, NoAnswer, c.walk, FALSE)
    BY <1>0, L2Cleared
  <1>2. c.st = "WB" => L2After(c, raised, req, kind, m) = [d EXCEPT !.st = "FILL"]
    BY <1>0 DEF L2After, L2Next
  <1>3. c.st = "LOOKUP" => L2After(c, raised, req, kind, m) = L2Lookup(d)
    BY <1>0 DEF L2After, L2Next
  <1>4. d.lines = c.lines /\ d.q = c.q /\ L2Set(d) = s
    BY <1>1 DEF L2Rec, L2Set
  <1>5. c.st = "LOOKUP" /\ c.lines[s].line # c.q.line =>
          L2After(c, raised, req, kind, m) = [d EXCEPT !.st = IF c.lines[s].dirty THEN "WB" ELSE "FILL"]
    BY <1>3, <1>4 DEF L2Lookup
  <1> QED
    BY <1>1, <1>2, <1>5 DEF L2Rec

\* The L2 once T_FILL is over.
AfterFill(c, m) ==
  L2Rec("SERVE", Replaced(c.lines, L2Set(c), FilledLine(c, m)), c.q, c.port,
        NoPort, NoAnswer, c.walk, FALSE)

\* T_FILL replaces the line, and then serves it.
LEMMA L2Fills ==
  ASSUME NEW c \in L2Type, NEW raised, NEW req, NEW kind, NEW m, c.st = "FILL"
  PROVE  L2After(c, raised, req, kind, m) = AfterFill(c, m)
  <1>9. PICK lines : lines = Replaced(c.lines, L2Set(c), FilledLine(c, m))
    OBVIOUS
  <1>0. PICK d : d = [c EXCEPT !.ack = NoPort, !.out = NoAnswer, !.flushed = FALSE]
    OBVIOUS
  <1>1. d = L2Rec(c.st, c.lines, c.q, c.port, NoPort, NoAnswer, c.walk, FALSE)
    BY <1>0, L2Cleared
  <1>2. L2After(c, raised, req, kind, m) = L2Fill(d, m)
    BY <1>0 DEF L2After, L2Next
  <1>4. d.lines = c.lines /\ d.q = c.q /\ L2Set(d) = L2Set(c)
    BY <1>1 DEF L2Rec, L2Set
  <1>5. L2Fill(d, m) = [d EXCEPT !.st = "SERVE", !.lines = lines]
    BY <1>4, <1>9 DEF Replaced, FilledLine, L2Fill
  <1>6. L2Fill(d, m) = L2Rec("SERVE", lines, c.q, c.port, NoPort, NoAnswer, c.walk, FALSE)
    BY <1>1, <1>5 DEF L2Rec
  <1> QED
    BY <1>2, <1>6, <1>9, Zenon DEF AfterFill

\* The flush walk of the L2: a dirty line is written back before it is dropped.
LEMMA L2FlushWalks ==
  ASSUME NEW c \in L2Type, NEW raised, NEW req, NEW kind, NEW m,
         NEW lines, lines = [c.lines EXCEPT ![c.walk] = Empty]
  PROVE  LET n == L2After(c, raised, req, kind, m)
         IN  /\ c.st = "FLUSH" /\ c.walk = L2Sets =>
                  n = L2Rec("IDLE", c.lines, c.q, c.port, NoPort, NoAnswer, 0, TRUE)
             /\ c.st = "FLUSH" /\ c.walk # L2Sets /\ c.lines[c.walk].dirty =>
                  n = L2Rec("FLUSH_WB", c.lines, c.q, c.port, NoPort, NoAnswer, c.walk, FALSE)
             /\ c.st = "FLUSH_WB" \/ (c.st = "FLUSH" /\ c.walk # L2Sets /\ ~c.lines[c.walk].dirty) =>
                  n = L2Rec("FLUSH", lines, c.q, c.port, NoPort, NoAnswer, c.walk + 1, FALSE)
  <1>0. PICK d : d = [c EXCEPT !.ack = NoPort, !.out = NoAnswer, !.flushed = FALSE]
    OBVIOUS
  <1>1. d = L2Rec(c.st, c.lines, c.q, c.port, NoPort, NoAnswer, c.walk, FALSE)
    BY <1>0, L2Cleared
  <1>2. c.st = "FLUSH" => L2After(c, raised, req, kind, m) = L2Walk(d)
    BY <1>0 DEF L2After, L2Next
  <1>3. c.st = "FLUSH_WB" => L2After(c, raised, req, kind, m) = [Dropped(d) EXCEPT !.st = "FLUSH"]
    BY <1>0 DEF L2After, L2Next
  <1>4. d.lines = c.lines /\ d.walk = c.walk
    BY <1>1 DEF L2Rec
  <1>5. Dropped(d) = [d EXCEPT !.lines = lines, !.walk = c.walk + 1]
    BY <1>4 DEF Dropped
  <1>6. Dropped(d) = L2Rec(c.st, lines, c.q, c.port, NoPort, NoAnswer, c.walk + 1, FALSE)
    BY <1>1, <1>5 DEF L2Rec
  <1>7. CASE c.st = "FLUSH" /\ c.walk = L2Sets
    <2>1. L2After(c, raised, req, kind, m) = [d EXCEPT !.st = "IDLE", !.flushed = TRUE, !.walk = 0]
      BY <1>2, <1>4, <1>7 DEF L2Walk
    <2> QED
      BY <1>1, <1>7, <2>1 DEF L2Rec
  <1>8. CASE c.st = "FLUSH" /\ c.walk # L2Sets /\ c.lines[c.walk].dirty
    <2>1. L2After(c, raised, req, kind, m) = [d EXCEPT !.st = "FLUSH_WB"]
      BY <1>2, <1>4, <1>8 DEF L2Walk
    <2> QED
      BY <1>1, <1>8, <2>1 DEF L2Rec
  <1>9. CASE c.st = "FLUSH" /\ c.walk # L2Sets /\ ~c.lines[c.walk].dirty
    <2>1. L2After(c, raised, req, kind, m) = Dropped(d)
      BY <1>2, <1>4, <1>9 DEF L2Walk
    <2> QED
      BY <1>6, <1>9, <2>1
  <1>10. CASE c.st = "FLUSH_WB"
    BY <1>3, <1>6, <1>10 DEF L2Rec
  <1> QED
    BY <1>7, <1>8, <1>9, <1>10

\* The memory after a clock of the L2.
Written(c, m) == IF WritesBack(c) THEN [m EXCEPT ![Victim(c).line] = Victim(c).data] ELSE m

\* L2Inv and CleanInv by the cache's fields.
L2Good(st, lines, q, port, ack, out, walk, flushed, m) ==
  LET e == lines[SetOf(q.line, L2Sets)] IN
  /\ st \in {"IDLE", "LOOKUP", "WB", "FILL", "SERVE", "FLUSH", "FLUSH_WB"}
  /\ lines \in [0 .. L2Sets - 1 -> L2Line]
  /\ q \in Request \cup {NoReq} /\ port \in Ports
  /\ ack \in Ports \cup {NoPort} /\ out \in Answers \cup {NoAnswer}
  /\ walk \in 0 .. L2Sets /\ flushed \in BOOLEAN
  /\ q # NoReq <=> st \in {"LOOKUP", "WB", "FILL", "SERVE"}
  /\ ack # NoPort => st = "IDLE"
  /\ ack # NoPort <=> out # NoAnswer
  /\ \A s \in 0 .. L2Sets - 1 : lines[s] # Empty => SetOf(lines[s].line, L2Sets) = s
  /\ st \in {"WB", "FILL"} => e.line # q.line
  /\ st = "WB" => e.dirty
  /\ st = "SERVE" => e.line = q.line
  /\ st \notin {"FLUSH", "FLUSH_WB"} => walk = 0
  /\ st = "FLUSH_WB" => walk < L2Sets /\ lines[walk].dirty
  /\ \A s \in 0 .. L2Sets - 1 : s < walk => lines[s] = Empty
  /\ flushed => st = "IDLE" /\ \A s \in 0 .. L2Sets - 1 : lines[s] = Empty
  /\ \A s \in 0 .. L2Sets - 1 : lines[s] # Empty /\ ~lines[s].dirty => lines[s].data = m[lines[s].line]
  /\ st = "FILL" /\ e # Empty => e.data = m[e.line]

\* L2Inv and CleanInv give the fields.
LEMMA L2Parts ==
  ASSUME NEW c, NEW m, L2Inv(c), CleanInv(c, m)
  PROVE  /\ c \in L2Type
         /\ L2Good(c.st, c.lines, c.q, c.port, c.ack, c.out, c.walk, c.flushed, m)
  <1>1. c \in L2Type
    BY DEF L2Inv
  <1> QED
    BY <1>1, L2Fields DEF L2Inv, CleanInv, L2Good, L2Request, L2Places, L2Flush, L2Busy, L2Walks, L2Set

\* The fields give L2Inv and CleanInv.
LEMMA L2Build ==
  ASSUME NEW st, NEW lines, NEW q, NEW port, NEW ack, NEW out, NEW walk, NEW flushed, NEW m,
         L2Good(st, lines, q, port, ack, out, walk, flushed, m), NEW c,
         c = L2Rec(st, lines, q, port, ack, out, walk, flushed)
  PROVE  L2Inv(c) /\ CleanInv(c, m)
  <1>1. c \in L2Type
    BY DEF L2Rec, L2Type, L2Good
  <1>2. /\ c.st = st /\ c.lines = lines /\ c.q = q /\ c.port = port /\ c.ack = ack /\ c.out = out
        /\ c.walk = walk /\ c.flushed = flushed
    BY DEF L2Rec
  <1>3. L2Good(c.st, c.lines, c.q, c.port, c.ack, c.out, c.walk, c.flushed, m)
    BY <1>2
  <1> QED
    BY <1>1, <1>3 DEF L2Inv, CleanInv, L2Good, L2Request, L2Places, L2Flush, L2Busy, L2Walks, L2Set

\* A set holds a line or is empty, and an empty one is not dirty.
LEMMA L2LineKinds ==
  ASSUME NEW e \in L2Line
  PROVE  /\ e # Empty => e.line \in Lines /\ e.data \in LineData
         /\ e.line \in Lines => e # Empty
         /\ e.dirty \in BOOLEAN /\ (e.dirty => e # Empty)
         /\ Empty \in L2Line /\ ~Empty.dirty
         /\ \A l \in Lines : Empty.line # l
  <1>0. Empty \in L2Line
    BY DEF L2Line
  <1>1. Empty.line = -1 /\ Empty.dirty = FALSE
    BY DEF Empty
  <1>2. -1 \notin Lines
    BY DEF Lines
  <1>3. CASE e = Empty
    BY <1>0, <1>1, <1>2, <1>3
  <1>4. CASE e # Empty
    BY <1>0, <1>1, <1>2, <1>4 DEF L2Line
  <1> QED
    BY <1>3, <1>4

\* What is written back is a dirty line the cache holds.
LEMMA VictimHeld ==
  ASSUME NEW c, NEW m, L2Inv(c), CleanInv(c, m), WritesBack(c),
         NEW v, v = IF c.st = "FLUSH_WB" THEN c.walk ELSE L2Set(c)
  PROVE  v \in 0 .. L2Sets - 1 /\ Victim(c) = c.lines[v] /\ Victim(c).dirty /\ Victim(c) # Empty
         /\ Victim(c).line \in Lines /\ Victim(c).data \in LineData
  <1>1. c \in L2Type /\ L2Good(c.st, c.lines, c.q, c.port, c.ack, c.out, c.walk, c.flushed, m)
    BY L2Parts
  <1>2. /\ c.lines \in [0 .. L2Sets - 1 -> L2Line] /\ c.walk \in 0 .. L2Sets
        /\ c.st = "WB" => c.q \in Request /\ c.lines[L2Set(c)].dirty
        /\ c.st = "FLUSH_WB" => c.walk < L2Sets /\ c.lines[c.walk].dirty
        /\ c.st \in {"WB", "FLUSH_WB"}
    BY <1>1 DEF L2Good, L2Set, WritesBack
  <1>3. v \in 0 .. L2Sets - 1
    BY <1>2, L2Assumption, SetOfType, RequestKinds DEF L2Set
  <1>4. Victim(c) = c.lines[v] /\ c.lines[v].dirty /\ c.lines[v] \in L2Line
    BY <1>2, <1>3 DEF Victim
  <1> QED
    BY <1>3, <1>4, L2LineKinds

\* The memory stays a memory when a line is written back.
LEMMA WrittenType ==
  ASSUME NEW c, NEW m \in Memory, L2Inv(c), CleanInv(c, m)
  PROVE  Written(c, m) \in Memory
  <1>1. CASE WritesBack(c)
    <2>1. Victim(c).line \in Lines /\ Victim(c).data \in LineData
      BY <1>1, VictimHeld
    <2> QED
      BY <1>1, <2>1 DEF Written, Memory
  <1> QED
    BY <1>1 DEF Written

\* Writing a line back leaves every other line of the memory alone.
LEMMA WrittenElsewhere ==
  ASSUME NEW c, NEW m \in Memory, L2Inv(c), CleanInv(c, m), NEW s \in 0 .. L2Sets - 1, c.lines[s] # Empty
  PROVE  /\ ~WritesBack(c) => Written(c, m) = m
         /\ WritesBack(c) /\ s # (IF c.st = "FLUSH_WB" THEN c.walk ELSE L2Set(c)) =>
              Written(c, m)[c.lines[s].line] = m[c.lines[s].line]
         /\ WritesBack(c) /\ s = (IF c.st = "FLUSH_WB" THEN c.walk ELSE L2Set(c)) =>
              Written(c, m)[c.lines[s].line] = c.lines[s].data
  <1>1. CASE WritesBack(c)
    <2> DEFINE v == IF c.st = "FLUSH_WB" THEN c.walk ELSE L2Set(c)
    <2>1. /\ v \in 0 .. L2Sets - 1 /\ Victim(c) = c.lines[v] /\ Victim(c) # Empty
          /\ Victim(c).line \in Lines /\ Victim(c).data \in LineData
      BY <1>1, VictimHeld
    <2> HIDE DEF v
    <2>2. \A t \in 0 .. L2Sets - 1 : c.lines[t] # Empty => SetOf(c.lines[t].line, L2Sets) = t
      BY DEF L2Inv, L2Places
    <2>3. c.lines[s].line = Victim(c).line => s = v
      BY <2>1, <2>2
    <2>4. c \in L2Type /\ L2Good(c.st, c.lines, c.q, c.port, c.ack, c.out, c.walk, c.flushed, m)
      BY L2Parts
    <2>5. c.lines[s] \in L2Line
      BY <2>4, L2Fields
    <2>6. c.lines[s].line \in Lines
      BY <2>5, L2LineKinds
    <2>7. Written(c, m) = [m EXCEPT ![Victim(c).line] = Victim(c).data]
      BY <1>1 DEF Written
    <2>8. s # v => Written(c, m)[c.lines[s].line] = m[c.lines[s].line]
      BY <2>3, <2>6, <2>7 DEF Memory
    <2>9. s = v => Written(c, m)[c.lines[s].line] = c.lines[s].data
      BY <2>1, <2>6, <2>7 DEF Memory
    <2> QED
      BY <1>1, <2>8, <2>9 DEF v
  <1> QED
    BY <1>1 DEF Written

\* Writing a line back makes no clean line differ from the memory.
LEMMA CleanKept ==
  ASSUME NEW c, NEW m \in Memory, L2Inv(c), CleanInv(c, m)
  PROVE  \A s \in 0 .. L2Sets - 1 :
           c.lines[s] # Empty /\ ~c.lines[s].dirty => c.lines[s].data = Written(c, m)[c.lines[s].line]
  <1> SUFFICES ASSUME NEW s \in 0 .. L2Sets - 1, c.lines[s] # Empty, ~c.lines[s].dirty
               PROVE  c.lines[s].data = Written(c, m)[c.lines[s].line]
    OBVIOUS
  <1>1. c.lines[s].data = m[c.lines[s].line]
    BY DEF CleanInv
  <1> QED
    BY <1>1, WrittenElsewhere

\* A clock of the L2, with what it writes back, keeps L2Inv and CleanInv.
LEMMA L2Step ==
  ASSUME NEW c, NEW m \in Memory, L2Inv(c), CleanInv(c, m),
         NEW raised \in SUBSET Ports, NEW req, \A p \in raised : req[p] \in Request,
         NEW kind, NEW n, n = L2After(c, raised, req, kind, m)
  PROVE  L2Inv(n) /\ CleanInv(n, Written(c, m))
  <1>0. c \in L2Type
    BY L2Parts
  <1>1. L2Good(c.st, c.lines, c.q, c.port, c.ack, c.out, c.walk, c.flushed, m)
    BY L2Parts
  <1>10. /\ c.lines \in [0 .. L2Sets - 1 -> L2Line] /\ c.q \in Request \cup {NoReq}
         /\ c.port \in Ports /\ c.walk \in 0 .. L2Sets
         /\ c.st \in {"IDLE", "LOOKUP", "WB", "FILL", "SERVE", "FLUSH", "FLUSH_WB"}
         /\ c.q # NoReq <=> c.st \in {"LOOKUP", "WB", "FILL", "SERVE"}
         /\ \A s \in 0 .. L2Sets - 1 : c.lines[s] # Empty => SetOf(c.lines[s].line, L2Sets) = s
         /\ c.st \notin {"FLUSH", "FLUSH_WB"} => c.walk = 0
         /\ \A s \in 0 .. L2Sets - 1 : s < c.walk => c.lines[s] = Empty
    BY <1>1 DEF L2Good
  <1>11. \A s \in 0 .. L2Sets - 1 :
           c.lines[s] # Empty /\ ~c.lines[s].dirty => c.lines[s].data = Written(c, m)[c.lines[s].line]
    BY CleanKept
  <1> DEFINE W == Written(c, m)
             s0 == L2Set(c)
  <1>14. s0 = L2Set(c)
    OBVIOUS
  <1>12. c.st \in {"LOOKUP", "WB", "FILL", "SERVE"} =>
           /\ c.q \in Request /\ c.q.line \in Lines /\ s0 = SetOf(c.q.line, L2Sets)
           /\ s0 \in 0 .. L2Sets - 1 /\ c.lines[s0] \in L2Line
    BY <1>10, RequestKinds, SetOfType, L2Assumption DEF L2Set
  <1> HIDE DEF W, s0
  <1>2. CASE c.st = "IDLE" /\ kind = "flush"
    <2>1. n = L2Rec("FLUSH", c.lines, c.q, c.port, NoPort, NoAnswer, c.walk, FALSE)
      BY <1>0, <1>2, L2Waits
    <2>2. L2Good("FLUSH", c.lines, c.q, c.port, NoPort, NoAnswer, c.walk, FALSE, W)
      BY <1>10, <1>11, <1>2 DEF L2Good, W
    <2> QED
      BY <2>1, <2>2, L2Build DEF W
  <1>3. CASE c.st = "IDLE" /\ kind # "flush" /\ raised = {}
    <2>1. n = L2Rec("IDLE", c.lines, c.q, c.port, NoPort, NoAnswer, c.walk, FALSE)
      BY <1>0, <1>3, L2Waits
    <2>2. L2Good("IDLE", c.lines, c.q, c.port, NoPort, NoAnswer, c.walk, FALSE, W)
      BY <1>10, <1>11, <1>3 DEF L2Good, W
    <2> QED
      BY <2>1, <2>2, L2Build DEF W
  <1>4. CASE c.st = "IDLE" /\ kind # "flush" /\ raised # {}
    <2>0. PICK pick : pick = Select(raised, c.port, NumPorts)
      OBVIOUS
    <2>1. n = L2Rec("LOOKUP", c.lines, req[pick], pick, NoPort, NoAnswer, c.walk, FALSE)
      <3>1. n = AfterPick(c, raised, req)
        BY <1>0, <1>4, L2Picks
      <3> QED
        BY <2>0, <3>1, Zenon DEF AfterPick
    <2>2. pick \in raised /\ req[pick] \in Request /\ pick \in Ports
      BY <1>4, <1>10, <2>0, SelectReady, L2Assumption DEF Ports
    <2>3. L2Good("LOOKUP", c.lines, req[pick], pick, NoPort, NoAnswer, c.walk, FALSE, W)
      BY <1>10, <1>11, <1>4, <2>2, RequestKinds DEF L2Good, W
    <2> QED
      BY <2>1, <2>3, L2Build DEF W
  <1>5. CASE c.st = "SERVE" \/ (c.st = "LOOKUP" /\ c.lines[s0].line = c.q.line)
    <2>12. PICK e : e = ServedLine(c)
      OBVIOUS
    <2>0. PICK lines : lines = Replaced(c.lines, s0, e)
      OBVIOUS
    <2>1. n = L2Rec("IDLE", lines, NoReq, c.port, c.port, AnswerTo(c.q, c.lines[s0].data), c.walk, FALSE)
      <3>1. L2After(c, raised, req, kind, m)
              = L2Rec("IDLE", Replaced(c.lines, s0, ServedLine(c)), NoReq, c.port, c.port,
                      AnswerTo(c.q, c.lines[s0].data), c.walk, FALSE)
        BY <1>0, <1>5, <1>14, L2Serves, Zenon
      <3> QED
        BY <2>0, <2>12, <3>1
    <2>2. /\ c.lines[s0].line = c.q.line /\ c.lines[s0] # Empty
          /\ c.lines[s0].data \in LineData /\ c.lines[s0].dirty \in BOOLEAN
      <3>1. c.lines[s0].line = c.q.line
        BY <1>1, <1>5 DEF L2Good, s0, L2Set
      <3> QED
        BY <1>5, <1>12, <3>1, L2LineKinds
    <2>3. /\ AnswerTo(c.q, c.lines[s0].data) \in Answers
          /\ Performed(c.q, c.lines[s0].data) \in LineData
          /\ c.q.op = "LD" => Performed(c.q, c.lines[s0].data) = c.lines[s0].data
      BY <1>5, <1>12, <2>2, PerformedType
    <2>4. /\ e \in L2Line /\ e # Empty /\ e.line = c.q.line
          /\ (~e.dirty => ~c.lines[s0].dirty /\ e.data = c.lines[s0].data)
      BY <1>5, <1>12, <1>14, <2>2, <2>3, <2>12, L2LineKinds DEF L2Line, ServedLine
    <2>5. c.walk = 0 /\ s0 \in 0 .. L2Sets - 1 /\ s0 = SetOf(c.q.line, L2Sets)
      BY <1>5, <1>10, <1>12
    <2>6. c.port \in Ports /\ c.port # NoPort /\ AnswerTo(c.q, c.lines[s0].data) # NoAnswer
      BY <1>10, <2>3, AnswerKinds DEF Ports, NoPort
    <2>7. lines \in [0 .. L2Sets - 1 -> L2Line]
      BY <1>10, <2>0, <2>4, <2>5 DEF Replaced
    <2>8. \A s \in 0 .. L2Sets - 1 : lines[s] # Empty => SetOf(lines[s].line, L2Sets) = s
      BY <1>10, <2>0, <2>4, <2>5 DEF Replaced
    <2>9. \A s \in 0 .. L2Sets - 1 : lines[s] # Empty /\ ~lines[s].dirty => lines[s].data = W[lines[s].line]
      BY <1>10, <1>11, <2>0, <2>2, <2>4, <2>5 DEF W, Replaced
    <2>10. L2Good("IDLE", lines, NoReq, c.port, c.port, AnswerTo(c.q, c.lines[s0].data), c.walk, FALSE, W)
      BY <2>3, <2>5, <2>6, <2>7, <2>8, <2>9, L2Assumption DEF L2Good
    <2> QED
      BY <2>1, <2>10, L2Build DEF W
  <1>6. CASE c.st = "LOOKUP" /\ c.lines[s0].line # c.q.line
    <2>1. n = L2Rec(IF c.lines[s0].dirty THEN "WB" ELSE "FILL", c.lines, c.q, c.port,
                    NoPort, NoAnswer, c.walk, FALSE)
      BY <1>0, <1>6, L2Misses DEF s0
    <2>2. CASE c.lines[s0].dirty
      <3>1. n = L2Rec("WB", c.lines, c.q, c.port, NoPort, NoAnswer, c.walk, FALSE)
        BY <2>1, <2>2
      <3>2. L2Good("WB", c.lines, c.q, c.port, NoPort, NoAnswer, c.walk, FALSE, W)
        BY <1>10, <1>11, <1>12, <1>6, <2>2 DEF L2Good, W
      <3> QED
        BY <3>1, <3>2, L2Build DEF W
    <2>3. CASE ~c.lines[s0].dirty
      <3>1. n = L2Rec("FILL", c.lines, c.q, c.port, NoPort, NoAnswer, c.walk, FALSE)
        BY <2>1, <2>3
      <3>2. L2Good("FILL", c.lines, c.q, c.port, NoPort, NoAnswer, c.walk, FALSE, W)
        BY <1>10, <1>11, <1>12, <1>6, <2>3 DEF L2Good, W
      <3> QED
        BY <3>1, <3>2, L2Build DEF W
    <2> QED
      BY <2>2, <2>3
  <1>7. CASE c.st = "WB"
    <2>1. n = L2Rec("FILL", c.lines, c.q, c.port, NoPort, NoAnswer, c.walk, FALSE)
      BY <1>0, <1>7, L2Misses
    <2>2. c.lines[s0].line # c.q.line /\ c.lines[s0].dirty
      BY <1>1, <1>7 DEF L2Good, s0, L2Set
    <2>3. c.lines[s0] # Empty
      BY <1>7, <1>12, <2>2, L2LineKinds
    <2>4. c.lines[s0].data = W[c.lines[s0].line]
      BY <1>7, <1>12, <2>3, WrittenElsewhere DEF WritesBack, W, s0
    <2>5. L2Good("FILL", c.lines, c.q, c.port, NoPort, NoAnswer, c.walk, FALSE, W)
      BY <1>10, <1>11, <1>12, <1>7, <2>2, <2>4 DEF L2Good, W
    <2> QED
      BY <2>1, <2>5, L2Build DEF W
  <1>8. CASE c.st = "FILL"
    <2>12. PICK e : e = FilledLine(c, m)
      OBVIOUS
    <2>0. PICK lines : lines = Replaced(c.lines, s0, e)
      OBVIOUS
    <2>1. n = L2Rec("SERVE", lines, c.q, c.port, NoPort, NoAnswer, c.walk, FALSE)
      <3>1. n = AfterFill(c, m)
        BY <1>0, <1>8, L2Fills
      <3> QED
        BY <2>0, <2>12, <1>14, <3>1 DEF AfterFill
    <2>2. c.walk = 0 /\ s0 \in 0 .. L2Sets - 1 /\ s0 = SetOf(c.q.line, L2Sets) /\ c.q \in Request
          /\ c.q.line \in Lines
      BY <1>8, <1>10, <1>12
    <2>3. W = m
      BY <1>8 DEF W, Written, WritesBack
    <2>4. e \in L2Line /\ e # Empty /\ e.line = c.q.line /\ e.data = W[c.q.line]
      <3>1. m[c.q.line] \in LineData
        BY <2>2 DEF Memory
      <3>2. e \in L2Line
        BY <2>2, <2>12, <3>1 DEF L2Line, FilledLine
      <3> QED
        BY <2>2, <2>3, <2>12, <3>2, L2LineKinds DEF FilledLine
    <2>7. lines \in [0 .. L2Sets - 1 -> L2Line] /\ lines[s0] = e
      BY <1>10, <2>0, <2>4, <2>2 DEF Replaced
    <2>8. \A s \in 0 .. L2Sets - 1 : lines[s] # Empty => SetOf(lines[s].line, L2Sets) = s
      BY <1>10, <2>0, <2>4, <2>2 DEF Replaced
    <2>9. \A s \in 0 .. L2Sets - 1 : lines[s] # Empty /\ ~lines[s].dirty => lines[s].data = W[lines[s].line]
      BY <1>10, <1>11, <2>0, <2>2, <2>4 DEF W, Replaced
    <2>10. c.port \in Ports /\ c.q # NoReq
      BY <1>8, <1>10
    <2>11. L2Good("SERVE", lines, c.q, c.port, NoPort, NoAnswer, c.walk, FALSE, W)
      BY <2>2, <2>4, <2>7, <2>8, <2>9, <2>10, L2Assumption DEF L2Good
    <2> QED
      BY <2>1, <2>11, L2Build DEF W
  <1>9. CASE c.st \in {"FLUSH", "FLUSH_WB"}
    <2>0. PICK lines : lines = [c.lines EXCEPT ![c.walk] = Empty]
      OBVIOUS
    <2>1. CASE c.st = "FLUSH" /\ c.walk = L2Sets
      <3>1. n = L2Rec("IDLE", c.lines, c.q, c.port, NoPort, NoAnswer, 0, TRUE)
        BY <1>0, <2>0, <2>1, L2FlushWalks
      <3>2. \A s \in 0 .. L2Sets - 1 : c.lines[s] = Empty
        BY <1>10, <2>1, L2Assumption
      <3>3. L2Good("IDLE", c.lines, c.q, c.port, NoPort, NoAnswer, 0, TRUE, W)
        BY <1>10, <2>1, <3>2, L2Assumption DEF L2Good
      <3> QED
        BY <3>1, <3>3, L2Build DEF W
    <2>2. CASE c.st = "FLUSH" /\ c.walk # L2Sets /\ c.lines[c.walk].dirty
      <3>1. n = L2Rec("FLUSH_WB", c.lines, c.q, c.port, NoPort, NoAnswer, c.walk, FALSE)
        BY <1>0, <2>0, <2>2, L2FlushWalks
      <3>2. c.walk < L2Sets
        BY <1>10, <2>2, L2Assumption
      <3>3. L2Good("FLUSH_WB", c.lines, c.q, c.port, NoPort, NoAnswer, c.walk, FALSE, W)
        BY <1>10, <1>11, <2>2, <3>2 DEF L2Good, W
      <3> QED
        BY <3>1, <3>3, L2Build DEF W
    <2>3. CASE c.st = "FLUSH_WB" \/ (c.st = "FLUSH" /\ c.walk # L2Sets /\ ~c.lines[c.walk].dirty)
      <3>1. n = L2Rec("FLUSH", lines, c.q, c.port, NoPort, NoAnswer, c.walk + 1, FALSE)
        BY <1>0, <2>0, <2>3, L2FlushWalks
      <3>2. c.walk \in 0 .. L2Sets - 1 /\ c.walk + 1 \in 0 .. L2Sets
        <4>1. c.st = "FLUSH_WB" => c.walk < L2Sets
          BY <1>1 DEF L2Good
        <4> QED
          BY <1>10, <2>3, <4>1, L2Assumption
      <3>3. lines \in [0 .. L2Sets - 1 -> L2Line]
        BY <1>10, <2>0, <3>2, L2LineKinds DEF L2Line
      <3>4. \A s \in 0 .. L2Sets - 1 : lines[s] = IF s = c.walk THEN Empty ELSE c.lines[s]
        BY <1>10, <2>0, <3>2
      <3>5. \A s \in 0 .. L2Sets - 1 : s < c.walk + 1 => lines[s] = Empty
        BY <1>10, <3>2, <3>4, L2Assumption
      <3>6. \A s \in 0 .. L2Sets - 1 : lines[s] # Empty =>
              /\ SetOf(lines[s].line, L2Sets) = s
              /\ ~lines[s].dirty => lines[s].data = W[lines[s].line]
        BY <1>10, <1>11, <3>4 DEF W
      <3>7. L2Good("FLUSH", lines, c.q, c.port, NoPort, NoAnswer, c.walk + 1, FALSE, W)
        BY <1>9, <1>10, <3>2, <3>3, <3>5, <3>6 DEF L2Good
      <3> QED
        BY <3>1, <3>7, L2Build DEF W
    <2>4. c.st = "FLUSH" \/ c.st = "FLUSH_WB"
      BY <1>9
    <2> QED
      BY <2>1, <2>2, <2>3, <2>4, Zenon
  <1>13. \/ c.st = "IDLE" \/ c.st = "LOOKUP" \/ c.st = "WB" \/ c.st = "FILL" \/ c.st = "SERVE"
         \/ c.st \in {"FLUSH", "FLUSH_WB"}
    BY <1>10
  <1> QED
    BY <1>13, <1>2, <1>3, <1>4, <1>5, <1>6, <1>7, <1>8, <1>9, Zenon

\* The clock on which the L2 performs its request.
Performs(c) == c.st = "SERVE" \/ (c.st = "LOOKUP" /\ c.lines[L2Set(c)].line = c.q.line)

\* The lines of a busy L2 that does not perform.
Fetched(c, m) == IF c.st = "FILL" THEN Replaced(c.lines, L2Set(c), FilledLine(c, m)) ELSE c.lines

\* The fields of the record built from them.
LEMMA L2RecFields ==
  ASSUME NEW st, NEW lines, NEW q, NEW port, NEW ack, NEW out, NEW walk, NEW flushed, NEW c,
         c = L2Rec(st, lines, q, port, ack, out, walk, flushed)
  PROVE  /\ c.st = st /\ c.lines = lines /\ c.q = q /\ c.port = port /\ c.ack = ack /\ c.out = out
         /\ c.walk = walk /\ c.flushed = flushed
  BY DEF L2Rec

\* The same for an L1.
LEMMA L1RecFields ==
  ASSUME NEW st, NEW lines, NEW q, NEW resp, NEW walk, NEW flushed, NEW c,
         c = L1Rec(st, lines, q, resp, walk, flushed)
  PROVE  /\ c.st = st /\ c.lines = lines /\ c.q = q /\ c.resp = resp
         /\ c.walk = walk /\ c.flushed = flushed
  BY DEF L1Rec

\* Once the request is performed the L2 is idle and acknowledges the port it came from.
LEMMA L2Performs ==
  ASSUME NEW c \in L2Type, NEW raised, NEW req, NEW kind, NEW m, NEW n, n = L2After(c, raised, req, kind, m),
         Performs(c)
  PROVE  /\ n.st = "IDLE" /\ n.q = NoReq /\ n.ack = c.port /\ n.out = AnswerTo(c.q, c.lines[L2Set(c)].data)
         /\ n.lines = Replaced(c.lines, L2Set(c), ServedLine(c)) /\ ~n.flushed
  <1>1. n = L2Rec("IDLE", Replaced(c.lines, L2Set(c), ServedLine(c)), NoReq, c.port, c.port,
                  AnswerTo(c.q, c.lines[L2Set(c)].data), c.walk, FALSE)
    BY L2Serves DEF Performs
  <1> QED
    BY <1>1 DEF L2Rec

\* Until then it keeps its request and its port, and acknowledges nobody.
LEMMA L2Works ==
  ASSUME NEW c \in L2Type, NEW raised, NEW req, NEW kind, NEW m, NEW n, n = L2After(c, raised, req, kind, m),
         c.st \in L2Busy, ~Performs(c)
  PROVE  /\ n.st \in L2Busy /\ n.q = c.q /\ n.port = c.port /\ n.ack = NoPort /\ ~n.flushed
         /\ n.lines = Fetched(c, m)
  <1>1. CASE c.st = "FILL"
    <2>1. n = L2Rec("SERVE", Replaced(c.lines, L2Set(c), FilledLine(c, m)), c.q, c.port,
                    NoPort, NoAnswer, c.walk, FALSE)
      <3>1. n = AfterFill(c, m)
        BY <1>1, L2Fills
      <3> QED
        BY <3>1 DEF AfterFill
    <2> QED
      BY <1>1, <2>1 DEF L2Rec, L2Busy, Fetched
  <1>2. CASE c.st = "WB"
    <2>1. n = L2Rec("FILL", c.lines, c.q, c.port, NoPort, NoAnswer, c.walk, FALSE)
      BY <1>2, L2Misses
    <2> QED
      BY <1>2, <2>1 DEF L2Rec, L2Busy, Fetched
  <1>3. CASE c.st = "LOOKUP"
    <2>0. PICK st \in {"WB", "FILL"} : st = IF c.lines[L2Set(c)].dirty THEN "WB" ELSE "FILL"
      OBVIOUS
    <2>1. n = L2Rec(st, c.lines, c.q, c.port, NoPort, NoAnswer, c.walk, FALSE)
      BY <1>3, <2>0, L2Misses DEF Performs
    <2> QED
      BY <1>3, <2>1 DEF L2Rec, L2Busy, Fetched
  <1> QED
    BY <1>1, <1>2, <1>3 DEF L2Busy, Performs

\* An idle L2 changes no line.
LEMMA L2Idles ==
  ASSUME NEW c \in L2Type, NEW raised \in SUBSET Ports, NEW req, NEW kind, NEW m,
         NEW n, n = L2After(c, raised, req, kind, m), c.st = "IDLE"
  PROVE  /\ n.lines = c.lines /\ n.ack = NoPort /\ ~n.flushed
         /\ kind = "flush" => n.st = "FLUSH"
         /\ kind # "flush" /\ raised = {} => n.st = "IDLE"
         /\ kind # "flush" /\ raised # {} => n.st = "LOOKUP" /\ n.port \in raised /\ n.q = req[n.port]
  <1>1. CASE kind = "flush"
    <2>1. n = L2Rec("FLUSH", c.lines, c.q, c.port, NoPort, NoAnswer, c.walk, FALSE)
      BY <1>1, L2Waits
    <2>2. n.lines = c.lines /\ n.ack = NoPort /\ ~n.flushed /\ n.st = "FLUSH"
      BY <2>1 DEF L2Rec
    <2> QED
      BY <1>1, <2>2, Zenon
  <1>2. CASE kind # "flush" /\ raised = {}
    <2>1. n = L2Rec("IDLE", c.lines, c.q, c.port, NoPort, NoAnswer, c.walk, FALSE)
      BY <1>2, L2Waits
    <2> QED
      BY <1>2, <2>1 DEF L2Rec
  <1>3. CASE kind # "flush" /\ raised # {}
    <2>0. PICK pick : pick = Select(raised, c.port, NumPorts)
      OBVIOUS
    <2>1. n = L2Rec("LOOKUP", c.lines, req[pick], pick, NoPort, NoAnswer, c.walk, FALSE)
      <3>1. n = AfterPick(c, raised, req)
        BY <1>3, L2Picks
      <3> QED
        BY <2>0, <3>1, Zenon DEF AfterPick
    <2>2. pick \in raised
      BY <1>3, <2>0, SelectReady, L2Assumption DEF Ports, L2Type
    <2> QED
      BY <1>3, <2>1, <2>2 DEF L2Rec
  <1> QED
    BY <1>1, <1>2, <1>3

\* A clock of the flush walk drops at most the set it stands on, which is clean or
\* is being written back.
LEMMA L2Drops ==
  ASSUME NEW c \in L2Type, NEW raised, NEW req, NEW kind, NEW m, NEW n, n = L2After(c, raised, req, kind, m),
         c.st \in L2Walks, c.st = "FLUSH_WB" => c.walk < L2Sets
  PROVE  /\ n.ack = NoPort /\ n.st \in L2Walks \cup {"IDLE"}
         /\ n.flushed <=> n.st = "IDLE"
         /\ \/ n.lines = c.lines /\ c.st # "FLUSH_WB"
            \/ /\ n.lines = Replaced(c.lines, c.walk, Empty) /\ c.walk \in 0 .. L2Sets - 1
               /\ ~c.lines[c.walk].dirty \/ c.st = "FLUSH_WB"
  <1>0. PICK lines : lines = Replaced(c.lines, c.walk, Empty)
    OBVIOUS
  <1>4. lines = [c.lines EXCEPT ![c.walk] = Empty] /\ c.walk \in 0 .. L2Sets
    BY <1>0 DEF Replaced, L2Type
  <1>1. CASE c.st = "FLUSH" /\ c.walk = L2Sets
    <2>1. n = L2Rec("IDLE", c.lines, c.q, c.port, NoPort, NoAnswer, 0, TRUE)
      BY <1>4, <1>1, L2FlushWalks
    <2> QED
      BY <1>1, <2>1 DEF L2Rec
  <1>2. CASE c.st = "FLUSH" /\ c.walk # L2Sets /\ c.lines[c.walk].dirty
    <2>1. n = L2Rec("FLUSH_WB", c.lines, c.q, c.port, NoPort, NoAnswer, c.walk, FALSE)
      BY <1>4, <1>2, L2FlushWalks
    <2> QED
      BY <1>2, <2>1 DEF L2Rec, L2Walks
  <1>3. CASE c.st = "FLUSH_WB" \/ (c.st = "FLUSH" /\ c.walk # L2Sets /\ ~c.lines[c.walk].dirty)
    <2>1. n = L2Rec("FLUSH", lines, c.q, c.port, NoPort, NoAnswer, c.walk + 1, FALSE)
      BY <1>4, <1>3, L2FlushWalks
    <2>2. c.walk \in 0 .. L2Sets - 1
      BY <1>4, <1>3, L2Assumption
    <2>3. ~c.lines[c.walk].dirty \/ c.st = "FLUSH_WB"
      BY <1>3
    <2> QED
      BY <1>0, <2>1, <2>2, <2>3 DEF L2Rec, L2Walks
  <1> QED
    BY <1>1, <1>2, <1>3 DEF L2Walks

\* An idle L1 changes no line.
LEMMA L1Idles ==
  ASSUME NEW c \in L1Type, NEW req, NEW kind, NEW port, NEW me, NEW ans,
         NEW n, n = L1After(c, req, kind, port, me, ans), c.st = "IDLE"
  PROVE  /\ n.lines = c.lines /\ n.resp = NoAnswer /\ ~n.flushed /\ n.walk = c.walk
         /\ kind = "flush" => n.st = "FLUSH" /\ n.q = c.q
         /\ kind # "flush" /\ req = NoReq => n.st = "IDLE" /\ n.q = c.q
         /\ kind # "flush" /\ req # NoReq => n.st = "LOOKUP" /\ n.q = req
  <1>1. CASE kind = "flush"
    <2>1. n = L1Rec("FLUSH", c.lines, c.q, NoAnswer, c.walk, FALSE)
      BY <1>1, L1Flushes
    <2>2. n.lines = c.lines /\ n.resp = NoAnswer /\ ~n.flushed /\ n.st = "FLUSH" /\ n.q = c.q
          /\ n.walk = c.walk
      BY <2>1 DEF L1Rec
    <2> QED
      BY <1>1, <2>2, Zenon
  <1>2. CASE kind # "flush" /\ req = NoReq
    <2>1. n = L1Rec("IDLE", c.lines, c.q, NoAnswer, c.walk, FALSE)
      BY <1>2, L1Stays
    <2>2. n.lines = c.lines /\ n.resp = NoAnswer /\ ~n.flushed /\ n.st = "IDLE" /\ n.q = c.q
          /\ n.walk = c.walk
      BY <2>1 DEF L1Rec
    <2> QED
      BY <1>2, <2>2, Zenon
  <1>3. CASE kind # "flush" /\ req # NoReq
    <2>1. n = L1Rec("LOOKUP", c.lines, req, NoAnswer, c.walk, FALSE)
      BY <1>3, L1Accepts
    <2>2. n.lines = c.lines /\ n.resp = NoAnswer /\ ~n.flushed /\ n.st = "LOOKUP" /\ n.q = req
          /\ n.walk = c.walk
      BY <2>1 DEF L1Rec
    <2> QED
      BY <1>3, <2>2, Zenon
  <1> QED
    BY <1>1, <1>2, <1>3

\* An L1 that waits for the L2 keeps its request.
LEMMA L1Holds ==
  ASSUME NEW c \in L1Type, NEW req, NEW kind, NEW port, NEW me, NEW ans,
         NEW n, n = L1After(c, req, kind, port, me, ans), c.st \in L1Wait, port # me
  PROVE  n.st = c.st /\ n.q = c.q /\ n.lines = c.lines /\ n.resp = NoAnswer /\ ~n.flushed
  <1>1. n = L1Rec(c.st, c.lines, c.q, NoAnswer, c.walk, FALSE)
    BY L1Stays
  <1> QED
    BY <1>1 DEF L1Rec

\* The lines once the answer has been taken.
Filled(c, ans) ==
  IF c.st = "FILL" THEN Replaced(c.lines, SetOf(c.q.line, L1Sets), [line |-> c.q.line, data |-> ans.data])
  ELSE c.lines

\* The answer ends the wait, and goes to the unit.
LEMMA L1Answers ==
  ASSUME NEW c \in L1Type, NEW req, NEW kind, NEW port, NEW me, NEW ans,
         NEW n, n = L1After(c, req, kind, port, me, ans), c.st \in L1Wait, port = me
  PROVE  n.st = "IDLE" /\ n.q = NoReq /\ n.resp = ans /\ ~n.flushed /\ n.lines = Filled(c, ans)
  <1>0. PICK lines : lines = Filled(c, ans)
    OBVIOUS
  <1>1. n = L1Rec("IDLE", lines, NoReq, ans, c.walk, FALSE)
    BY <1>0, L1TakesAnswer DEF Filled, Replaced
  <1> QED
    BY <1>0, <1>1 DEF L1Rec

\* What LOOKUP does to the lines.
Touched(c) ==
  LET s == SetOf(c.q.line, L1Sets)
  IN  IF c.lines[s].line # c.q.line \/ c.q.op = "LD" THEN c.lines
      ELSE IF c.q.op = "ST"
        THEN Replaced(c.lines, s, [line |-> c.q.line, data |-> Merge(c.lines[s].data, c.q.data, c.q.strb)])
      ELSE Replaced(c.lines, s, Invalid)

\* S_LOOKUP answers a load that hits at once; it passes every other request on.
LEMMA L1LooksUp ==
  ASSUME NEW c \in L1Type, NEW req, NEW kind, NEW port, NEW me, NEW ans,
         NEW n, n = L1After(c, req, kind, port, me, ans), c.st = "LOOKUP", c.q \in Request
  PROVE  /\ ~n.flushed /\ n.lines = Touched(c)
         /\ \/ /\ n.st \in L1Wait /\ n.q = c.q /\ n.resp = NoAnswer
            \/ /\ n.st = "IDLE" /\ n.q = NoReq
               /\ c.q.op = "LD" /\ c.lines[SetOf(c.q.line, L1Sets)].line = c.q.line
               /\ n.resp = AnswerTo(c.q, c.lines[SetOf(c.q.line, L1Sets)].data)
  <1> DEFINE s == SetOf(c.q.line, L1Sets)
  <1>0. PICK lines : lines = Touched(c)
    OBVIOUS
  <1>1. CASE c.q.op = "LD" /\ c.lines[s].line = c.q.line
    <2>1. n = L1Rec("IDLE", lines, NoReq, AnswerTo(c.q, c.lines[s].data), c.walk, FALSE)
      BY <1>0, <1>1, L1Looks DEF Touched
    <2> QED
      BY <1>0, <1>1, <2>1 DEF L1Rec
  <1>2. CASE ~(c.q.op = "LD" /\ c.lines[s].line = c.q.line)
    <2>0. c.q.op \in {"LD", "ST", "ATOM"}
      BY RequestKinds
    <2>1. CASE c.q.op = "LD"
      <3>1. n = L1Rec("FILL", lines, c.q, NoAnswer, c.walk, FALSE)
        BY <1>0, <1>2, <2>1, L1Looks DEF Touched
      <3> QED
        BY <1>0, <3>1 DEF L1Rec, L1Wait
    <2>2. CASE c.q.op = "ST"
      <3>1. n = L1Rec("STORE", lines, c.q, NoAnswer, c.walk, FALSE)
        BY <1>0, <1>2, <2>2, L1Looks DEF Touched, Replaced
      <3> QED
        BY <1>0, <3>1 DEF L1Rec, L1Wait
    <2>3. CASE c.q.op = "ATOM"
      <3>1. n = L1Rec("ATOM", lines, c.q, NoAnswer, c.walk, FALSE)
        BY <1>0, <1>2, <2>3, L1Looks DEF Touched, Replaced
      <3> QED
        BY <1>0, <3>1 DEF L1Rec, L1Wait
    <2> QED
      BY <2>0, <2>1, <2>2, <2>3
  <1> QED
    BY <1>1, <1>2

\* A clock of the flush walk invalidates at most the set it stands on.
LEMMA L1Walks ==
  ASSUME NEW c \in L1Type, NEW req, NEW kind, NEW port, NEW me, NEW ans,
         NEW n, n = L1After(c, req, kind, port, me, ans), c.st = "FLUSH"
  PROVE  /\ n.q = c.q /\ n.resp = NoAnswer
         /\ n.st \in {"FLUSH", "IDLE"} /\ (n.flushed <=> n.st = "IDLE")
         /\ \/ n.lines = c.lines
            \/ n.lines = Replaced(c.lines, c.walk, Invalid) /\ c.walk \in 0 .. L1Sets - 1
  <1>0. PICK lines : lines = Replaced(c.lines, c.walk, Invalid)
    OBVIOUS
  <1>1. c.walk \in 0 .. L1Sets
    BY DEF L1Type
  <1>2. CASE c.walk = L1Sets
    <2>1. n = L1Rec("IDLE", c.lines, c.q, NoAnswer, 0, TRUE)
      BY <1>2, L1Flushes
    <2> QED
      BY <2>1 DEF L1Rec
  <1>3. CASE c.walk # L1Sets
    <2>1. n = L1Rec("FLUSH", lines, c.q, NoAnswer, c.walk + 1, FALSE)
      BY <1>0, <1>3, L1Flushes DEF Replaced
    <2>2. c.walk \in 0 .. L1Sets - 1
      BY <1>1, <1>3, L1Assumption
    <2> QED
      BY <1>0, <2>1, <2>2 DEF L1Rec
  <1> QED
    BY <1>2, <1>3

\* A unit waits as long as its L1 has its request or is answering it.
LEMMA L1Waits ==
  ASSUME NEW c, L1Inv(c), NEW req \in Request \cup {NoReq}, NEW kind, NEW port, NEW me, NEW ans,
         c.q # NoReq \/ c.resp # NoAnswer => req = NoReq /\ kind # "flush",
         (kind = "flush" \/ c.st = "FLUSH") => req = NoReq,
         c.st \in L1Wait /\ port = me => Matches(ans, c.q),
         NEW n, n = L1After(c, req, kind, port, me, ans)
  PROVE  (IF c.q # NoReq \/ c.resp # NoAnswer THEN c.resp = NoAnswer ELSE req # NoReq)
           <=> (n.q # NoReq \/ n.resp # NoAnswer)
  <1>1. c \in L1Type /\ L1Good(c.st, c.lines, c.q, c.resp, c.walk, c.flushed)
    BY L1Parts
  <1>2. /\ c.q = NoReq <=> c.st \in {"IDLE", "FLUSH"}
        /\ c.st \in {"IDLE", "LOOKUP", "FLUSH"} \cup L1Wait
        /\ c.q \in Request \cup {NoReq}
        /\ c.resp # NoAnswer => c.st = "IDLE"
    BY <1>1 DEF L1Good, L1Wait
  <1>3. CASE c.st = "IDLE"
    <2>1. /\ n.resp = NoAnswer
          /\ kind = "flush" => n.q = c.q
          /\ kind # "flush" /\ req = NoReq => n.q = c.q
          /\ kind # "flush" /\ req # NoReq => n.q = req
      BY <1>1, <1>3, L1Idles
    <2> QED
      BY <1>2, <1>3, <2>1
  <1>4. CASE c.st = "LOOKUP"
    <2>1. c.q \in Request /\ c.resp = NoAnswer
      BY <1>2, <1>4
    <2>2. n.q = c.q \/ (c.q.op = "LD" /\ c.lines[SetOf(c.q.line, L1Sets)].line = c.q.line
                        /\ n.resp = AnswerTo(c.q, c.lines[SetOf(c.q.line, L1Sets)].data))
      BY <1>1, <1>4, <2>1, L1LooksUp
    <2>3. c.q.op = "LD" => AnswerTo(c.q, c.lines[SetOf(c.q.line, L1Sets)].data) # NoAnswer
      BY DEF AnswerTo, NoAnswer
    <2> QED
      BY <1>2, <1>4, <2>1, <2>2, <2>3
  <1>5. CASE c.st \in L1Wait /\ port = me
    <2>1. c.q # NoReq /\ c.resp = NoAnswer
      BY <1>2, <1>5 DEF L1Wait
    <2>2. n.resp = ans
      BY <1>1, <1>5, L1Answers
    <2>3. ans # NoAnswer
      BY <1>5, AnswerKinds DEF Matches
    <2> QED
      BY <2>1, <2>2, <2>3
  <1>7. CASE c.st \in L1Wait /\ port # me
    <2>1. c.q # NoReq /\ c.resp = NoAnswer
      BY <1>2, <1>7 DEF L1Wait
    <2>2. n.q = c.q
      BY <1>1, <1>7, L1Holds
    <2> QED
      BY <2>1, <2>2
  <1>6. CASE c.st = "FLUSH"
    <2>1. n.q = c.q /\ n.resp = NoAnswer
      BY <1>1, <1>6, L1Walks
    <2> QED
      BY <1>2, <1>6, <2>1
  <1> QED
    BY <1>2, <1>3, <1>4, <1>5, <1>6, <1>7

\* The memory behind a cache c over the array m.
LineIn(c, m, l) == LET e == c.lines[SetOf(l, L2Sets)] IN IF e.line = l THEN e.data ELSE m[l]

\* What the memory shows is a line.
LEMMA LineInType ==
  ASSUME NEW c, NEW m \in Memory, L2Inv(c), NEW l \in Lines
  PROVE  LineIn(c, m, l) \in LineData
  <1>1. c.lines \in [0 .. L2Sets - 1 -> L2Line] /\ SetOf(l, L2Sets) \in 0 .. L2Sets - 1
    BY L2Fields, SetOfType, L2Assumption DEF L2Inv
  <1>2. c.lines[SetOf(l, L2Sets)] \in L2Line
    BY <1>1
  <1>3. c.lines[SetOf(l, L2Sets)].line = l => c.lines[SetOf(l, L2Sets)].data \in LineData
    BY <1>2, L2LineKinds
  <1> QED
    BY <1>3 DEF LineIn, Memory

\* A line the cache does not hold is not the one written back.
LEMMA WrittenUncached ==
  ASSUME NEW c, NEW m \in Memory, L2Inv(c), CleanInv(c, m), NEW l \in Lines,
         c.lines[SetOf(l, L2Sets)].line # l
  PROVE  Written(c, m)[l] = m[l]
  <1>1. CASE WritesBack(c)
    <2> DEFINE v == IF c.st = "FLUSH_WB" THEN c.walk ELSE L2Set(c)
    <2>1. /\ v \in 0 .. L2Sets - 1 /\ Victim(c) = c.lines[v] /\ Victim(c) # Empty
          /\ Victim(c).line \in Lines /\ Victim(c).data \in LineData
      BY <1>1, VictimHeld
    <2> HIDE DEF v
    <2>2. SetOf(Victim(c).line, L2Sets) = v
      BY <2>1 DEF L2Inv, L2Places
    <2>3. Victim(c).line # l
      BY <2>1, <2>2
    <2>4. Written(c, m) = [m EXCEPT ![Victim(c).line] = Victim(c).data]
      BY <1>1 DEF Written
    <2> QED
      BY <2>3, <2>4 DEF Memory
  <1> QED
    BY <1>1 DEF Written

\* What the L2 performs is performed on the memory; nothing else it does changes it.
LEMMA MemPerformed ==
  ASSUME NEW c, NEW m \in Memory, L2Inv(c), CleanInv(c, m), Performs(c),
         NEW raised, NEW req, NEW kind,
         NEW n, n = L2After(c, raised, req, kind, m), NEW l \in Lines
  PROVE  /\ Written(c, m) = m
         /\ c.q \in Request /\ c.q.line \in Lines
         /\ LineIn(c, m, c.q.line) = c.lines[L2Set(c)].data
         /\ l = c.q.line => LineIn(n, m, l) = Performed(c.q, LineIn(c, m, l))
         /\ l # c.q.line => LineIn(n, m, l) = LineIn(c, m, l)
  <1>1. /\ c \in L2Type /\ L2Good(c.st, c.lines, c.q, c.port, c.ack, c.out, c.walk, c.flushed, m)
    BY L2Parts
  <1>2. c.q \in Request /\ c.q.line \in Lines /\ L2Set(c) \in 0 .. L2Sets - 1
    <2>1. c.q \in Request
      BY <1>1 DEF L2Good, Performs
    <2> QED
      BY <2>1, RequestKinds, SetOfType, L2Assumption DEF L2Set
  <1>3. c.lines[L2Set(c)].line = c.q.line /\ L2Set(c) = SetOf(c.q.line, L2Sets)
    BY <1>1 DEF L2Good, Performs, L2Set
  <1>4. n.lines = Replaced(c.lines, L2Set(c), ServedLine(c))
    BY <1>1, L2Performs
  <1>5. Written(c, m) = m
    BY DEF Written, WritesBack, Performs
  <1>6. PICK s : s = L2Set(c)
    OBVIOUS
  <1>7. PICK e : e = ServedLine(c)
    OBVIOUS
  <1>8. e.line = c.q.line /\ e.data = Performed(c.q, c.lines[s].data)
    BY <1>3, <1>6, <1>7 DEF ServedLine
  <1>9. c.lines \in [0 .. L2Sets - 1 -> L2Line]
    BY <1>1, L2Fields
  <1>10. \A t \in 0 .. L2Sets - 1 : n.lines[t] = IF t = s THEN e ELSE c.lines[t]
    BY <1>2, <1>4, <1>6, <1>7, <1>9 DEF Replaced
  <1>11. SetOf(l, L2Sets) \in 0 .. L2Sets - 1
    BY SetOfType, L2Assumption
  <1>12. LineIn(c, m, c.q.line) = c.lines[s].data
    BY <1>3, <1>6 DEF LineIn
  <1>13. l = c.q.line => LineIn(n, m, l) = Performed(c.q, LineIn(c, m, l))
    BY <1>3, <1>6, <1>8, <1>10, <1>11, <1>12 DEF LineIn
  <1>14. l # c.q.line => LineIn(n, m, l) = LineIn(c, m, l)
    BY <1>3, <1>6, <1>8, <1>10, <1>11 DEF LineIn
  <1> QED
    BY <1>2, <1>5, <1>6, <1>12, <1>13, <1>14

\* Fills, write-backs and drops change no line of the memory behind the caches.
LEMMA MemKept ==
  ASSUME NEW c, NEW m \in Memory, L2Inv(c), CleanInv(c, m), ~Performs(c),
         NEW raised \in SUBSET Ports, NEW req, NEW kind,
         NEW n, n = L2After(c, raised, req, kind, m), NEW l \in Lines
  PROVE  LineIn(n, Written(c, m), l) = LineIn(c, m, l)
  <1>1. /\ c \in L2Type /\ L2Good(c.st, c.lines, c.q, c.port, c.ack, c.out, c.walk, c.flushed, m)
    BY L2Parts
  <1>2. c.lines \in [0 .. L2Sets - 1 -> L2Line] /\ c.st \in {"IDLE"} \cup L2Busy \cup L2Walks
    BY <1>1, L2Fields
  <1>3. PICK t : t = SetOf(l, L2Sets)
    OBVIOUS
  <1>4. t \in 0 .. L2Sets - 1 /\ c.lines[t] \in L2Line
    BY <1>2, <1>3, SetOfType, L2Assumption
  <1>5. PICK m2 : m2 = Written(c, m)
    OBVIOUS
  <1>6. c.lines[t].line # l => m2[l] = m[l]
    BY <1>3, <1>5, WrittenUncached
  <1>7. c.lines[t].line = l => c.lines[t] # Empty
    BY <1>4, L2LineKinds
  <1>8. CASE n.lines = c.lines
    BY <1>3, <1>5, <1>6, <1>8 DEF LineIn
  <1>9. CASE c.st = "FILL"
    <2>1. n.lines = Replaced(c.lines, L2Set(c), FilledLine(c, m))
      <3>1. n.lines = Fetched(c, m)
        BY <1>1, <1>9, L2Works DEF L2Busy
      <3> QED
        BY <1>9, <3>1 DEF Fetched
    <2>2. c.q \in Request /\ L2Set(c) \in 0 .. L2Sets - 1 /\ L2Set(c) = SetOf(c.q.line, L2Sets)
      <3>1. c.q \in Request
        BY <1>1, <1>9 DEF L2Good
      <3> QED
        BY <3>1, RequestKinds, SetOfType, L2Assumption DEF L2Set
    <2>3. PICK s : s = L2Set(c)
      OBVIOUS
    <2>4. PICK e : e = FilledLine(c, m)
      OBVIOUS
    <2>5. e.line = c.q.line /\ e.data = m[c.q.line]
      BY <2>4 DEF FilledLine
    <2>6. c.lines[s].line # c.q.line /\ (c.lines[s] # Empty => c.lines[s].data = m[c.lines[s].line])
      BY <1>1, <1>9, <2>3 DEF L2Good, L2Set
    <2>7. n.lines[t] = IF t = s THEN e ELSE c.lines[t]
      BY <1>2, <1>4, <2>1, <2>2, <2>3, <2>4 DEF Replaced
    <2>8. m2 = m
      BY <1>5, <1>9 DEF Written, WritesBack
    <2>9. CASE t = s
      <3>1. n.lines[t] = e
        BY <2>7, <2>9
      <3>2. LineIn(n, m, l) = IF c.q.line = l THEN m[l] ELSE m[l]
        BY <1>3, <2>5, <3>1 DEF LineIn
      <3>3. LineIn(c, m, l) = m[l]
        BY <1>3, <1>7, <2>6, <2>9 DEF LineIn
      <3> QED
        BY <1>5, <2>8, <3>2, <3>3
    <2>10. CASE t # s
      BY <1>3, <1>5, <2>7, <2>8, <2>10 DEF LineIn
    <2> QED
      BY <2>9, <2>10
  <1>10. CASE c.st \in L2Walks /\ n.lines # c.lines
    <2>1. /\ n.lines = Replaced(c.lines, c.walk, Empty) /\ c.walk \in 0 .. L2Sets - 1
          /\ ~c.lines[c.walk].dirty \/ c.st = "FLUSH_WB"
      <3>1. c.st = "FLUSH_WB" => c.walk < L2Sets
        BY <1>1 DEF L2Good
      <3> QED
        BY <1>1, <1>10, <3>1, L2Drops
    <2>2. n.lines[t] = IF t = c.walk THEN Empty ELSE c.lines[t]
      BY <1>2, <1>4, <2>1 DEF Replaced
    <2>3. CASE t # c.walk
      BY <1>3, <1>5, <1>6, <2>2, <2>3 DEF LineIn
    <2>4. CASE t = c.walk
      <3>1. Empty.line # l
        BY DEF Empty, Lines
      <3>2. LineIn(n, m2, l) = m2[l]
        BY <1>3, <2>2, <2>4, <3>1 DEF LineIn
      <3>3. CASE c.lines[t].line = l
        <4>1. c.lines[t].data = m2[l]
          <5>1. CASE c.st = "FLUSH_WB"
            BY <1>4, <1>5, <1>7, <2>4, <3>3, <5>1, WrittenElsewhere DEF WritesBack
          <5>2. CASE c.st # "FLUSH_WB"
            <6>1. m2 = m
              BY <1>5, <1>10, <5>2 DEF Written, WritesBack, L2Walks
            <6>2. ~c.lines[t].dirty
              BY <2>1, <2>4, <5>2
            <6> QED
              BY <1>1, <1>4, <1>7, <3>3, <6>1, <6>2 DEF L2Good
          <5> QED
            BY <5>1, <5>2
        <4> QED
          BY <1>3, <1>5, <3>2, <3>3, <4>1 DEF LineIn
      <3>4. CASE c.lines[t].line # l
        BY <1>3, <1>5, <1>6, <3>2, <3>4 DEF LineIn
      <3> QED
        BY <3>3, <3>4
    <2> QED
      BY <2>3, <2>4
  <1>11. c.st \in L2Busy /\ c.st # "FILL" => n.lines = c.lines
    BY <1>1, L2Works DEF Fetched
  <1>12. c.st = "IDLE" => n.lines = c.lines
    BY <1>1, L2Idles
  <1> QED
    BY <1>2, <1>8, <1>9, <1>10, <1>11, <1>12

\* A write-back brings the array up to date and never sets it back.
LEMMA HostKept ==
  ASSUME NEW c, NEW m \in Memory, L2Inv(c), CleanInv(c, m),
         NEW raised \in SUBSET Ports, NEW req, NEW kind,
         NEW n, n = L2After(c, raised, req, kind, m), NEW l \in Lines
  PROVE  Written(c, m)[l] \in {m[l], LineIn(n, Written(c, m), l)}
  <1>1. PICK t : t = SetOf(l, L2Sets)
    OBVIOUS
  <1>2. t \in 0 .. L2Sets - 1 /\ c.lines[t] \in L2Line
    BY <1>1, SetOfType, L2Assumption, L2Fields DEF L2Inv
  <1>3. CASE c.lines[t].line # l
    BY <1>1, <1>3, WrittenUncached
  <1>4. CASE c.lines[t].line = l /\ ~WritesBack(c)
    BY <1>4 DEF Written
  <1>5. CASE c.lines[t].line = l /\ WritesBack(c)
    <2>1. c.lines[t] # Empty
      BY <1>2, <1>5, L2LineKinds
    <2>2. Written(c, m)[l] \in {m[l], c.lines[t].data}
      BY <1>2, <1>5, <2>1, WrittenElsewhere
    <2>3. ~Performs(c)
      BY <1>5 DEF Performs, WritesBack
    <2>4. LineIn(n, Written(c, m), l) = LineIn(c, m, l)
      BY <2>3, MemKept
    <2>5. LineIn(c, m, l) = c.lines[t].data
      BY <1>1, <1>5 DEF LineIn
    <2> QED
      BY <2>2, <2>4, <2>5
  <1> QED
    BY <1>3, <1>4, <1>5

\* The words of a store the L2 has not yet performed, and a unit's view of line l
\* of which the memory behind the L1 c holds data.
Pending(c, port, me, l) == IF c.st = "STORE" /\ port # me /\ c.q.line = l THEN c.q.strb ELSE {}
ViewWord(c, port, me, l, data, w) ==
  LET e == c.lines[SetOf(l, L1Sets)]
  IN  IF e.line = l /\ w \notin Pending(c, port, me, l) THEN e.data[w] ELSE data[w]

\* A word of a view stays as it is or becomes the memory's.
LEMMA ViewRefreshed ==
  ASSUME NEW c, L1Inv(c), NEW req, NEW kind, NEW port, NEW me, NEW ans,
         NEW n, n = L1After(c, req, kind, port, me, ans), L1Inv(n),
         NEW l \in Lines, NEW port2, NEW data, NEW data2, NEW w \in Offsets,
         c.st = "FILL" /\ port = me /\ c.q.line = l => ans.data = data,
         port2 = me => c.st \in L1Wait /\ port # me,
         port2 = me /\ c.st = "STORE" /\ c.q.line = l => \A x \in c.q.strb : data2[x] = c.q.data[x]
  PROVE  ViewWord(n, port2, me, l, data2, w) \in {ViewWord(c, port, me, l, data, w), data2[w]}
  <1>1. c \in L1Type /\ L1Good(c.st, c.lines, c.q, c.resp, c.walk, c.flushed)
    BY L1Parts
  <1>2. /\ c.lines \in [0 .. L1Sets - 1 -> L1Line]
        /\ c.st \in {"IDLE", "LOOKUP", "FLUSH"} \cup L1Wait
        /\ c.q \in Request \cup {NoReq} /\ (c.q = NoReq <=> c.st \in {"IDLE", "FLUSH"})
    BY <1>1 DEF L1Good, L1Wait
  <1>3. PICK t : t = SetOf(l, L1Sets)
    OBVIOUS
  <1>4. t \in 0 .. L1Sets - 1
    BY <1>3, SetOfType, L1Assumption
  <1>5. PICK e : e = c.lines[t]
    OBVIOUS
  <1>6. PICK f : f = n.lines[t]
    OBVIOUS
  <1>7. ViewWord(n, port2, me, l, data2, w) =
          IF f.line = l /\ w \notin Pending(n, port2, me, l) THEN f.data[w] ELSE data2[w]
    BY <1>3, <1>6 DEF ViewWord
  <1>8. ViewWord(c, port, me, l, data, w) =
          IF e.line = l /\ w \notin Pending(c, port, me, l) THEN e.data[w] ELSE data[w]
    BY <1>3, <1>5 DEF ViewWord
  <1>9. SUFFICES ASSUME f.line = l, w \notin Pending(n, port2, me, l)
                 PROVE  f.data[w] \in {ViewWord(c, port, me, l, data, w), data2[w]}
    BY <1>7
  <1>10. Invalid.line # l
    BY DEF Invalid, Lines
  <1>11. ASSUME e = f, c.st # "STORE" \/ port = me
         PROVE  f.data[w] = ViewWord(c, port, me, l, data, w)
    BY <1>8, <1>9, <1>11 DEF Pending
  <1>12. CASE c.st = "IDLE"
    BY <1>1, <1>5, <1>6, <1>11, <1>12, L1Idles
  <1>13. CASE c.st = "FLUSH"
    <2>1. n.lines = c.lines \/ (n.lines = Replaced(c.lines, c.walk, Invalid) /\ c.walk \in 0 .. L1Sets - 1)
      BY <1>1, <1>13, L1Walks
    <2>2. f = e \/ f = Invalid
      BY <1>2, <1>4, <1>5, <1>6, <2>1 DEF Replaced
    <2> QED
      BY <1>9, <1>10, <1>11, <1>13, <2>2
  <1>14. CASE c.st = "LOOKUP"
    <2>1. c.q \in Request /\ c.q.line \in Lines /\ port2 # me
      BY <1>2, <1>14, RequestKinds DEF L1Wait
    <2>2. n.lines = Touched(c) /\ (n.q = c.q \/ n.st = "IDLE")
      BY <1>1, <1>14, <2>1, L1LooksUp
    <2>3. PICK s : s = SetOf(c.q.line, L1Sets)
      OBVIOUS
    <2>4. s \in 0 .. L1Sets - 1
      BY <2>1, <2>3, SetOfType, L1Assumption
    <2>5. CASE n.lines = c.lines
      BY <1>5, <1>6, <1>11, <1>14, <2>5
    <2>6. CASE n.lines # c.lines /\ c.q.op = "ST" /\ t = s
      <3>1. n.lines = Replaced(c.lines, s, [line |-> c.q.line,
                                               data |-> Merge(c.lines[s].data, c.q.data, c.q.strb)])
            /\ c.lines[s].line = c.q.line
        BY <2>2, <2>3, <2>6 DEF Touched
      <3>2. f = [line |-> c.q.line, data |-> Merge(c.lines[s].data, c.q.data, c.q.strb)]
        BY <1>2, <1>6, <2>4, <2>6, <3>1 DEF Replaced
      <3>3. l = c.q.line /\ f.data[w] = IF w \in c.q.strb THEN c.q.data[w] ELSE c.lines[s].data[w]
        BY <1>9, <3>2 DEF Merge
      <3>4. n.st = "STORE" /\ n.q = c.q
        <4>1. c.q.op # "LD"
          BY <2>6
        <4>2. n.st \in L1Wait /\ n.q = c.q
          BY <1>1, <1>14, <2>1, <4>1, L1LooksUp
        <4> QED
          BY <2>6, <4>2 DEF L1Inv, L1Request, L1Wait
      <3>5. w \notin c.q.strb
        BY <1>9, <2>1, <3>3, <3>4 DEF Pending
      <3>6. ViewWord(c, port, me, l, data, w) = e.data[w]
        BY <1>5, <1>8, <1>14, <2>6, <3>1, <3>3 DEF Pending
      <3> QED
        BY <1>5, <2>6, <3>3, <3>5, <3>6
    <2>7. CASE n.lines # c.lines /\ c.q.op = "ATOM" /\ t = s
      <3>1. n.lines = Replaced(c.lines, s, Invalid)
        BY <2>2, <2>3, <2>7 DEF Touched
      <3>2. f = Invalid
        BY <1>2, <1>6, <2>4, <2>7, <3>1 DEF Replaced
      <3> QED
        BY <1>9, <1>10, <3>2
    <2>8. CASE n.lines # c.lines /\ t # s
      <3>1. n.lines[t] = c.lines[t]
        BY <1>2, <1>4, <2>2, <2>3, <2>4, <2>8 DEF Touched, Replaced
      <3> QED
        BY <1>5, <1>6, <1>11, <1>14, <3>1
    <2>9. c.q.op \in {"LD", "ST", "ATOM"} /\ (c.q.op = "LD" => n.lines = c.lines)
      BY <2>1, <2>2, RequestKinds DEF Touched
    <2> QED
      BY <2>5, <2>6, <2>7, <2>8, <2>9
  <1>15. CASE c.st \in L1Wait /\ port # me
    <2>1. n.st = c.st /\ n.q = c.q /\ n.lines = c.lines
      BY <1>1, <1>15, L1Holds
    <2>2. f = e
      BY <1>5, <1>6, <2>1
    <2>3. CASE w \notin Pending(c, port, me, l)
      BY <1>8, <1>9, <2>2, <2>3
    <2>4. CASE w \in Pending(c, port, me, l)
      <3>1. c.st = "STORE" /\ c.q.line = l /\ w \in c.q.strb
        BY <2>4 DEF Pending
      <3>2. port2 = me
        BY <1>9, <2>1, <3>1 DEF Pending
      <3>3. data2[w] = c.q.data[w]
        BY <3>1, <3>2
      <3>4. e.data[w] = c.q.data[w]
        BY <1>3, <1>5, <1>9, <2>2, <3>1 DEF L1Inv, L1Copies, L1Entry
      <3> QED
        BY <2>2, <3>3, <3>4
    <2> QED
      BY <2>3, <2>4
  <1>16. CASE c.st \in L1Wait /\ port = me
    <2>1. n.lines = Filled(c, ans)
      BY <1>1, <1>16, L1Answers
    <2>2. PICK s : s = SetOf(c.q.line, L1Sets)
      OBVIOUS
    <2>3. CASE c.st = "FILL" /\ t = s
      <3>1. c.q \in Request
        BY <1>2, <2>3
      <3>2. f = [line |-> c.q.line, data |-> ans.data]
        BY <1>2, <1>4, <1>6, <2>1, <2>2, <2>3 DEF Filled, Replaced
      <3>3. c.q.line = l /\ f.data[w] = data[w]
        BY <1>9, <1>16, <2>3, <3>2
      <3>4. e.line # l
        BY <1>5, <2>2, <2>3, <3>3 DEF L1Inv, L1Copies, L1Entry
      <3> QED
        BY <1>8, <3>3, <3>4
    <2>4. CASE c.st # "FILL" \/ t # s
      <3>0. SetOf(c.q.line, L1Sets) = s
        BY <2>2
      <3>1. f = e
        BY <1>2, <1>4, <1>5, <1>6, <2>1, <3>0, <2>4 DEF Filled, Replaced
      <3> QED
        BY <1>11, <1>16, <3>1
    <2> QED
      BY <2>3, <2>4
  <1> QED
    BY <1>2, <1>12, <1>13, <1>14, <1>15, <1>16

-----------------------------------------------------------------------------
\* The memory system.

\* Between the caches: an answer finds its L1 waiting, and that of a fill is the memory.
AnswerInv ==
  l2.ack # NoPort =>
    LET c == l1[l2.ack]
    IN  /\ c.st \in L1Wait /\ Matches(l2.out, c.q)
        /\ c.st = "FILL" => l2.out.data = MemLine(c.q.line)
WaitInv == \A c \in CUs : c \in wait <=> (l1[c].q # NoReq \/ l1[c].resp # NoAnswer)
PhaseInv ==
  /\ phase = "kernel" => /\ l2.st \notin L2Walks /\ ~l2.flushed
                         /\ \A c \in CUs : l1[c].st # "FLUSH" /\ ~l1[c].flushed
  /\ phase # "kernel" => wait = {}
  /\ phase = "flush" =>
       /\ seen \subseteq {c \in CUs : l1[c].st = "IDLE"}
       /\ \A c \in CUs : l1[c].st = "IDLE" => \A s \in 0 .. L1Sets - 1 : l1[c].lines[s] = Invalid
       /\ l2.st = "IDLE" => \A s \in 0 .. L2Sets - 1 : l2.lines[s] = Empty
       /\ \A c \in CUs : l1[c].flushed => c \notin seen
  /\ phase = "idle" => l2.st = "IDLE" /\ ~l2.flushed

IInv ==
  /\ gmem \in Memory /\ wait \subseteq CUs /\ phase \in {"kernel", "flush", "idle"} /\ seen \subseteq CUs
  /\ l1 \in [CUs -> L1Type]
  /\ \A c \in CUs : L1Inv(l1[c])
  /\ L2Inv(l2) /\ CleanInv(l2, gmem)
  /\ Handshake /\ AnswerInv /\ WaitInv /\ PhaseInv /\ BoundaryEmpty

\* Clock by L1After and L2After.
Clocked(req, kind) ==
  /\ l1' = [c \in CUs |-> L1After(l1[c], req[c], kind, l2.ack, c, l2.out)]
  /\ l2' = L2After(l2, Raised, [c \in CUs |-> l1[c].q], kind, gmem)
  /\ gmem' = Written(l2, gmem)
  /\ wait' = {c \in CUs : IF c \in wait THEN l1[c].resp = NoAnswer ELSE req[c] # NoReq}

\* A clock on which the flush is not pulsed.
LEMMA ClockRuns ==
  ASSUME NEW req, Clock(req, FALSE)
  PROVE  Clocked(req, "run")
  <1>1. l1' = [c \in CUs |-> L1After(l1[c], req[c], "run", l2.ack, c, l2.out)]
    BY DEF Clock, L1After, L1Next
  <1>2. l2' = L2After(l2, Raised, [c \in CUs |-> l1[c].q], "run", gmem)
    BY ("run" = "flush") = FALSE, Zenon DEF Clock, L2After
  <1>3. /\ gmem' = Written(l2, gmem)
        /\ wait' = {c \in CUs : IF c \in wait THEN l1[c].resp = NoAnswer ELSE req[c] # NoReq}
    BY Zenon DEF Clock, Written
  <1> QED
    BY <1>1, <1>2, <1>3 DEF Clocked

\* A clock on which it is.
LEMMA ClockFlushes ==
  ASSUME NEW req, Clock(req, TRUE)
  PROVE  Clocked(req, "flush")
  <1>1. l1' = [c \in CUs |-> L1After(l1[c], req[c], "flush", l2.ack, c, l2.out)]
    BY DEF Clock, L1After, L1Next
  <1>2. l2' = L2After(l2, Raised, [c \in CUs |-> l1[c].q], "flush", gmem)
    BY ("flush" = "flush") = TRUE, Zenon DEF Clock, L2After
  <1>3. /\ gmem' = Written(l2, gmem)
        /\ wait' = {c \in CUs : IF c \in wait THEN l1[c].resp = NoAnswer ELSE req[c] # NoReq}
    BY Zenon DEF Clock, Written
  <1> QED
    BY <1>1, <1>2, <1>3 DEF Clocked

\* What IInv says of one unit.
LEMMA UnitFacts ==
  ASSUME IInv, NEW c \in CUs
  PROVE  /\ l1[c] \in L1Type /\ L1Inv(l1[c])
         /\ l1[c].q \in Request \cup {NoReq}
         /\ l1[c].q = NoReq <=> l1[c].st \in {"IDLE", "FLUSH"}
         /\ l1[c].st \in {"IDLE", "LOOKUP", "FLUSH"} \cup L1Wait
         /\ l1[c].resp # NoAnswer => l1[c].st = "IDLE"
         /\ c \in wait <=> (l1[c].q # NoReq \/ l1[c].resp # NoAnswer)
         /\ l2.ack = c => l1[c].st \in L1Wait /\ Matches(l2.out, l1[c].q)
         /\ l2.ack = c => l2.st = "IDLE"
         /\ c \in Raised <=> l1[c].st \in L1Wait /\ l2.ack # c
  <1>1. L1Inv(l1[c])
    BY DEF IInv
  <1>2. l1[c] \in L1Type /\ L1Good(l1[c].st, l1[c].lines, l1[c].q, l1[c].resp, l1[c].walk, l1[c].flushed)
    BY <1>1, L1Parts
  <1>3. /\ l1[c].q \in Request \cup {NoReq}
        /\ l1[c].q = NoReq <=> l1[c].st \in {"IDLE", "FLUSH"}
        /\ l1[c].st \in {"IDLE", "LOOKUP", "FLUSH"} \cup L1Wait
        /\ l1[c].resp # NoAnswer => l1[c].st = "IDLE"
    BY <1>2 DEF L1Good, L1Wait
  <1>4. c \in wait <=> (l1[c].q # NoReq \/ l1[c].resp # NoAnswer)
    BY DEF IInv, WaitInv
  <1>5. c # NoPort
    BY L2Assumption DEF CUs, Ports, NoPort
  <1>6. l2.ack = c => l1[c].st \in L1Wait /\ Matches(l2.out, l1[c].q)
    BY <1>5 DEF IInv, AnswerInv
  <1>7. l2.ack = c => l2.st = "IDLE"
    BY <1>5 DEF IInv, L2Inv, L2Request
  <1>8. c \in Raised <=> l1[c].st \in L1Wait /\ l2.ack # c
    BY DEF Raised, L1MemReq, L1Wait
  <1> QED
    BY <1>1, <1>2, <1>3, <1>4, <1>6, <1>7, <1>8, Zenon

\* What IInv says of the L2 and the unit it serves.
LEMMA L2Facts ==
  ASSUME IInv
  PROVE  /\ l2 \in L2Type /\ L2Inv(l2) /\ CleanInv(l2, gmem) /\ gmem \in Memory
         /\ l2.port \in CUs /\ l2.st \in {"IDLE"} \cup L2Busy \cup L2Walks
         /\ l2.ack \in CUs \cup {NoPort}
         /\ l2.st \in L2Busy => /\ l2.q \in Request /\ L2Set(l2) \in 0 .. L2Sets - 1
                                /\ l1[l2.port].st \in L1Wait /\ l1[l2.port].q = l2.q
         /\ l2.ack # NoPort => l2.st = "IDLE"
         /\ Raised \in SUBSET CUs
         /\ \A p \in Raised : [c \in CUs |-> l1[c].q][p] = l1[p].q /\ l1[p].q \in Request
  <1>1. L2Inv(l2) /\ CleanInv(l2, gmem) /\ gmem \in Memory
    BY DEF IInv
  <1>2. l2 \in L2Type /\ L2Good(l2.st, l2.lines, l2.q, l2.port, l2.ack, l2.out, l2.walk, l2.flushed, gmem)
    BY <1>1, L2Parts
  <1>3. /\ l2.port \in CUs /\ l2.st \in {"IDLE"} \cup L2Busy \cup L2Walks
        /\ l2.ack \in CUs \cup {NoPort}
        /\ l2.ack # NoPort => l2.st = "IDLE"
        /\ l2.st \in L2Busy => l2.q \in Request
    BY <1>2 DEF L2Good, CUs, L2Busy, L2Walks
  <1>4. l2.st \in L2Busy => L2Set(l2) \in 0 .. L2Sets - 1
    BY <1>3, RequestKinds, SetOfType, L2Assumption DEF L2Set
  <1>5. l2.st \in L2Busy => l1[l2.port].st \in L1Wait /\ l1[l2.port].q = l2.q
    BY DEF IInv, Handshake, L2Busy, L1Wait
  <1>6. Raised \in SUBSET CUs
    BY DEF Raised
  <1>7. \A p \in Raised : l1[p].q \in Request
    <2> SUFFICES ASSUME NEW p \in Raised PROVE l1[p].q \in Request
      OBVIOUS
    <2>1. p \in CUs
      BY <1>6
    <2> QED
      BY <2>1, UnitFacts DEF L1Wait
  <1>8. \A p \in Raised : [c \in CUs |-> l1[c].q][p] = l1[p].q
    BY <1>6
  <1> QED
    BY <1>1, <1>2, <1>3, <1>4, <1>5, <1>6, <1>7, <1>8

\* What a clock may be given.
Given(req, kind) ==
  /\ Clocked(req, kind)
  /\ \A c \in CUs : /\ req[c] \in Request \cup {NoReq}
                    /\ c \in wait => req[c] = NoReq
                    /\ kind = "flush" \/ l1[c].st = "FLUSH" => req[c] = NoReq
  /\ kind = "flush" => wait = {}

\* Each unit's cache, the unit whose request the L2 has picked or answered included.
LEMMA UnitClock ==
  ASSUME IInv, NEW req, NEW kind, Given(req, kind), NEW c \in CUs
  PROVE  /\ l1'[c] = L1After(l1[c], req[c], kind, l2.ack, c, l2.out)
         /\ L1Inv(l1'[c])
         /\ c \in wait' <=> (l1'[c].q # NoReq \/ l1'[c].resp # NoAnswer)
         /\ l1[c].st \in L1Wait /\ l2.ack # c =>
              l1'[c].st = l1[c].st /\ l1'[c].q = l1[c].q /\ l1'[c].lines = l1[c].lines
  <1>1. l1'[c] = L1After(l1[c], req[c], kind, l2.ack, c, l2.out)
    BY DEF Given, Clocked
  <1>2. /\ l1[c] \in L1Type /\ L1Inv(l1[c])
        /\ c \in wait <=> (l1[c].q # NoReq \/ l1[c].resp # NoAnswer)
        /\ l2.ack = c => l1[c].st \in L1Wait /\ Matches(l2.out, l1[c].q)
    BY UnitFacts
  <1>3. /\ req[c] \in Request \cup {NoReq} /\ (c \in wait => req[c] = NoReq)
        /\ kind = "flush" \/ l1[c].st = "FLUSH" => req[c] = NoReq
        /\ kind = "flush" => ~(c \in wait)
    BY DEF Given
  <1>4. L1Inv(l1'[c])
    BY <1>1, <1>2, <1>3, L1Step
  <1>5. l1[c].st \in L1Wait /\ l2.ack # c =>
          l1'[c].st = l1[c].st /\ l1'[c].q = l1[c].q /\ l1'[c].lines = l1[c].lines
    BY <1>1, <1>2, L1Holds
  <1>6. (IF c \in wait THEN l1[c].resp = NoAnswer ELSE req[c] # NoReq)
          <=> (l1'[c].q # NoReq \/ l1'[c].resp # NoAnswer)
    BY <1>1, <1>2, <1>3, L1Waits
  <1>7. c \in wait' <=> (IF c \in wait THEN l1[c].resp = NoAnswer ELSE req[c] # NoReq)
    BY DEF Given, Clocked
  <1> QED
    BY <1>1, <1>4, <1>5, <1>6, <1>7

\* A clock keeps the handshake: the L2 picks a request its L1 goes on holding.
LEMMA ClockHandshake ==
  ASSUME IInv, NEW req, NEW kind, Given(req, kind)
  PROVE  Handshake'
  <1>1. /\ l2 \in L2Type
        /\ l2.port \in CUs /\ l2.st \in {"IDLE"} \cup L2Busy \cup L2Walks
        /\ l2.ack \in CUs \cup {NoPort}
        /\ l2.st \in L2Busy => l1[l2.port].st \in L1Wait /\ l1[l2.port].q = l2.q
        /\ l2.ack # NoPort => l2.st = "IDLE"
        /\ Raised \in SUBSET CUs
        /\ \A p \in Raised : [c \in CUs |-> l1[c].q][p] = l1[p].q
        /\ l2.st = "FLUSH_WB" => l2.walk < L2Sets
    BY L2Facts DEF L2Inv, L2Flush
  <1>2. l2' = L2After(l2, Raised, [c \in CUs |-> l1[c].q], kind, gmem)
    BY DEF Given, Clocked
  <1>3. \A c \in CUs : l1[c].st \in L1Wait /\ l2.ack # c =>
          l1'[c].st = l1[c].st /\ l1'[c].q = l1[c].q /\ l1'[c].lines = l1[c].lines
    BY UnitClock
  <1>4. \A c \in Raised : l1[c].st \in L1Wait /\ l2.ack # c
    BY <1>1, UnitFacts
  <1>5. NoPort \notin CUs
    BY L2Assumption DEF CUs, Ports, NoPort
  <1>6. SUFFICES /\ l2'.st \in L2Busy => l1'[l2'.port].st \in L1Wait /\ l1'[l2'.port].q = l2'.q
                 /\ l2'.ack # NoPort => l1'[l2'.ack].st \in L1Wait
    BY DEF Handshake, L2Busy, L1Wait
  <1>7. CASE l2.st = "IDLE"
    <2>1. /\ l2'.ack = NoPort
          /\ kind = "flush" => l2'.st = "FLUSH"
          /\ kind # "flush" /\ Raised = {} => l2'.st = "IDLE"
          /\ kind # "flush" /\ Raised # {} =>
               l2'.st = "LOOKUP" /\ l2'.port \in Raised /\ l2'.q = [c \in CUs |-> l1[c].q][l2'.port]
      BY <1>1, <1>2, <1>7, L2Idles DEF CUs
    <2> QED
      BY <1>1, <1>3, <1>4, <2>1 DEF L2Busy
  <1>8. CASE l2.st \in L2Busy
    <2>1. l2.ack # l2.port /\ l1[l2.port].st \in L1Wait /\ l1[l2.port].q = l2.q
      BY <1>1, <1>5, <1>8 DEF L2Busy
    <2>2. l1'[l2.port].st \in L1Wait /\ l1'[l2.port].q = l2.q
      BY <1>1, <1>3, <2>1
    <2>3. CASE Performs(l2)
      <3>1. l2'.st = "IDLE" /\ l2'.ack = l2.port
        BY <1>1, <1>2, <2>3, L2Performs
      <3> QED
        BY <2>2, <3>1 DEF L2Busy
    <2>4. CASE ~Performs(l2)
      <3>1. l2'.q = l2.q /\ l2'.port = l2.port /\ l2'.ack = NoPort
        BY <1>1, <1>2, <1>8, <2>4, L2Works
      <3> QED
        BY <2>2, <3>1
    <2> QED
      BY <2>3, <2>4
  <1>9. CASE l2.st \in L2Walks
    <2>1. l2'.ack = NoPort /\ l2'.st \in L2Walks \cup {"IDLE"}
      BY <1>1, <1>2, <1>9, L2Drops
    <2> QED
      BY <2>1 DEF L2Walks, L2Busy
  <1> QED
    BY <1>1, <1>7, <1>8, <1>9

\* An acknowledge finds its L1 waiting for that answer, and a load gets the memory.
LEMMA ClockAnswer ==
  ASSUME IInv, NEW req, NEW kind, Given(req, kind)
  PROVE  AnswerInv'
  <1>1. /\ l2 \in L2Type
        /\ l2.port \in CUs /\ l2.st \in {"IDLE"} \cup L2Busy \cup L2Walks
        /\ l2.st \in L2Busy => /\ l1[l2.port].st \in L1Wait /\ l1[l2.port].q = l2.q
                               /\ l2.q \in Request /\ L2Set(l2) \in 0 .. L2Sets - 1
        /\ l2.ack # NoPort => l2.st = "IDLE"
        /\ Raised \in SUBSET CUs
        /\ l2.st = "FLUSH_WB" => l2.walk < L2Sets
    BY L2Facts DEF L2Inv, L2Flush
  <1>2. l2' = L2After(l2, Raised, [c \in CUs |-> l1[c].q], kind, gmem)
    BY DEF Given, Clocked
  <1>3. CASE Performs(l2)
    <2> DEFINE s == L2Set(l2)
               a == AnswerTo(l2.q, l2.lines[s].data)
    <2>1. l2.st \in L2Busy
      BY <1>3 DEF Performs, L2Busy
    <2>2. l2'.ack = l2.port /\ l2'.out = a /\ l2'.lines = Replaced(l2.lines, s, ServedLine(l2))
      BY <1>1, <1>2, <1>3, L2Performs
    <2>3. l1'[l2.port].st = l1[l2.port].st /\ l1'[l2.port].q = l2.q /\ l1[l2.port].st \in L1Wait
      <3>1. NoPort \notin CUs
        BY L2Assumption DEF CUs, Ports, NoPort
      <3>2. l2.ack # l2.port
        BY <1>1, <2>1, <3>1 DEF L2Busy
      <3> QED
        BY <1>1, <2>1, <3>2, UnitClock
    <2>4. s \in 0 .. L2Sets - 1 /\ l2.lines[s].line = l2.q.line /\ l2.lines[s].data \in LineData
          /\ l2.q \in Request /\ l2.lines \in [0 .. L2Sets - 1 -> L2Line]
      <3>1. /\ l2.lines \in [0 .. L2Sets - 1 -> L2Line]
            /\ l2.st = "SERVE" => l2.lines[s].line = l2.q.line
        BY L2Facts, L2Fields DEF L2Inv, L2Places
      <3>2. l2.lines[s].line = l2.q.line /\ l2.lines[s] \in L2Line
        BY <1>1, <1>3, <2>1, <3>1 DEF Performs
      <3>3. l2.q.line \in Lines
        BY <1>1, <2>1, RequestKinds
      <3> QED
        BY <1>1, <2>1, <3>1, <3>2, <3>3, L2LineKinds
    <2>5. /\ a \in Answers /\ a.op = l2.q.op
          /\ l2.q.op = "LD" => a.data = l2.lines[s].data /\ Performed(l2.q, l2.lines[s].data) = l2.lines[s].data
      BY <2>4, PerformedType
    <2>6. Matches(l2'.out, l1'[l2.port].q)
      BY <2>2, <2>3, <2>4, <2>5, RequestKinds DEF Matches
    <2>7. ASSUME l1'[l2.port].st = "FILL"
          PROVE  /\ l2'.lines[SetOf(l2.q.line, L2Sets)].line = l2.q.line
                 /\ l2'.out.data = l2'.lines[SetOf(l2.q.line, L2Sets)].data
      <3>1. l2.q.op = "LD"
        BY <1>1, <2>1, <2>3, <2>7, UnitFacts DEF L1Inv, L1Request
      <3>2. l2'.lines[s].line = l2.q.line /\ l2'.lines[s].data = l2.lines[s].data
        BY <2>2, <2>4, <2>5, <3>1 DEF Replaced, ServedLine
      <3>3. s = SetOf(l2.q.line, L2Sets)
        BY DEF L2Set
      <3> QED
        BY <2>2, <2>5, <3>1, <3>2, <3>3
    <2>8. l1'[l2'.ack].st \in L1Wait /\ Matches(l2'.out, l1'[l2'.ack].q)
      BY <2>2, <2>3, <2>6
    <2>9. l1'[l2'.ack].st = "FILL" =>
            LET l == l1'[l2'.ack].q.line
                e == l2'.lines[SetOf(l, L2Sets)]
            IN  l2'.out.data = IF e.line = l THEN e.data ELSE gmem'[l]
      BY <2>2, <2>3, <2>7
    <2> QED
      BY <2>8, <2>9, Zenon DEF AnswerInv, MemLine
  <1>4. CASE ~Performs(l2)
    <2>1. l2'.ack = NoPort
      <3>1. CASE l2.st = "IDLE"
        BY <1>1, <1>2, <3>1, L2Idles DEF CUs
      <3>2. CASE l2.st \in L2Busy
        BY <1>1, <1>2, <1>4, <3>2, L2Works
      <3>3. CASE l2.st \in L2Walks
        BY <1>1, <1>2, <3>3, L2Drops
      <3> QED
        BY <1>1, <3>1, <3>2, <3>3
    <2> QED
      BY <2>1 DEF AnswerInv
  <1> QED
    BY <1>3, <1>4

\* A clock keeps every part of IInv that does not name the phase.
LEMMA ClockInv ==
  ASSUME IInv, NEW req, NEW kind, Given(req, kind)
  PROVE  /\ gmem' \in Memory /\ wait' \subseteq CUs
         /\ l1' \in [CUs -> L1Type] /\ \A c \in CUs : L1Inv(l1'[c])
         /\ L2Inv(l2') /\ CleanInv(l2', gmem')
         /\ Handshake' /\ AnswerInv' /\ WaitInv'
  <1>1. \A c \in CUs : L1Inv(l1'[c]) /\ (c \in wait' <=> (l1'[c].q # NoReq \/ l1'[c].resp # NoAnswer))
    BY UnitClock
  <1>2. l1' = [c \in CUs |-> L1After(l1[c], req[c], kind, l2.ack, c, l2.out)]
    BY DEF Given, Clocked
  <1>3. l1' = [c \in CUs |-> l1'[c]]
    BY <1>2
  <1>4. \A c \in CUs : l1'[c] \in L1Type
    BY <1>1 DEF L1Inv
  <1>5. l1' \in [CUs -> L1Type]
    BY <1>3, <1>4
  <1>6. wait' \subseteq CUs
    BY DEF Given, Clocked
  <1>7. gmem' = Written(l2, gmem) /\ l2' = L2After(l2, Raised, [c \in CUs |-> l1[c].q], kind, gmem)
    BY DEF Given, Clocked
  <1>8. /\ L2Inv(l2) /\ CleanInv(l2, gmem) /\ gmem \in Memory /\ Raised \in SUBSET Ports
        /\ \A p \in Raised : [c \in CUs |-> l1[c].q][p] \in Request
    BY L2Facts DEF CUs
  <1>9. gmem' \in Memory
    BY <1>7, <1>8, WrittenType
  <1>10. L2Inv(l2') /\ CleanInv(l2', gmem')
    BY <1>7, <1>8, L2Step
  <1>11. WaitInv'
    BY <1>1 DEF WaitInv
  <1> QED
    BY <1>1, <1>5, <1>6, <1>9, <1>10, <1>11, ClockHandshake, ClockAnswer

\* With no unit waiting nothing is under way in any cache, but for the flush.
LEMMA Quiescent ==
  ASSUME IInv, wait = {}
  PROVE  /\ \A c \in CUs : l1[c].st \in {"IDLE", "FLUSH"} /\ l1[c].q = NoReq /\ l1[c].resp = NoAnswer
         /\ l2.st \in {"IDLE"} \cup L2Walks /\ l2.ack = NoPort /\ Raised = {}
  <1>1. \A c \in CUs : /\ l1[c].st \in {"IDLE", "FLUSH"} /\ l1[c].q = NoReq /\ l1[c].resp = NoAnswer
                       /\ l1[c].st \notin L1Wait
    BY UnitFacts DEF L1Wait
  <1>2. l2.st \notin L2Busy /\ l2.st \in {"IDLE"} \cup L2Busy \cup L2Walks /\ l2.ack \in CUs \cup {NoPort}
    BY <1>1, L2Facts
  <1>3. l2.ack = NoPort
    BY <1>1, <1>2, UnitFacts
  <1>4. Raised = {}
    BY <1>1 DEF Raised, L1MemReq, L1Wait
  <1> QED
    BY <1>1, <1>2, <1>3, <1>4

\* With no unit waiting a clock that asks nothing leaves none waiting.
LEMMA QuietGiven ==
  ASSUME IInv, NEW kind, wait = {}, Clocked(Quiet, kind)
  PROVE  Given(Quiet, kind) /\ wait' = {}
  <1>1. \A c \in CUs : Quiet[c] = NoReq
    BY DEF Quiet
  <1>2. wait' = {c \in CUs : IF c \in wait THEN l1[c].resp = NoAnswer ELSE Quiet[c] # NoReq}
    BY DEF Clocked
  <1>3. wait' = {}
    BY <1>1, <1>2
  <1> QED
    BY <1>1, <1>3 DEF Given

\* The clocks of the kernel keep IInv.
LEMMA RunInv ==
  ASSUME IInv, Run
  PROVE  IInv'
  <1>1. PICK req \in [CUs -> UNION {Requests[c] : c \in CUs} \cup {NoReq}] :
          /\ \A c \in CUs : req[c] \in {NoReq} \cup (IF c \in wait THEN {} ELSE Requests[c])
          /\ Clock(req, FALSE)
    BY Zenon DEF Run
  <1>2. phase = "kernel" /\ phase' = "kernel" /\ seen' = seen
    BY DEF Run
  <1>3. \A c \in CUs : l1[c].st # "FLUSH" /\ ~l1[c].flushed
    BY <1>2 DEF IInv, PhaseInv
  <1>4. l2.st \notin L2Walks /\ ~l2.flushed
    BY <1>2 DEF IInv, PhaseInv
  <1>5. Clocked(req, "run")
    BY <1>1, ClockRuns
  <1>6. Given(req, "run")
    <2>1. \A c \in CUs : Requests[c] \subseteq Request
      BY RequestsAssumption
    <2>2. \A c \in CUs : req[c] \in Request \cup {NoReq} /\ (c \in wait => req[c] = NoReq)
      BY <1>1, <2>1
    <2> QED
      BY <1>3, <1>5, <2>2 DEF Given
  <1>7. \A c \in CUs : l1'[c].st # "FLUSH" /\ ~l1'[c].flushed
    <2> SUFFICES ASSUME NEW c \in CUs
                 PROVE  l1'[c].st # "FLUSH" /\ ~l1'[c].flushed
      OBVIOUS
    <2>1. /\ l1'[c] = L1After(l1[c], req[c], "run", l2.ack, c, l2.out)
          /\ l1[c] \in L1Type /\ l1[c].q \in Request \cup {NoReq}
          /\ l1[c].q = NoReq <=> l1[c].st \in {"IDLE", "FLUSH"}
          /\ l1[c].st \in {"IDLE", "LOOKUP", "FLUSH"} \cup L1Wait
      BY <1>6, UnitClock, UnitFacts
    <2>2. CASE l1[c].st = "IDLE"
      BY <2>1, <2>2, L1Idles
    <2>3. CASE l1[c].st = "LOOKUP"
      BY <2>1, <2>3, L1LooksUp DEF L1Wait
    <2>4. CASE l1[c].st \in L1Wait /\ l2.ack = c
      BY <2>1, <2>4, L1Answers
    <2>5. CASE l1[c].st \in L1Wait /\ l2.ack # c
      BY <2>1, <2>5, L1Holds DEF L1Wait
    <2> QED
      BY <1>3, <2>1, <2>2, <2>3, <2>4, <2>5
  <1>8. l2'.st \notin L2Walks /\ ~l2'.flushed
    <2>1. /\ l2 \in L2Type /\ l2' = L2After(l2, Raised, [c \in CUs |-> l1[c].q], "run", gmem)
          /\ Raised \in SUBSET Ports /\ l2.st \in {"IDLE"} \cup L2Busy \cup L2Walks
      BY <1>6, L2Facts DEF Given, Clocked, CUs
    <2>2. CASE l2.st = "IDLE"
      <3>1. /\ ~l2'.flushed
            /\ Raised = {} => l2'.st = "IDLE"
            /\ Raised # {} => l2'.st = "LOOKUP"
        BY <2>1, <2>2, L2Idles DEF CUs
      <3> QED
        BY <3>1 DEF L2Walks
    <2>3. CASE Performs(l2)
      BY <2>1, <2>3, L2Performs DEF L2Walks
    <2>4. CASE l2.st \in L2Busy /\ ~Performs(l2)
      <3>1. l2'.st \in L2Busy /\ ~l2'.flushed
        BY <2>1, <2>4, L2Works
      <3> QED
        BY <3>1 DEF L2Walks, L2Busy
    <2> QED
      BY <1>4, <2>1, <2>2, <2>3, <2>4
  <1>9. PhaseInv' /\ BoundaryEmpty'
    BY <1>2, <1>7, <1>8 DEF PhaseInv, BoundaryEmpty
  <1>10. phase' \in {"kernel", "flush", "idle"} /\ seen' \subseteq CUs
    BY <1>2 DEF IInv
  <1> QED
    BY <1>6, <1>9, <1>10, ClockInv DEF IInv

\* The flush pulse keeps IInv: every cache is idle when it comes.
LEMMA EndKernelInv ==
  ASSUME IInv, EndKernel
  PROVE  IInv'
  <1>1. phase = "kernel" /\ wait = {} /\ phase' = "flush" /\ seen' = {} /\ Clocked(Quiet, "flush")
    BY ClockFlushes DEF EndKernel
  <1>2. Given(Quiet, "flush") /\ wait' = {}
    BY <1>1, QuietGiven
  <1>3. \A c \in CUs : l1'[c].st = "FLUSH" /\ ~l1'[c].flushed
    <2> SUFFICES ASSUME NEW c \in CUs
                 PROVE  l1'[c].st = "FLUSH" /\ ~l1'[c].flushed
      OBVIOUS
    <2>1. l1[c].st # "FLUSH"
      BY <1>1 DEF IInv, PhaseInv
    <2>2. l1[c].st = "IDLE"
      BY <1>1, <2>1, Quiescent
    <2>3. l1[c] \in L1Type /\ l1'[c] = L1After(l1[c], Quiet[c], "flush", l2.ack, c, l2.out)
      BY <1>2, UnitClock, UnitFacts
    <2> QED
      BY <2>2, <2>3, L1Idles
  <1>4. l2'.st = "FLUSH"
    <2>1. l2.st \notin L2Walks
      BY <1>1 DEF IInv, PhaseInv
    <2>2. l2.st = "IDLE"
      BY <1>1, <2>1, Quiescent
    <2>3. /\ l2 \in L2Type /\ l2' = L2After(l2, Raised, [c \in CUs |-> l1[c].q], "flush", gmem)
          /\ Raised \in SUBSET Ports
      BY <1>2, L2Facts DEF Given, Clocked, CUs
    <2> QED
      BY <2>2, <2>3, L2Idles
  <1>5. PhaseInv' /\ BoundaryEmpty'
    BY <1>1, <1>2, <1>3, <1>4 DEF PhaseInv, BoundaryEmpty
  <1> QED
    BY <1>1, <1>2, <1>5, ClockInv DEF IInv

\* The clocks of the flush keep IInv: once all L1s have reported and the L2 does, all are empty.
LEMMA FlushInv ==
  ASSUME IInv, Flush
  PROVE  IInv'
  <1>1. /\ phase = "flush" /\ Clocked(Quiet, "run") /\ seen' = Reported
        /\ phase' = IF Reported = CUs /\ l2.flushed THEN "idle" ELSE "flush"
    BY ClockRuns DEF Flush
  <1>2. wait = {}
    BY <1>1 DEF IInv, PhaseInv
  <1>3. Given(Quiet, "run") /\ wait' = {}
    BY <1>1, <1>2, QuietGiven
  <1>4. \A c \in CUs :
          /\ l1[c] \in L1Type /\ L1Inv(l1[c]) /\ L1Inv(l1'[c])
          /\ l1'[c] = L1After(l1[c], NoReq, "run", l2.ack, c, l2.out)
          /\ l1[c].st \in {"IDLE", "FLUSH"} /\ l1[c].q = NoReq
    BY <1>2, <1>3, UnitClock, UnitFacts, Quiescent DEF Quiet
  <1>5. \A c \in CUs : l1[c].st = "IDLE" =>
          /\ l1'[c].st = "IDLE" /\ l1'[c].q = NoReq /\ l1'[c].resp = NoAnswer /\ ~l1'[c].flushed
          /\ l1'[c].lines = l1[c].lines /\ l1'[c].walk = l1[c].walk
    BY <1>4, L1Idles
  <1>6. \A c \in CUs : l1[c].st = "FLUSH" =>
          l1'[c].st \in {"FLUSH", "IDLE"} /\ (l1'[c].flushed <=> l1'[c].st = "IDLE")
    BY <1>4, L1Walks
  <1>7. /\ l2 \in L2Type /\ l2' = L2After(l2, {}, [c \in CUs |-> l1[c].q], "run", gmem)
        /\ l2.st \in {"IDLE"} \cup L2Walks
        /\ L2Inv(l2) /\ L2Inv(l2')
    BY <1>2, <1>3, L2Facts, ClockInv, Quiescent DEF Given, Clocked
  <1>8. l2.st = "IDLE" => l2'.st = "IDLE" /\ ~l2'.flushed /\ l2'.lines = l2.lines
    BY <1>7, L2Idles
  <1>9. l2.st \in L2Walks => (l2'.flushed <=> l2'.st = "IDLE")
    BY <1>7, L2Drops DEF L2Inv, L2Flush
  <1>10. \A c \in CUs : l1[c].st = "IDLE" => \A s \in 0 .. L1Sets - 1 : l1[c].lines[s] = Invalid
    BY <1>1 DEF IInv, PhaseInv
  <1>11. l2.st = "IDLE" => \A s \in 0 .. L2Sets - 1 : l2.lines[s] = Empty
    BY <1>1 DEF IInv, PhaseInv
  <1>12. seen \subseteq {c \in CUs : l1[c].st = "IDLE"} /\ \A c \in CUs : l1[c].flushed => c \notin seen
    BY <1>1 DEF IInv, PhaseInv
  <1>13. seen' \subseteq CUs /\ \A c \in CUs : c \in seen' <=> c \in seen \/ l1[c].flushed
    BY <1>1 DEF Reported, IInv
  <1>14. \A c \in CUs : l1[c].flushed => l1[c].st = "IDLE"
    BY <1>4 DEF L1Inv, L1Flush
  <1>15. l2.flushed => l2.st = "IDLE"
    BY <1>7 DEF L2Inv, L2Flush
  <1>16. seen' \subseteq {c \in CUs : l1'[c].st = "IDLE"} /\ \A c \in seen' : l1[c].st = "IDLE"
    BY <1>5, <1>12, <1>13, <1>14
  <1>17. \A c \in CUs : l1'[c].st = "IDLE" => \A s \in 0 .. L1Sets - 1 : l1'[c].lines[s] = Invalid
    BY <1>4, <1>5, <1>6, <1>10 DEF L1Inv, L1Flush
  <1>18. l2'.st = "IDLE" => \A s \in 0 .. L2Sets - 1 : l2'.lines[s] = Empty
    BY <1>7, <1>8, <1>9, <1>11 DEF L2Inv, L2Flush
  <1>19. \A c \in CUs : l1'[c].flushed => c \notin seen'
    BY <1>4, <1>5, <1>6, <1>12, <1>13, <1>14
  <1>20. phase' = "idle" => l2'.st = "IDLE" /\ ~l2'.flushed
    BY <1>1, <1>8, <1>15
  <1>21. phase' \in {"flush", "idle"}
    BY <1>1
  <1>22. PhaseInv'
    BY <1>3, <1>16, <1>17, <1>18, <1>19, <1>20, <1>21 DEF PhaseInv
  <1>23. BoundaryEmpty'
    <2> SUFFICES ASSUME phase' = "idle"
                 PROVE  /\ \A c \in CUs : l1'[c] = L1Init
                        /\ \A s \in 0 .. L2Sets - 1 : l2'.lines[s] = Empty
      BY DEF BoundaryEmpty
    <2>1. \A s \in 0 .. L2Sets - 1 : l2'.lines[s] = Empty
      BY <1>18, <1>20
    <2>2. ASSUME NEW c \in CUs
          PROVE  l1'[c] = L1Init
      <3>1. c \in seen'
        BY <1>1
      <3>2. l1[c].st = "IDLE"
        BY <1>16, <3>1
      <3>3. /\ l1'[c].st = "IDLE" /\ l1'[c].q = NoReq /\ l1'[c].resp = NoAnswer /\ ~l1'[c].flushed
            /\ l1'[c].lines = l1[c].lines /\ l1'[c].walk = l1[c].walk
        BY <1>5, <3>2
      <3>4. l1[c].walk = 0 /\ \A s \in 0 .. L1Sets - 1 : l1[c].lines[s] = Invalid
        BY <1>4, <1>10, <3>2 DEF L1Inv, L1Flush
      <3>5. /\ l1'[c] \in L1Type /\ l1[c].lines \in [0 .. L1Sets - 1 -> L1Line]
        BY <1>4, L1Fields DEF L1Inv
      <3>6. l1[c].lines = [s \in 0 .. L1Sets - 1 |-> Invalid]
        BY <3>4, <3>5
      <3>7. /\ l1'[c].flushed \in BOOLEAN
            /\ l1'[c] = L1Rec(l1'[c].st, l1'[c].lines, l1'[c].q, l1'[c].resp,
                              l1'[c].walk, l1'[c].flushed)
        BY <3>5, L1Fields
      <3> QED
        BY <3>3, <3>4, <3>6, <3>7 DEF L1Init, L1Rec
    <2> QED
      BY <2>1, <2>2
  <1> QED
    BY <1>3, <1>13, <1>21, <1>22, <1>23, ClockInv DEF IInv

\* The reset state satisfies IInv.
LEMMA InitInv ==
  ASSUME Init
  PROVE  IInv
  <1>1. L1Inv(L1Init)
    <2>1. L1Good("IDLE", [s \in 0 .. L1Sets - 1 |-> Invalid], NoReq, NoAnswer, 0, FALSE)
      BY L1Assumption DEF L1Good, L1Line
    <2>2. L1Init = L1Rec("IDLE", [s \in 0 .. L1Sets - 1 |-> Invalid], NoReq, NoAnswer, 0, FALSE)
      BY DEF L1Init, L1Rec
    <2> QED
      BY <2>1, <2>2, L1Build
  <1>2. gmem \in Memory
    <2>1. [w \in Offsets |-> 0] \in LineData
      BY MemoryAssumption DEF LineData, Word
    <2> QED
      BY <2>1 DEF Init, Memory
  <1>3. L2Inv(l2) /\ CleanInv(l2, gmem)
    <2>0. PICK lines : lines = [s \in 0 .. L2Sets - 1 |-> Empty]
      OBVIOUS
    <2>1. L2Good("IDLE", lines, NoReq, 0, NoPort, NoAnswer, 0, FALSE, gmem)
      BY <2>0, L2Assumption DEF L2Good, L2Line, Ports
    <2>2. l2 = L2Rec("IDLE", lines, NoReq, 0, NoPort, NoAnswer, 0, FALSE)
      BY <2>0 DEF Init, L2Init, L2Rec
    <2> QED
      BY <2>1, <2>2, L2Build
  <1>4. /\ l2.st = "IDLE" /\ l2.ack = NoPort /\ ~l2.flushed
        /\ \A s \in 0 .. L2Sets - 1 : l2.lines[s] = Empty
    BY DEF Init, L2Init
  <1>5. \A c \in CUs : l1[c] = L1Init
    BY DEF Init
  <1>6. L1Init.q = NoReq /\ L1Init.resp = NoAnswer
    BY DEF L1Init
  <1>7. l1 \in [CUs -> L1Type]
    BY <1>1 DEF Init, L1Inv
  <1>8. wait = {} /\ phase = "idle" /\ seen = {}
    BY DEF Init
  <1>9. Handshake /\ AnswerInv /\ WaitInv /\ PhaseInv /\ BoundaryEmpty
    BY <1>4, <1>5, <1>6, <1>8 DEF Handshake, AnswerInv, WaitInv, PhaseInv, BoundaryEmpty
  <1> QED
    BY <1>1, <1>2, <1>3, <1>5, <1>7, <1>8, <1>9 DEF IInv

\* The host writes memory that no cache holds a line of.
LEMMA HostWriteInv ==
  ASSUME IInv, HostWrite
  PROVE  IInv'
  <1>1. phase = "idle" /\ l1' = l1 /\ l2' = l2 /\ wait' = wait /\ phase' = phase /\ seen' = seen
    BY DEF HostWrite
  <1>2. gmem' \in Memory
    <2>1. PICK l \in Lines, w \in Offsets, v \in Word : gmem' = [gmem EXCEPT ![l][w] = v]
      BY DEF HostWrite
    <2>2. gmem \in Memory
      BY DEF IInv
    <2>3. gmem[l] \in LineData
      BY <2>2 DEF Memory
    <2>4. [gmem[l] EXCEPT ![w] = v] \in LineData
      BY <2>3 DEF LineData
    <2> QED
      BY <2>1, <2>2, <2>4 DEF Memory
  <1>3. \A s \in 0 .. L2Sets - 1 : l2.lines[s] = Empty
    BY <1>1 DEF IInv, BoundaryEmpty
  <1>4. \A c \in CUs : l1[c].st = "IDLE"
    BY <1>1 DEF IInv, BoundaryEmpty, L1Init
  <1>5. l2.st = "IDLE" /\ l2.ack = NoPort
    <2>1. l2.st = "IDLE"
      BY <1>1 DEF IInv, PhaseInv
    <2>2. l2.ack \in CUs => l1[l2.ack].st \in L1Wait
      BY UnitFacts
    <2> QED
      BY <1>4, <2>1, <2>2, L2Facts DEF L1Wait
  <1>6. CleanInv(l2, gmem')
    BY <1>3, <1>5 DEF CleanInv
  <1>7. AnswerInv'
    BY <1>1, <1>5 DEF AnswerInv
  <1>8. Handshake' /\ WaitInv' /\ PhaseInv' /\ BoundaryEmpty'
    BY <1>1 DEF IInv, Handshake, WaitInv, PhaseInv, BoundaryEmpty
  <1> QED
    BY <1>1, <1>2, <1>6, <1>7, <1>8 DEF IInv

\* A launch finds every cache idle.
LEMMA LaunchInv ==
  ASSUME IInv, Launch
  PROVE  IInv'
  <1>1. /\ phase = "idle" /\ phase' = "kernel"
        /\ l1' = l1 /\ l2' = l2 /\ wait' = wait /\ gmem' = gmem /\ seen' = seen
    BY DEF Launch
  <1>2. \A c \in CUs : l1[c].st # "FLUSH" /\ ~l1[c].flushed
    BY <1>1 DEF IInv, BoundaryEmpty, L1Init
  <1>3. l2.st \notin L2Walks /\ ~l2.flushed
    BY <1>1 DEF IInv, PhaseInv, L2Walks
  <1>4. PhaseInv' /\ BoundaryEmpty'
    BY <1>1, <1>2, <1>3 DEF PhaseInv, BoundaryEmpty
  <1>5. Handshake' /\ WaitInv' /\ AnswerInv'
    BY <1>1 DEF IInv, Handshake, WaitInv, AnswerInv, MemLine
  <1> QED
    BY <1>1, <1>4, <1>5 DEF IInv

\* A step that changes nothing.
LEMMA Stutters ==
  ASSUME IInv, UNCHANGED vars
  PROVE  IInv'
  <1>1. l1' = l1 /\ l2' = l2 /\ gmem' = gmem /\ wait' = wait /\ phase' = phase /\ seen' = seen
    BY DEF vars
  <1> QED
    BY <1>1 DEF IInv, Handshake, WaitInv, AnswerInv, MemLine, PhaseInv, BoundaryEmpty

\* The inductive invariant holds in every reachable state.
THEOREM Invariance == Spec => []IInv
  <1>1. Init => IInv
    BY InitInv
  <1>2. IInv /\ [Next]_vars => IInv'
    BY RunInv, EndKernelInv, FlushInv, HostWriteInv, LaunchInv, Stutters DEF Next
  <1> QED
    BY <1>1, <1>2, PTL DEF Spec

\* Every cache, the memory and the flush bookkeeping of gpu_top stay well formed.
THEOREM MemTypes == Spec => []TypeOK
  <1>1. IInv => TypeOK
    BY DEF IInv, L2Inv, TypeOK
  <1> QED
    BY <1>1, Invariance, PTL

\* The request l2_cache serves is the one its l1_dcache still holds, and its
\* acknowledge finds that l1_dcache waiting, for any number of units and sets.
THEOREM HandshakeHolds == Spec => []Handshake
  <1>1. IInv => Handshake
    BY DEF IInv
  <1> QED
    BY <1>1, Invariance, PTL

\* A line that l2_cache calls clean is the line in memory, so dropping it (a miss
\* or the flush) loses nothing.
THEOREM CleanIsMemoryHolds == Spec => []CleanIsMemory
  <1>1. IInv => CleanIsMemory
    BY DEF IInv, CleanInv, CleanIsMemory
  <1> QED
    BY <1>1, Invariance, PTL

\* When gpu_top reports the grid over, every l1_dcache is in its reset state and
\* the l2_cache holds nothing.
THEOREM BoundaryEmptyHolds == Spec => []BoundaryEmpty
  <1>1. IInv => BoundaryEmpty
    BY DEF IInv
  <1> QED
    BY <1>1, Invariance, PTL

\* GlobalMemory computes with the same words.
LEMMA SameWords ==
  ASSUME NEW q, NEW line
  PROVE  /\ Global!Performed(q, line) = Performed(q, line)
         /\ Global!AnswerTo(q, line) = AnswerTo(q, line)
  <1>1. Global!Merge(line, q.data, q.strb) = Merge(line, q.data, q.strb)
    BY DEF Global!Merge, Merge, Global!Offsets, Offsets
  <1>2. \A v : Global!AtomicResult(q, v) = AtomicResult(q, v)
    BY DEF Global!AtomicResult, AtomicResult, Global!Signed, Signed
  <1>3. Global!Performed(q, line) = Performed(q, line)
    BY <1>1, <1>2, Zenon DEF Global!Performed, Performed
  <1>4. Global!AnswerTo(q, line) = AnswerTo(q, line)
    BY DEF Global!AnswerTo, AnswerTo
  <1> QED
    BY <1>3, <1>4

\* GlobalMemory is about the same memory.
LEMMA SameSets ==
  Global!Lines = Lines /\ Global!Offsets = Offsets /\ Global!Word = Word /\ Global!Memory = Memory
  BY DEF Global!Lines, Lines, Global!Offsets, Offsets, Global!Word, Word,
         Global!Memory, Memory, Global!LineData, LineData

\* What a unit has under way, by its cache and the L2's answer.
OpOf(c, port, me, ans) ==
  IF c.q = NoReq /\ c.resp = NoAnswer THEN [st |-> "none"]
  ELSE IF c.resp # NoAnswer THEN [st |-> "told", ans |-> c.resp]
  ELSE IF port = me THEN [st |-> "told", ans |-> ans]
  ELSE [st |-> "asked", req |-> c.q]

\* The refinement mapping by the caches.
LEMMA Seen ==
  ASSUME NEW c \in CUs, NEW l \in Lines
  PROVE  /\ MemLine(l) = LineIn(l2, gmem, l)
         /\ MemLine(l)' = LineIn(l2', gmem', l)
         /\ \A w \in Offsets : ViewLine(c, l)[w] = ViewWord(l1[c], l2.ack, c, l, MemLine(l), w)
         /\ \A w \in Offsets : ViewLine(c, l)'[w] = ViewWord(l1'[c], l2'.ack, c, l, MemLine(l)', w)
         /\ DOMAIN ViewLine(c, l)' = Offsets /\ ViewLine(c, l)' = [w \in Offsets |-> ViewLine(c, l)'[w]]
  <1>1. MemLine(l) = LineIn(l2, gmem, l) /\ MemLine(l)' = LineIn(l2', gmem', l)
    BY DEF MemLine, LineIn
  <1>2. \A w \in Offsets : ViewLine(c, l)[w] = ViewWord(l1[c], l2.ack, c, l, MemLine(l), w)
    BY DEF ViewLine, ViewWord, Unperformed, Pending
  <1>3. \A w \in Offsets : ViewLine(c, l)'[w] = ViewWord(l1'[c], l2'.ack, c, l, MemLine(l)', w)
    BY DEF ViewLine, ViewWord, Unperformed, Pending
  <1>4. DOMAIN ViewLine(c, l)' = Offsets /\ ViewLine(c, l)' = [w \in Offsets |-> ViewLine(c, l)'[w]]
    BY DEF ViewLine
  <1> QED
    BY <1>1, <1>2, <1>3, <1>4

\* A unit waits just when its cache has its request or its answer.
LEMMA OpSeen ==
  ASSUME WaitInv, NEW c \in CUs
  PROVE  Op(c) = OpOf(l1[c], l2.ack, c, l2.out)
  BY DEF WaitInv, Op, OpOf

\* What an acknowledge of the L2 comes from.
LEMMA AckedNext ==
  ASSUME IInv, NEW req, NEW kind, Given(req, kind), NEW c \in CUs
  PROVE  /\ l2'.ack = c => Performs(l2) /\ l2.port = c
         /\ Performs(l2) /\ l2.port = c =>
              /\ l2'.ack = c /\ l2.ack # c /\ l1[c].st \in L1Wait /\ l1[c].q = l2.q /\ l2.q \in Request
              /\ l2'.out = AnswerTo(l2.q, MemLine(l2.q.line))
              /\ l1'[c].st = l1[c].st /\ l1'[c].q = l1[c].q /\ l1'[c].lines = l1[c].lines
              /\ l1'[c].resp = NoAnswer
  <1>1. /\ l2 \in L2Type /\ L2Inv(l2) /\ CleanInv(l2, gmem) /\ gmem \in Memory
        /\ l2' = L2After(l2, Raised, [d \in CUs |-> l1[d].q], kind, gmem)
        /\ Raised \in SUBSET Ports /\ l2.st \in {"IDLE"} \cup L2Busy \cup L2Walks
        /\ l2.ack # NoPort => l2.st = "IDLE"
    BY L2Facts DEF Given, Clocked, CUs
  <1>2. c # NoPort
    BY L2Assumption DEF CUs, Ports, NoPort
  <1>3. CASE Performs(l2)
    <2>1. l2'.ack = l2.port /\ l2'.out = AnswerTo(l2.q, l2.lines[L2Set(l2)].data)
      BY <1>1, <1>3, L2Performs
    <2>2. LineIn(l2, gmem, l2.q.line) = l2.lines[L2Set(l2)].data /\ l2.q.line \in Lines /\ l2.q \in Request
      <3>1. 0 \in Lines
        BY MemoryAssumption DEF Lines
      <3> QED
        BY <1>1, <1>3, <3>1, MemPerformed
    <2>3. MemLine(l2.q.line) = LineIn(l2, gmem, l2.q.line)
      BY <2>2 DEF MemLine, LineIn
    <2>4. l2.st \in L2Busy /\ l2.st # "IDLE"
      BY <1>3 DEF Performs, L2Busy
    <2>5. l2.port = c => l1[c].st \in L1Wait /\ l1[c].q = l2.q /\ l2.ack # c
      BY <1>1, <1>2, <2>4, L2Facts
    <2>6. l2.port = c =>
            /\ l1'[c].st = l1[c].st /\ l1'[c].q = l1[c].q /\ l1'[c].lines = l1[c].lines
            /\ l1'[c].resp = NoAnswer
      <3>1. l1[c] \in L1Type /\ l1'[c] = L1After(l1[c], req[c], kind, l2.ack, c, l2.out)
        BY UnitClock, UnitFacts
      <3> QED
        BY <2>5, <3>1, L1Holds
    <2> QED
      BY <1>3, <2>1, <2>2, <2>3, <2>5, <2>6
  <1>4. CASE ~Performs(l2)
    <2>1. CASE l2.st = "IDLE"
      BY <1>1, <1>2, <1>4, <2>1, L2Idles
    <2>2. CASE l2.st \in L2Busy
      BY <1>1, <1>2, <1>4, <2>2, L2Works
    <2>3. CASE l2.st \in L2Walks
      <3>1. l2.st = "FLUSH_WB" => l2.walk < L2Sets
        BY <1>1 DEF L2Inv, L2Flush
      <3>2. l2'.ack = NoPort
        BY <1>1, <2>3, <3>1, L2Drops
      <3> QED
        BY <1>2, <1>4, <3>2
    <2> QED
      BY <1>1, <2>1, <2>2, <2>3
  <1> QED
    BY <1>3, <1>4

\* What a clock does to the memory: the request performed, if any.
LEMMA MemClock ==
  ASSUME IInv, NEW req, NEW kind, Given(req, kind), NEW l \in Lines
  PROVE  /\ Performs(l2) /\ l = l2.q.line => MemLine(l)' = Performed(l2.q, MemLine(l))
         /\ ~(Performs(l2) /\ l = l2.q.line) => MemLine(l)' = MemLine(l)
         /\ gmem'[l] \in {gmem[l], MemLine(l)'}
         /\ MemLine(l) \in LineData
  <1>1. /\ L2Inv(l2) /\ CleanInv(l2, gmem) /\ gmem \in Memory /\ Raised \in SUBSET Ports
        /\ l2' = L2After(l2, Raised, [d \in CUs |-> l1[d].q], kind, gmem) /\ gmem' = Written(l2, gmem)
    BY L2Facts DEF Given, Clocked, CUs
  <1>2. MemLine(l) = LineIn(l2, gmem, l) /\ MemLine(l)' = LineIn(l2', gmem', l)
    BY DEF MemLine, LineIn
  <1>3. gmem'[l] \in {gmem[l], MemLine(l)'}
    BY <1>1, <1>2, HostKept
  <1>4. MemLine(l) \in LineData
    BY <1>1, <1>2, LineInType
  <1>5. CASE Performs(l2)
    <2>1. /\ gmem' = gmem
          /\ l = l2.q.line => LineIn(l2', gmem, l) = Performed(l2.q, LineIn(l2, gmem, l))
          /\ l # l2.q.line => LineIn(l2', gmem, l) = LineIn(l2, gmem, l)
      BY <1>1, <1>5, MemPerformed
    <2> QED
      BY <1>2, <1>3, <1>4, <1>5, <2>1
  <1>6. CASE ~Performs(l2)
    <2>1. LineIn(l2', gmem', l) = LineIn(l2, gmem, l)
      BY <1>1, <1>6, MemKept
    <2> QED
      BY <1>2, <1>3, <1>4, <1>6, <2>1
  <1> QED
    BY <1>5, <1>6

\* A clock leaves each word of each view, and of the array, or brings it up to date.
LEMMA ClockRefreshes ==
  ASSUME IInv, NEW req, NEW kind, Given(req, kind)
  PROVE  Global!Refresh
  <1>1. ASSUME NEW c \in CUs, NEW l \in Lines, NEW w \in Offsets
        PROVE  ViewLine(c, l)'[w] \in {ViewLine(c, l)[w], MemLine(l)'[w]}
    <2>1. /\ L1Inv(l1[c]) /\ L1Inv(l1'[c])
          /\ l1'[c] = L1After(l1[c], req[c], kind, l2.ack, c, l2.out)
      BY UnitClock, UnitFacts
    <2>2. l1[c].st = "FILL" /\ l2.ack = c /\ l1[c].q.line = l => l2.out.data = MemLine(l)
      <3>1. c # NoPort
        BY L2Assumption DEF CUs, Ports, NoPort
      <3> QED
        BY <3>1 DEF IInv, AnswerInv
    <2>3. l2'.ack = c => l1[c].st \in L1Wait /\ l2.ack # c
      BY AckedNext
    <2>4. l2'.ack = c /\ l1[c].st = "STORE" /\ l1[c].q.line = l =>
            \A x \in l1[c].q.strb : MemLine(l)'[x] = l1[c].q.data[x]
      <3> SUFFICES ASSUME l2'.ack = c, l1[c].st = "STORE", l1[c].q.line = l
                   PROVE  \A x \in l1[c].q.strb : MemLine(l)'[x] = l1[c].q.data[x]
        OBVIOUS
      <3>1. Performs(l2) /\ l1[c].q = l2.q /\ l2.q \in Request
        BY AckedNext
      <3>2. l2.q.op = "ST"
        BY <2>1, <3>1 DEF L1Inv, L1Request
      <3>3. MemLine(l)' = Performed(l2.q, MemLine(l)) /\ MemLine(l) \in LineData
        BY <3>1, MemClock
      <3>4. l2.q.strb \in SUBSET Offsets
        BY <3>1, <3>2, RequestKinds
      <3>5. \A x \in Offsets :
              Performed(l2.q, MemLine(l))[x] = IF x \in l2.q.strb THEN l2.q.data[x] ELSE MemLine(l)[x]
        BY <3>1, <3>2, <3>3, PerformedType
      <3> QED
        BY <3>1, <3>3, <3>4, <3>5
    <2>5. ViewWord(l1'[c], l2'.ack, c, l, MemLine(l)', w)
            \in {ViewWord(l1[c], l2.ack, c, l, MemLine(l), w), MemLine(l)'[w]}
      BY <2>1, <2>2, <2>3, <2>4, ViewRefreshed
    <2> QED
      BY <2>5, Seen
  <1>2. \A l \in Lines : gmem'[l] \in {gmem[l], MemLine(l)'}
    BY MemClock
  <1> QED
    BY <1>1, <1>2, SameSets DEF Global!Refresh

\* A store or an atomic that the L2 performs is the unit's update of the memory.
LEMMA Updates ==
  ASSUME IInv, NEW req, NEW kind, Given(req, kind), IInv', NEW c \in CUs,
         Performs(l2), l2.port = c, l2.q.op \in {"ST", "ATOM"}
  PROVE  Global!Update(c)
  <1>1. PICK r : r = l2.q
    OBVIOUS
  <1>2. /\ l2'.ack = c /\ l2.ack # c /\ l1[c].st \in L1Wait /\ l1[c].q = r /\ r \in Request
        /\ l2'.out = AnswerTo(r, MemLine(r.line))
        /\ l1'[c].st = l1[c].st /\ l1'[c].q = r /\ l1'[c].lines = l1[c].lines
        /\ l1'[c].resp = NoAnswer
    BY <1>1, AckedNext
  <1>3. /\ r.line \in Lines /\ r # NoReq /\ (r.op = "ST" => r.strb \in SUBSET Offsets)
    BY <1>2, RequestKinds
  <1>4. l1[c].resp = NoAnswer /\ L1Inv(l1[c]) /\ L1Inv(l1'[c])
    BY <1>2, UnitClock, UnitFacts DEF L1Wait
  <1>5. WaitInv /\ WaitInv'
    BY DEF IInv
  <1>6. Op(c) = [st |-> "asked", req |-> r]
    <2>1. Op(c) = OpOf(l1[c], l2.ack, c, l2.out)
      BY <1>5, OpSeen
    <2> QED
      BY <1>2, <1>3, <1>4, <2>1 DEF OpOf
  <1>7. Op(c)' = [st |-> "told", ans |-> AnswerTo(r, MemLine(r.line))]
    BY <1>2, <1>3, <1>5 DEF WaitInv, Op
  <1>8. \A l \in Lines : MemLine(l)' = IF l = r.line THEN Performed(r, MemLine(l)) ELSE MemLine(l)
    BY <1>1, MemClock
  <1>9. \A w \in Offsets : (r.op = "ST" => w \in r.strb) => ViewLine(c, r.line)'[w] = MemLine(r.line)'[w]
    <2> SUFFICES ASSUME NEW w \in Offsets, r.op = "ST" => w \in r.strb
                 PROVE  ViewLine(c, r.line)'[w] = MemLine(r.line)'[w]
      OBVIOUS
    <2>1. ViewLine(c, r.line)'[w] = ViewWord(l1'[c], l2'.ack, c, r.line, MemLine(r.line)', w)
      BY <1>3, Seen
    <2>2. CASE L1Entry(l1'[c]).line # r.line
      BY <1>2, <2>1, <2>2 DEF ViewWord, L1Entry
    <2>3. CASE L1Entry(l1'[c]).line = r.line
      <3>1. l1'[c].st = "STORE" /\ r.op = "ST"
        BY <1>1, <1>2, <1>4, <2>3 DEF L1Inv, L1Copies, L1Request, L1Wait
      <3>2. L1Entry(l1'[c]).data[w] = r.data[w]
        BY <1>2, <1>4, <2>3, <3>1 DEF L1Inv, L1Copies
      <3>3. MemLine(r.line)' = Performed(r, MemLine(r.line)) /\ MemLine(r.line) \in LineData
        BY <1>3, <1>8, MemClock
      <3>4. Performed(r, MemLine(r.line))[w] = IF w \in r.strb THEN r.data[w] ELSE MemLine(r.line)[w]
        BY <1>2, <3>1, <3>3, PerformedType
      <3>5. w \notin Pending(l1'[c], l2'.ack, c, r.line)
        BY <1>2 DEF Pending
      <3> QED
        BY <1>2, <2>1, <2>3, <3>1, <3>2, <3>3, <3>4, <3>5 DEF ViewWord, L1Entry
    <2> QED
      BY <2>2, <2>3
  <1> QED
    BY <1>1, <1>3, <1>6, <1>7, <1>8, <1>9, SameWords, SameSets DEF Global!Update, Global!Told

\* What a unit that performs nothing on the memory does in a clock of the kernel:
\* it asks, reads its view, takes its answer, or waits.
LEMMA UnitActs ==
  ASSUME IInv, NEW req, Given(req, "run"), IInv', NEW c \in CUs,
         req[c] \in Requests[c] \cup {NoReq},
         ~(Performs(l2) /\ l2.port = c /\ l2.q.op \in {"ST", "ATOM"})
  PROVE  Global!Ask(c) \/ Global!Read(c) \/ Global!Take(c) \/ Op(c)' = Op(c)
  <1>1. /\ l1[c] \in L1Type /\ L1Inv(l1[c]) /\ L1Inv(l1'[c])
        /\ l1'[c] = L1After(l1[c], req[c], "run", l2.ack, c, l2.out)
        /\ l1[c].q \in Request \cup {NoReq}
        /\ l1[c].q = NoReq <=> l1[c].st \in {"IDLE", "FLUSH"}
        /\ l1[c].st \in {"IDLE", "LOOKUP", "FLUSH"} \cup L1Wait
        /\ l1[c].resp # NoAnswer => l1[c].st = "IDLE"
        /\ c \in wait <=> (l1[c].q # NoReq \/ l1[c].resp # NoAnswer)
        /\ c \in wait' <=> (l1'[c].q # NoReq \/ l1'[c].resp # NoAnswer)
        /\ l2.ack = c => l1[c].st \in L1Wait /\ Matches(l2.out, l1[c].q)
    BY UnitClock, UnitFacts
  <1>2. c \in wait => req[c] = NoReq
    BY DEF Given
  <1>3. l1[c].st \notin L1Wait => l2'.ack # c
    BY AckedNext
  <1>4. CASE l1[c].st = "IDLE"
    <2>1. /\ l1'[c].resp = NoAnswer /\ l1[c].q = NoReq
          /\ req[c] = NoReq => l1'[c].q = NoReq
          /\ req[c] # NoReq => l1'[c].q = req[c]
      BY <1>1, <1>4, L1Idles
    <2>2. CASE c \in wait
      <3>1. Op(c) = [st |-> "told", ans |-> l1[c].resp]
        BY <1>1, <2>1, <2>2 DEF Op
      <3>2. Op(c)' = [st |-> "none"]
        BY <1>1, <1>2, <2>1, <2>2 DEF Op
      <3> QED
        BY <3>1, <3>2 DEF Global!Take, Global!NoOp
    <2>3. CASE c \notin wait
      <3>1. Op(c) = [st |-> "none"]
        BY <2>3 DEF Op
      <3>2. CASE req[c] = NoReq
        <4>1. Op(c)' = [st |-> "none"]
          BY <1>1, <2>1, <3>2 DEF Op
        <4> QED
          BY <3>1, <4>1
      <3>3. CASE req[c] # NoReq
        <4>1. Op(c)' = [st |-> "asked", req |-> req[c]]
          BY <1>1, <1>3, <1>4, <2>1, <3>3 DEF Op, L1Wait
        <4> QED
          BY <3>1, <3>3, <4>1 DEF Global!Ask, Global!NoOp, Global!Asked
      <3> QED
        BY <3>2, <3>3
    <2> QED
      BY <2>2, <2>3
  <1>5. CASE l1[c].st = "LOOKUP"
    <2>1. l1[c].q \in Request /\ l1[c].resp = NoAnswer /\ l2.ack # c /\ l2'.ack # c /\ c \in wait
      BY <1>1, <1>3, <1>5 DEF L1Wait
    <2>2. Op(c) = [st |-> "asked", req |-> l1[c].q]
      BY <2>1 DEF Op
    <2>3. PICK e : e = l1[c].lines[SetOf(l1[c].q.line, L1Sets)]
      OBVIOUS
    <2>4. /\ l1'[c].lines = Touched(l1[c])
          /\ \/ /\ l1'[c].q = l1[c].q /\ l1'[c].resp = NoAnswer
             \/ /\ l1'[c].st = "IDLE" /\ l1'[c].q = NoReq
                /\ l1[c].q.op = "LD" /\ e.line = l1[c].q.line
                /\ l1'[c].resp = AnswerTo(l1[c].q, e.data)
      BY <1>1, <1>5, <2>1, <2>3, L1LooksUp
    <2>5. CASE l1'[c].q = l1[c].q /\ l1'[c].resp = NoAnswer
      <3>1. l1[c].q # NoReq
        BY <2>1, RequestKinds
      <3>2. Op(c)' = [st |-> "asked", req |-> l1[c].q]
        BY <1>1, <2>1, <2>5, <3>1 DEF Op
      <3> QED
        BY <2>2, <3>2
    <2>6. CASE /\ l1'[c].st = "IDLE" /\ l1'[c].q = NoReq
               /\ l1[c].q.op = "LD" /\ e.line = l1[c].q.line
               /\ l1'[c].resp = AnswerTo(l1[c].q, e.data)
      <3>1. PICK r : r = l1[c].q
        OBVIOUS
      <3>2. r.line \in Lines
        BY <2>1, <3>1, RequestKinds
      <3>3. l1'[c].resp = [op |-> "LD", data |-> e.data]
        BY <2>6 DEF AnswerTo
      <3>4. l1'[c].resp # NoAnswer
        BY <3>3 DEF NoAnswer
      <3>5. Op(c)' = [st |-> "told", ans |-> [op |-> "LD", data |-> e.data]]
        BY <1>1, <3>3, <3>4 DEF Op
      <3>6. l1'[c].lines = l1[c].lines
        BY <2>4, <2>6 DEF Touched
      <3>7. e.data \in LineData
        <4>1. l1[c].lines \in [0 .. L1Sets - 1 -> L1Line] /\ SetOf(r.line, L1Sets) \in 0 .. L1Sets - 1
          BY <1>1, <3>2, L1Fields, SetOfType, L1Assumption
        <4>2. e \in L1Line
          BY <2>3, <3>1, <4>1
        <4>3. e # Invalid
          BY <2>6, <3>1, <3>2 DEF Invalid, Lines
        <4> QED
          BY <4>2, <4>3 DEF L1Line
      <3>8. \A w \in Offsets : ViewLine(c, r.line)'[w] = e.data[w]
        <4>1. l1'[c].st # "STORE"
          BY <2>6
        <4> QED
          BY <2>3, <2>6, <3>1, <3>2, <3>6, <4>1, Seen DEF ViewWord, Pending
      <3>9. ViewLine(c, r.line)' = e.data
        <4>1. ViewLine(c, r.line)' = [w \in Offsets |-> ViewLine(c, r.line)'[w]]
          BY <3>2, Seen
        <4> QED
          BY <3>7, <3>8, <4>1 DEF LineData
      <3>10. r.op = "LD" /\ Op(c) = [st |-> "asked", req |-> r]
        BY <2>2, <2>6, <3>1
      <3> QED
        BY <3>2, <3>5, <3>9, <3>10 DEF Global!Read, Global!Told
    <2> QED
      BY <2>4, <2>5, <2>6
  <1>6. CASE l1[c].st \in L1Wait /\ l2.ack = c
    <2>1. /\ l1[c].q # NoReq /\ l1[c].resp = NoAnswer /\ c \in wait
          /\ l2.out # NoAnswer
      BY <1>1, <1>6, AnswerKinds DEF L1Wait, Matches
    <2>2. l1'[c].resp = l2.out
      BY <1>1, <1>6, L1Answers
    <2>3. Op(c) = [st |-> "told", ans |-> l2.out]
      BY <1>6, <2>1 DEF Op
    <2>4. Op(c)' = [st |-> "told", ans |-> l2.out]
      BY <1>1, <2>1, <2>2 DEF Op
    <2> QED
      BY <2>3, <2>4
  <1>7. CASE l1[c].st \in L1Wait /\ l2.ack # c
    <2>1. /\ l1'[c].st = l1[c].st /\ l1'[c].q = l1[c].q /\ l1'[c].lines = l1[c].lines /\ l1'[c].resp = NoAnswer
      BY <1>1, <1>7, L1Holds
    <2>2. l1[c].q # NoReq /\ l1[c].resp = NoAnswer /\ c \in wait /\ c \in wait'
      BY <1>1, <1>7, <2>1 DEF L1Wait
    <2>3. Op(c) = [st |-> "asked", req |-> l1[c].q]
      BY <1>7, <2>2 DEF Op
    <2>4. CASE l2'.ack # c
      BY <2>1, <2>2, <2>3, <2>4 DEF Op
    <2>5. CASE l2'.ack = c
      <3>1. PICK r : r = l1[c].q
        OBVIOUS
      <3>2. /\ Performs(l2) /\ l2.port = c /\ r = l2.q /\ r \in Request
            /\ l2'.out = AnswerTo(r, MemLine(r.line))
        BY <2>5, <3>1, AckedNext
      <3>3. r.line \in Lines /\ r.op = "LD"
        BY <3>2, RequestKinds
      <3>4. l1[c].st = "FILL"
        BY <1>1, <1>7, <3>1, <3>3 DEF L1Inv, L1Request, L1Wait
      <3>5. MemLine(r.line) \in LineData /\ MemLine(r.line)' = MemLine(r.line)
        BY <3>2, <3>3, MemClock, PerformedType
      <3>6. Op(c)' = [st |-> "told", ans |-> [op |-> "LD", data |-> MemLine(r.line)]]
        <4>1. l2'.out = [op |-> "LD", data |-> MemLine(r.line)]
          BY <3>2, <3>3 DEF AnswerTo
        <4> QED
          BY <2>1, <2>2, <2>5, <4>1 DEF Op
      <3>7. L1Entry(l1[c]).line # r.line
        BY <1>1, <3>1, <3>4 DEF L1Inv, L1Copies
      <3>8. \A w \in Offsets : ViewLine(c, r.line)'[w] = MemLine(r.line)[w]
        BY <2>1, <3>1, <3>3, <3>5, <3>7, Seen DEF ViewWord, L1Entry
      <3>9. ViewLine(c, r.line)' = MemLine(r.line)
        <4>1. ViewLine(c, r.line)' = [w \in Offsets |-> ViewLine(c, r.line)'[w]]
          BY <3>3, Seen
        <4> QED
          BY <3>5, <3>8, <4>1 DEF LineData
      <3>10. Op(c) = [st |-> "asked", req |-> r]
        BY <2>3, <3>1
      <3> QED
        BY <3>3, <3>6, <3>9, <3>10 DEF Global!Read, Global!Told
    <2> QED
      BY <2>4, <2>5
  <1>8. CASE l1[c].st = "FLUSH"
    <2>1. l1[c].q = NoReq /\ l1[c].resp = NoAnswer /\ c \notin wait
      BY <1>1, <1>8
    <2>2. l1'[c].q = NoReq /\ l1'[c].resp = NoAnswer
      BY <1>1, <1>8, <2>1, L1Walks
    <2>3. Op(c) = [st |-> "none"] /\ Op(c)' = [st |-> "none"]
      BY <1>1, <2>1, <2>2 DEF Op
    <2> QED
      BY <2>3
  <1> QED
    BY <1>1, <1>4, <1>5, <1>6, <1>7, <1>8 DEF L1Wait

\* Run is a step of GlobalMemory's kernel.
LEMMA RunImplements ==
  ASSUME IInv, IInv', Run
  PROVE  Global!Kernel
  <1>1. PICK req \in [CUs -> UNION {Requests[c] : c \in CUs} \cup {NoReq}] :
          /\ \A c \in CUs : req[c] \in {NoReq} \cup (IF c \in wait THEN {} ELSE Requests[c])
          /\ Clock(req, FALSE)
    BY Zenon DEF Run
  <1>2. Given(req, "run")
    <2>1. \A c \in CUs : Requests[c] \subseteq Request
      BY RequestsAssumption
    <2>2. \A c \in CUs : l1[c].st # "FLUSH"
      BY DEF Run, IInv, PhaseInv
    <2>3. \A c \in CUs : req[c] \in Request \cup {NoReq} /\ (c \in wait => req[c] = NoReq)
      BY <1>1, <2>1
    <2>4. Clocked(req, "run")
      BY <1>1, ClockRuns
    <2> QED
      BY <2>2, <2>3, <2>4 DEF Given
  <1>3. phase = "kernel" /\ phase' = "kernel"
    BY DEF Run
  <1>4. Global!Refresh
    BY <1>2, ClockRefreshes
  <1>5. \A c \in CUs : req[c] \in Requests[c] \cup {NoReq}
    BY <1>1
  <1>6. CASE Performs(l2) /\ l2.q.op \in {"ST", "ATOM"}
    <2>1. l2.port \in CUs
      BY L2Facts
    <2>2. Global!Update(l2.port)
      BY <1>2, <1>6, <2>1, Updates
    <2>3. \A c \in CUs \ {l2.port} : Global!Ask(c) \/ Global!Read(c) \/ Global!Take(c) \/ Op(c)' = Op(c)
      BY <1>2, <1>5, UnitActs
    <2> QED
      BY <1>3, <1>4, <2>1, <2>2, <2>3 DEF Global!Kernel
  <1>7. CASE ~(Performs(l2) /\ l2.q.op \in {"ST", "ATOM"})
    <2>1. \A c \in CUs : Global!Ask(c) \/ Global!Read(c) \/ Global!Take(c) \/ Op(c)' = Op(c)
      BY <1>2, <1>5, <1>7, UnitActs
    <2>2. \A l \in Lines : MemLine(l)' = MemLine(l)
      <3> SUFFICES ASSUME NEW l \in Lines
                   PROVE  MemLine(l)' = MemLine(l)
        OBVIOUS
      <3>1. CASE Performs(l2) /\ l = l2.q.line
        <4>1. l2.q \in Request
          BY <3>1, L2Facts DEF Performs, L2Busy
        <4>2. l2.q.op = "LD"
          BY <1>7, <3>1, <4>1, RequestKinds
        <4> QED
          BY <1>2, <3>1, <4>1, <4>2, MemClock, PerformedType
      <3>2. CASE ~(Performs(l2) /\ l = l2.q.line)
        BY <1>2, <3>2, MemClock
      <3> QED
        BY <3>1, <3>2
    <2> QED
      BY <1>3, <1>4, <2>1, <2>2 DEF Global!Kernel
  <1> QED
    BY <1>6, <1>7

\* A clock with no unit waiting changes no word of the memory and nobody's operation.
LEMMA QuietClock ==
  ASSUME IInv, NEW kind, wait = {}, Given(Quiet, kind), wait' = {}
  PROVE  /\ Global!Refresh
         /\ \A l \in Lines : MemLine(l)' = MemLine(l)
         /\ \A c \in CUs : Op(c) = [st |-> "none"] /\ Op(c)' = [st |-> "none"]
  <1>1. l2.st \in {"IDLE"} \cup L2Walks
    BY Quiescent
  <1>2. ~Performs(l2)
    BY <1>1 DEF Performs, L2Walks
  <1>3. \A c \in CUs : Op(c) = [st |-> "none"] /\ Op(c)' = [st |-> "none"]
    BY DEF Op
  <1> QED
    BY <1>2, <1>3, ClockRefreshes, MemClock

\* The flush pulse is a step of GlobalMemory.
LEMMA EndKernelImplements ==
  ASSUME IInv, EndKernel
  PROVE  Global!EndKernel
  <1>1. phase = "kernel" /\ wait = {} /\ phase' = "flush" /\ Clocked(Quiet, "flush")
    BY ClockFlushes DEF EndKernel
  <1>2. Given(Quiet, "flush") /\ wait' = {}
    BY <1>1, QuietGiven
  <1>3. /\ Global!Refresh
        /\ \A l \in Lines : MemLine(l)' = MemLine(l)
        /\ \A c \in CUs : Op(c) = [st |-> "none"] /\ Op(c)' = [st |-> "none"]
    BY <1>1, <1>2, QuietClock
  <1> QED
    BY <1>1, <1>3 DEF Global!EndKernel, Global!NoOp

\* An empty cache shows the memory behind it.
LEMMA EmptyShows ==
  ASSUME NEW c, NEW m, \A s \in 0 .. L2Sets - 1 : c.lines[s] = Empty, NEW l \in Lines
  PROVE  LineIn(c, m, l) = m[l]
  <1>1. SetOf(l, L2Sets) \in 0 .. L2Sets - 1
    BY SetOfType, L2Assumption
  <1>2. Empty.line # l
    BY DEF Empty, Lines
  <1> QED
    BY <1>1, <1>2 DEF LineIn

\* So does an L1 just reset.
LEMMA ResetShows ==
  ASSUME NEW port, NEW me, NEW l \in Lines, NEW data, NEW w
  PROVE  ViewWord(L1Init, port, me, l, data, w) = data[w]
  <1>1. SetOf(l, L1Sets) \in 0 .. L1Sets - 1
    BY SetOfType, L1Assumption
  <1>2. Invalid.line # l
    BY DEF Invalid, Lines
  <1> QED
    BY <1>1, <1>2 DEF ViewWord, L1Init

\* The flush is GlobalMemory's boundary, at whose end all views agree.
LEMMA FlushImplements ==
  ASSUME IInv, IInv', Flush
  PROVE  Global!Boundary
  <1>1. /\ phase = "flush" /\ phase' \in {"flush", "idle"} /\ wait = {} /\ Clocked(Quiet, "run")
    BY ClockRuns DEF Flush, IInv, PhaseInv
  <1>2. Given(Quiet, "run") /\ wait' = {}
    BY <1>1, QuietGiven
  <1>3. /\ Global!Refresh
        /\ \A l \in Lines : MemLine(l)' = MemLine(l)
        /\ \A c \in CUs : Op(c) = [st |-> "none"] /\ Op(c)' = [st |-> "none"]
    BY <1>1, <1>2, QuietClock
  <1>4. ASSUME phase' = "idle"
        PROVE  \A l \in Lines : MemLine(l)' = gmem'[l] /\ \A c \in CUs : ViewLine(c, l)' = gmem'[l]
    <2> SUFFICES ASSUME NEW l \in Lines, NEW c \in CUs
                 PROVE  MemLine(l)' = gmem'[l] /\ ViewLine(c, l)' = gmem'[l]
      <3>1. l2.port \in CUs
        BY L2Facts
      <3> QED
        BY <3>1
    <2>1. l1'[c] = L1Init /\ (\A s \in 0 .. L2Sets - 1 : l2'.lines[s] = Empty) /\ gmem' \in Memory
      BY <1>4 DEF IInv, BoundaryEmpty
    <2>2. MemLine(l)' = gmem'[l]
      <3>1. LineIn(l2', gmem', l) = gmem'[l]
        BY <2>1, EmptyShows
      <3> QED
        BY <3>1 DEF MemLine, LineIn
    <2>3. \A w \in Offsets : ViewLine(c, l)'[w] = gmem'[l][w]
      BY <2>1, <2>2, ResetShows, Seen
    <2>4. ViewLine(c, l)' = [w \in Offsets |-> ViewLine(c, l)'[w]]
      BY Seen
    <2> QED
      BY <2>1, <2>2, <2>3, <2>4 DEF Memory, LineData
  <1>5. gmem' = [l \in Lines |-> gmem'[l]]
    BY DEF IInv, Memory
  <1> QED
    BY <1>1, <1>3, <1>4, <1>5 DEF Global!Boundary

\* What the host writes between grids, every unit will see.
LEMMA HostWriteImplements ==
  ASSUME IInv, IInv', HostWrite
  PROVE  Global!HostWrite
  <1>1. /\ phase = "idle" /\ l1' = l1 /\ l2' = l2 /\ wait' = wait /\ phase' = phase
    BY DEF HostWrite
  <1>2. PICK l \in Lines, w \in Offsets, v \in Word : gmem' = [gmem EXCEPT ![l][w] = v]
    BY DEF HostWrite
  <1>3. gmem \in Memory /\ gmem' \in Memory
    BY DEF IInv
  <1>4. \A c \in CUs : Op(c)' = Op(c)
    BY <1>1 DEF Op
  <1>5. \A k \in Lines : /\ MemLine(k) = gmem[k] /\ MemLine(k)' = gmem'[k]
                         /\ \A c \in CUs : ViewLine(c, k)' = gmem'[k]
    <2> SUFFICES ASSUME NEW k \in Lines, NEW c \in CUs
                 PROVE  /\ MemLine(k) = gmem[k] /\ MemLine(k)' = gmem'[k]
                        /\ ViewLine(c, k)' = gmem'[k]
      <3>1. l2.port \in CUs
        BY L2Facts
      <3> QED
        BY <3>1
    <2>1. l1'[c] = L1Init /\ (\A s \in 0 .. L2Sets - 1 : l2'.lines[s] = Empty /\ l2.lines[s] = Empty)
      BY <1>1 DEF IInv, BoundaryEmpty
    <2>2. MemLine(k) = gmem[k] /\ MemLine(k)' = gmem'[k]
      <3>1. LineIn(l2, gmem, k) = gmem[k] /\ LineIn(l2', gmem', k) = gmem'[k]
        BY <2>1, EmptyShows
      <3> QED
        BY <3>1 DEF MemLine, LineIn
    <2>3. \A x \in Offsets : ViewLine(c, k)'[x] = gmem'[k][x]
      BY <2>1, <2>2, ResetShows, Seen
    <2>4. ViewLine(c, k)' = [x \in Offsets |-> ViewLine(c, k)'[x]]
      BY Seen
    <2> QED
      BY <1>3, <2>2, <2>3, <2>4 DEF Memory, LineData
  <1>6. gmem' = [gmem EXCEPT ![l] = [gmem[l] EXCEPT ![w] = v]]
    BY <1>2
  <1>7. gmem = [k \in Lines |-> gmem[k]] /\ gmem' = [k \in Lines |-> gmem'[k]]
    BY <1>3 DEF Memory
  <1>8. [k \in Lines |-> MemLine(k)] = gmem /\ [k \in Lines |-> MemLine(k)'] = gmem'
    BY <1>5, <1>7
  <1>9. \A c \in CUs : [k \in Lines |-> ViewLine(c, k)'] = gmem'
    BY <1>5, <1>7
  <1>10. [k \in Lines |-> MemLine(k)] = gmem /\ [k \in Lines |-> MemLine(k)]' = gmem'
    BY <1>8
  <1>11. [c \in CUs |-> [k \in Lines |-> ViewLine(c, k)]]' = [c \in CUs |-> gmem']
    BY <1>9
  <1>12. [c \in CUs |-> Op(c)]' = [c \in CUs |-> Op(c)]
    BY <1>4
  <1> DEFINE mem == [k \in Lines |-> MemLine(k)]
  <1>13. \E a \in Lines, b \in Offsets, x \in Word :
            mem' = [mem EXCEPT ![a] = [mem[a] EXCEPT ![b] = x]]
    <2>1. \E a \in Lines, b \in Offsets, x \in Word : gmem' = [gmem EXCEPT ![a] = [gmem[a] EXCEPT ![b] = x]]
      BY <1>6
    <2>2. mem = gmem /\ mem' = gmem'
      BY <1>10
    <2> HIDE DEF mem
    <2> QED
      BY <2>1, <2>2
  <1>14. UNCHANGED << [c \in CUs |-> Op(c)], phase >>
    BY <1>1, <1>12
  <1>15. \E a \in Global!Lines, b \in Global!Offsets, x \in Global!Word :
            mem' = [mem EXCEPT ![a] = [mem[a] EXCEPT ![b] = x]]
    <2> HIDE DEF mem
    <2> QED
      BY <1>13, SameSets
  <1>16. gmem' = mem'
    BY <1>10
  <1>17. [c \in CUs |-> [k \in Lines |-> ViewLine(c, k)]]' = [c \in CUs |-> mem']
    BY <1>11, <1>16
  <1> QED
    BY <1>1, <1>14, <1>15, <1>16, <1>17, Zenon DEF Global!HostWrite

\* A launch changes no view.
LEMMA LaunchImplements ==
  ASSUME Launch
  PROVE  Global!Launch
  <1>1. phase = "idle" /\ phase' = "kernel" /\ l1' = l1 /\ l2' = l2 /\ wait' = wait /\ gmem' = gmem
    BY DEF Launch
  <1>2. /\ \A l \in Lines : MemLine(l)' = MemLine(l)
        /\ \A c \in CUs : Op(c)' = Op(c) /\ \A l \in Lines : ViewLine(c, l)' = ViewLine(c, l)
    BY <1>1 DEF MemLine, Op, ViewLine, Unperformed
  <1> QED
    BY <1>1, <1>2 DEF Global!Launch

\* A step that changes nothing changes nothing that GlobalMemory sees.
LEMMA StutterImplements ==
  ASSUME UNCHANGED vars
  PROVE  UNCHANGED Global!vars
  <1>1. l1' = l1 /\ l2' = l2 /\ gmem' = gmem /\ wait' = wait /\ phase' = phase
    BY DEF vars
  <1>2. /\ \A l \in Lines : MemLine(l)' = MemLine(l)
        /\ \A c \in CUs : Op(c)' = Op(c) /\ \A l \in Lines : ViewLine(c, l)' = ViewLine(c, l)
    BY <1>1 DEF MemLine, Op, ViewLine, Unperformed
  <1> QED
    BY <1>1, <1>2 DEF Global!vars

\* At reset all views are the memory.
LEMMA InitImplements ==
  ASSUME Init
  PROVE  Global!Init
  <1>1. /\ l1 = [c \in CUs |-> L1Init] /\ l2 = L2Init /\ wait = {} /\ phase = "idle"
    BY DEF Init
  <1>2. gmem \in Memory
    BY InitInv DEF IInv
  <1>3. \A s \in 0 .. L2Sets - 1 : l2.lines[s] = Empty
    BY <1>1 DEF L2Init
  <1>4. \A k \in Lines : MemLine(k) = gmem[k]
    BY <1>3, EmptyShows DEF MemLine, LineIn
  <1>5. \A k \in Lines, c \in CUs : ViewLine(c, k) = gmem[k]
    <2> SUFFICES ASSUME NEW k \in Lines, NEW c \in CUs
                 PROVE  ViewLine(c, k) = gmem[k]
      OBVIOUS
    <2>1. l1[c] = L1Init
      BY <1>1
    <2>2. \A x \in Offsets : ViewLine(c, k)[x] = gmem[k][x]
      BY <1>4, <2>1, ResetShows, Seen
    <2>3. ViewLine(c, k) = [x \in Offsets |-> ViewLine(c, k)[x]]
      BY DEF ViewLine
    <2> QED
      BY <1>2, <2>2, <2>3 DEF Memory, LineData
  <1>6. \A c \in CUs : Op(c) = [st |-> "none"]
    BY <1>1 DEF Op
  <1>7. gmem = [k \in Lines |-> gmem[k]]
    BY <1>2 DEF Memory
  <1>8. [k \in Lines |-> MemLine(k)] = gmem /\ \A c \in CUs : [k \in Lines |-> ViewLine(c, k)] = gmem
    BY <1>4, <1>5, <1>7
  <1> QED
    BY <1>1, <1>2, <1>6, <1>8, SameSets DEF Global!Init, Global!NoOp

\* The caches of gpu_top implement one memory: no store is lost, each atomic acts
\* once, a unit reads its own stores, and at grid_done the host and the next kernel see
\* everything; for any number of units, sets, lines and words and any requests.
THEOREM MemoryImplemented == Spec => GlobalSpec
  <1>1. Init => Global!Init
    BY InitImplements
  <1>2. IInv /\ IInv' /\ [Next]_vars => [Global!Next]_(Global!vars)
    <2> SUFFICES ASSUME IInv, IInv', [Next]_vars
                 PROVE  [Global!Next]_(Global!vars)
      OBVIOUS
    <2>1. CASE Run
      BY <2>1, RunImplements DEF Global!Next
    <2>2. CASE EndKernel
      BY <2>2, EndKernelImplements DEF Global!Next
    <2>3. CASE Flush
      BY <2>3, FlushImplements DEF Global!Next
    <2>4. CASE HostWrite
      BY <2>4, HostWriteImplements DEF Global!Next
    <2>5. CASE Launch
      BY <2>5, LaunchImplements DEF Global!Next
    <2>6. CASE UNCHANGED vars
      BY <2>6, StutterImplements
    <2> QED
      BY <2>1, <2>2, <2>3, <2>4, <2>5, <2>6 DEF Next
  <1> QED
    BY <1>1, <1>2, Invariance, PTL DEF Spec, GlobalSpec, Global!Spec
============================================================================
