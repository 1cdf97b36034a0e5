----------------------------- MODULE GoldenSession -----------------------------
(***************************************************************************)
(* What a host's calls promise, in terms of the golden model: a program is *)
(* what was assembled, a dispatch runs Iss::run at once, all blocks in     *)
(* order on one memory, and a read returns a word of it.                   *)
(***************************************************************************)
EXTENDS HostDevice

\* The sessions that the golden model can follow: files that the assembler wrote, whole or
\* cut short; programs that end within their words, each in a place of its own; constants,
\* words and blocks that the device has. sirion_run loads no constants from a file, so a
\* program that brings some is run after the host has set its own.
Program == [code : Seq(Int), kconst : Seq(Int), entry : Nat]
Proper(s, k) ==
  LET c == s.calls[k]
      Place(l) == l.off .. l.off + Len(l.prog.code) - 1
  IN  /\ c.op = "load" =>
           /\ c.prog \in Program /\ c.off \in Nat /\ Place(c) \subseteq 0 .. ImemWords - 1
           /\ \E n \in 0 .. Len(write_gpubin(c.prog)) : c.file = SubSeq(write_gpubin(c.prog), 1, n)
           /\ \E a \in c.prog.entry .. Len(c.prog.code) - 1 : c.prog.code[a + 1] = EXIT
           /\ \A j \in Loads(s, k - 1) : Place(s.calls[j]) \cap Place(c) = {}
      /\ c.op = "const" => c.idx \in 0 .. CbankWords - 1 /\ c.val \in Int
      /\ c.op \in {"write", "read"} => c.byte \in Nat /\ c.byte \div 4 < GmemWords
      /\ c.op = "dispatch" =>
           /\ c.tpb \in 0 .. BlockThreads
           /\ \A j \in Loads(s, k - 1) :
                s.calls[j].prog.kconst = <<>> \/ \E i \in 1 .. k - 1 : s.calls[i].op = "const"
ASSUME ProperAssumption ==
  /\ {ImemWords, CbankWords, GmemWords, BlockThreads} \subseteq Nat \ {0}
  /\ \A s \in Sessions : \A k \in 1 .. Len(s.calls) : Proper(s, k)

\* set_const, and the static constants of a file, which fill the indices the host left.
set_const(bank, i, val) ==
  [k \in DOMAIN bank \cup 0 .. i |-> IF k = i THEN val ELSE IF k \in DOMAIN bank THEN bank[k] ELSE 0]
Seeded(bank, kconst) ==
  [k \in DOMAIN bank \cup 0 .. Len(kconst) - 1 |-> IF k \in DOMAIN bank THEN bank[k] ELSE kconst[k + 1]]
LDC(bank, i) == IF i \in DOMAIN bank THEN bank[i] ELSE 0

\* Code is fetched by index from the file's words.
Words(p) == [a \in 0 .. Len(p.code) - 1 |-> p.code[a + 1]]

run(g, d) ==
  LET p    == g.programs[d.prog]
      bank == Seeded(g.bank, p.kconst)
      add(m, a) == [m EXCEPT ![a] = Kernel(Words(p), p.entry, LDC(bank, 0), d.nx, @)]
      after[n \in 0 .. d.nx * d.tpb] == IF n = 0 THEN g.mem ELSE add(after[n - 1], n - 1)
  IN  [g EXCEPT !.bank = bank, !.mem = after[d.nx * d.tpb]]

GoldenCall(g, c) ==
  CASE c.op = "load"     -> [g EXCEPT !.programs = Append(@, c.prog)]
    [] c.op = "const"    -> [g EXCEPT !.bank = set_const(@, c.idx, c.val)]
    [] c.op = "write"    -> [g EXCEPT !.mem[c.byte \div 4] = c.val]
    [] c.op = "read"     -> [g EXCEPT !.reads = Append(@, g.mem[c.byte \div 4])]
    [] c.op = "dispatch" -> run(g, c)

\* After the first n calls of the session.
Golden(n) ==
  LET after[k \in 0 .. n] ==
        IF k = 0 THEN [programs |-> <<>>, bank |-> [i \in {} |-> 0], reads |-> <<>>,
                       mem |-> [a \in DOMAIN gmem |-> 0]]
        ELSE GoldenCall(after[k - 1], session.calls[k])
  IN  after[n]

Whole(c) == c.op = "load" => c.file = write_gpubin(c.prog)

\* A host that has not given up on a grid reads what the golden model computes, in the order
\* it asked: every program is found where it was loaded, no call takes effect under a grid
\* that still runs, and a dispatch returns when memory holds all that its blocks stored. A
\* file that was cut short is refused instead of run.
SessionAgrees ==
  timedOut = {} =>
    /\ reads = Golden(call - 1).reads
    /\ \A k \in 1 .. call - 1 : Whole(session.calls[k])
    /\ stopped => ~Whole(session.calls[call])

\* A dispatch that returns in time has waited for its own grid. There is one way to get
\* another's answer: the host gave up on that grid, launched again while it ran on, and the
\* second launch was not seen. No third call is taken in by it.
OwnGrid ==
  (waiting /\ grid_done) =>
    \/ owner = call
    \/ /\ owner \in timedOut
       /\ \A k \in owner + 1 .. call - 1 : session.calls[k].op = "dispatch" => k \in timedOut
================================================================================
