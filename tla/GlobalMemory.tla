---------------------------- MODULE GlobalMemory ----------------------------
(***************************************************************************)
(* What a kernel and the host may count on.  There is one memory; each     *)
(* compute unit has a view of it, in which a word that another unit wrote  *)
(* may show up late.  Stores and atomics act once, on memory, at one       *)
(* instant between request and answer; a unit's own stores are in its      *)
(* view; an atomic brings its line up to date; and at a kernel boundary    *)
(* all views, and the host's, are the memory.                              *)
(***************************************************************************)
EXTENDS MemoryWords

CONSTANTS CUs, Requests

VARIABLES mem,     \* the memory
          view,    \* each unit's view of it
          host,    \* the host's
          op,      \* what each unit has asked for, or been answered
          phase
vars == << mem, view, host, op, phase >>

NoOp        == [st |-> "none"]
Asked(r)    == [st |-> "asked", req |-> r]
Told(a)     == [st |-> "told", ans |-> a]

Init ==
  /\ mem \in Memory /\ host = mem /\ view = [c \in CUs |-> mem]
  /\ op = [c \in CUs |-> NoOp] /\ phase = "idle"

\* Every word of a view, and of the host's, is left as it was or brought up to date.
Refresh ==
  /\ \A c \in CUs, l \in Lines, w \in Offsets : view'[c][l][w] \in {view[c][l][w], mem'[l][w]}
  /\ \A l \in Lines : host'[l] \in {host[l], mem'[l]}

\* What the unit c may be told, and what its view then shows.
Ask(c)    == op[c] = NoOp /\ \E r \in Requests[c] : op'[c] = Asked(r)
Read(c)   == /\ op[c].st = "asked" /\ op[c].req.op = "LD"
             /\ op'[c] = Told([op |-> "LD", data |-> view'[c][op[c].req.line]])
Update(c) == LET r == op[c].req
             IN  /\ op[c].st = "asked" /\ r.op \in {"ST", "ATOM"}
                 /\ mem' = [mem EXCEPT ![r.line] = Performed(r, mem[r.line])]
                 /\ op'[c] = Told(AnswerTo(r, mem[r.line]))
                 /\ \A w \in IF r.op = "ST" THEN r.strb ELSE Offsets :
                       view'[c][r.line][w] = mem'[r.line][w]
Take(c)   == op[c].st = "told" /\ op'[c] = NoOp

\* Units act at the same time, but at most one of them on the memory.
Kernel ==
  /\ phase = "kernel" /\ phase' = "kernel"
  /\ \/ mem' = mem /\ \A c \in CUs : Ask(c) \/ Read(c) \/ Take(c) \/ op'[c] = op[c]
     \/ \E u \in CUs : Update(u) /\ \A c \in CUs \ {u} :
                         Ask(c) \/ Read(c) \/ Take(c) \/ op'[c] = op[c]
  /\ Refresh

EndKernel ==
  /\ phase = "kernel" /\ phase' = "flush"
  /\ op = [c \in CUs |-> NoOp]
  /\ UNCHANGED << mem, op >> /\ Refresh

Boundary ==
  /\ phase = "flush" /\ phase' \in {"flush", "idle"}
  /\ UNCHANGED << mem, op >> /\ Refresh
  /\ phase' = "idle" => host' = mem' /\ view' = [c \in CUs |-> mem']

HostWrite ==
  /\ phase = "idle" /\ UNCHANGED << op, phase >>
  /\ \E l \in Lines, w \in Offsets, v \in Word :
        mem' = [mem EXCEPT ![l] = [mem[l] EXCEPT ![w] = v]]
  /\ host' = mem' /\ view' = [c \in CUs |-> mem']

Launch == phase = "idle" /\ phase' = "kernel" /\ UNCHANGED << mem, view, host, op >>

Next == Kernel \/ EndKernel \/ Boundary \/ HostWrite \/ Launch
Spec == Init /\ [][Next]_vars
=============================================================================
