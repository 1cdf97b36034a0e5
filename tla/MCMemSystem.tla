----------------------------- MODULE MCMemSystem -----------------------------
(* MemSystem with a few requests per compute unit.                         *)
EXTENDS MemSystem, TLC

Ld(l)       == [op |-> "LD", line |-> l]
St(l, w, v) == [op |-> "ST", line |-> l, data |-> [o \in Offsets |-> v], strb |-> {w}]
At(l, w, f) == [op |-> "ATOM", line |-> l, off |-> w, fn |-> f, val |-> 1, cmp |-> 0]

\* Two units that share line 0, each storing its own word of it, and line 1 that
\* displaces it from every cache.
SharingRequests ==
  (0 :> {Ld(0), St(0, 0, 1), At(0, 0, "ADD"), Ld(1)})
  @@ (1 :> {Ld(0), St(0, 1, 1), At(0, 0, "ADD"), Ld(1)})

\* Units that never stop displacing each other's line from the L2.
BusyRequests == [c \in CUs |-> {At(c % 2, 0, "EXCH")}]
=============================================================================
