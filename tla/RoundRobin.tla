----------------------------- MODULE RoundRobin -----------------------------
(***************************************************************************)
(* The rotating-priority choice that warp_sched makes among ready warps    *)
(* and the L2 among requesting ports: scan from the index after ptr, take  *)
(* the first that is ready.                                                *)
(***************************************************************************)
EXTENDS Integers

\* Fault: a fixed priority.
Turn_Fixed(w, ptr, n) == w

\* How many indices after ptr (of n, in a circle) the scan reaches w.
Turn(w, ptr, n) == (w - ptr - 1) % n

\* The index a scan of the non-empty set ready \subseteq 0 .. n - 1 selects.
Select(ready, ptr, n) ==
  CHOOSE w \in ready : \A v \in ready : Turn(w, ptr, n) <= Turn(v, ptr, n)
=============================================================================
