---------------------------- MODULE BlockBarrier ----------------------------
(***************************************************************************)
(* What a block's barrier promises.  A live warp works on one instruction  *)
(* at a time; when the instruction is over the warp may have arrived at    *)
(* the barrier, where it waits.  The barrier opens for all warps at once,  *)
(* when every live warp waits there and nobody is working; the block is    *)
(* over when no warp is live.                                              *)
(***************************************************************************)
CONSTANT Warps

VARIABLES open,      \* a block is running
          live,      \* its warps that have not ended
          waiting,   \* those at the barrier
          working    \* those with an instruction under way
vars == << open, live, waiting, working >>

Init == open = FALSE /\ live = {} /\ waiting = {} /\ working = {}

Launch ==
  /\ ~open /\ open'
  /\ live' \in SUBSET Warps /\ waiting' = {} /\ working' = {}

\* Some warps begin an instruction, some end theirs, of which some arrive at the
\* barrier, and some that are between instructions end.
Work ==
  \E begin, end, arrive, quit \in SUBSET live :
     /\ open /\ open'
     /\ begin \cap (waiting \cup working) = {}
     /\ end \subseteq working /\ arrive \subseteq end
     /\ quit \cap (waiting \cup working \cup begin) = {}
     /\ live' = live \ quit
     /\ waiting' = waiting \cup arrive
     /\ working' = (working \cup begin) \ end

Open ==
  /\ open /\ open'
  /\ working = {} /\ live # {} /\ waiting = live
  /\ waiting' = {}
  /\ UNCHANGED << live, working >>

Over ==
  /\ open /\ ~open'
  /\ working = {} /\ live = {} /\ waiting = {}
  /\ UNCHANGED << live, waiting, working >>

Next == Launch \/ Work \/ Open \/ Over
Spec == Init /\ [][Next]_vars
=============================================================================
