----------------------------- MODULE MCBlockMemory -----------------------------
(***************************************************************************)
(* The instance of BlockMemory for TLC: three threads, so that one of the  *)
(* two warps has a lane without a thread. A thread addresses its own word, *)
(* one of the next warp's, a word all have in common, or its warp's.       *)
(***************************************************************************)
EXTENDS BlockMemory

Patterns ==
  {[t \in Threads |-> t], [t \in Threads |-> (t + WarpSize) % (2 * WarpSize)],
   [t \in Threads |-> 1], [t \in Threads |-> 2 * (t \div WarpSize)]}

Access(ops, fns) == [op : ops, fn : fns, at : Patterns]
Plain(o) == [op |-> o, fn |-> 0, at |-> [t \in Threads |-> 0]]
First == Access({"LDG", "STG", "STS", "ATOMG"}, {0})          \* what can come first
Any   == Access({"LDG", "STG", "LDS", "STS"}, {0}) \cup Access({"ATOMG", "ATOMS"}, {0, 3})
Wide  == [op : {"STS", "LDS"}, fn : {0}, at : {[t \in Threads |-> t + 1]}]   \* past the end

MCPrograms ==
  {<<Plain("RDSR"), i, j, k>> : i \in First, j \in Any \cup {Plain("BAR")}, k \in Any}
  \cup {<<Plain("RDSR"), i, Plain("BAR"), j, k>> : i \in First, j \in Any, k \in Any}
  \cup {<<i, Plain("BAR"), j>> : i \in Any \cup Wide, j \in Any \cup Wide}
================================================================================
