---------------------------- MODULE GridExecution ----------------------------
(***************************************************************************)
(* What launching a grid promises.  Its blocks are run, each once, on any  *)
(* compute unit, each to its end and with the launch's own descriptor; the *)
(* grid is reported once, when no block is left and no cache holds data.   *)
(***************************************************************************)
EXTENDS Integers

CONSTANTS CUs, GridSizes, Descriptors

VARIABLES open,       \* a grid has been launched and not reported
          todo,       \* its blocks that have not begun
          desc,       \* its descriptor
          busy,       \* what each unit runs
          cached,     \* the caches that may hold data
          reported
vars == << open, todo, desc, busy, cached, reported >>

Nobody == [block |-> -1]

Init ==
  /\ ~open /\ todo = {} /\ desc \in Descriptors
  /\ busy = [c \in CUs |-> Nobody] /\ cached = {} /\ reported = FALSE

Launch ==
  /\ ~open /\ \E n \in GridSizes : todo' = 0 .. n - 1 /\ open' = (n # 0) /\ reported' = (n = 0)
  /\ desc' \in Descriptors
  /\ UNCHANGED << busy, cached >>

\* Some units begin blocks, some end theirs.
Begins(c) == busy[c] = Nobody /\ \E b \in todo : busy'[c] = [block |-> b, desc |-> desc]
Ends(c)   == busy[c] # Nobody /\ busy'[c] = Nobody

Run ==
  LET begun == {c \in CUs : Begins(c)}
  IN  /\ open /\ open' /\ ~reported'
      /\ \A c \in CUs : Begins(c) \/ Ends(c) \/ busy'[c] = busy[c]
      /\ \A c, e \in begun : c # e => busy'[c].block # busy'[e].block
      /\ todo' = todo \ {busy'[c].block : c \in begun}
      /\ UNCHANGED desc

\* The caches are emptied when all is done, and then the grid is reported.
Over  == todo = {} /\ busy = [c \in CUs |-> Nobody]
Clean == open /\ open' /\ Over /\ cached' \subseteq cached /\ UNCHANGED << todo, desc, busy, reported >>
Report ==
  /\ open /\ Over /\ cached = {} /\ ~open' /\ reported'
  /\ UNCHANGED << todo, desc, busy, cached >>
Idle == ~open /\ ~reported' /\ UNCHANGED << open, todo, desc, busy, cached >>

Next == Launch \/ (Run /\ cached \subseteq cached') \/ Clean \/ Report \/ Idle
Spec == Init /\ [][Next]_vars
=============================================================================
