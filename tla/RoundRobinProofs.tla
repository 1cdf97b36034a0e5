-------------------------- MODULE RoundRobinProofs --------------------------
(* The rotating-priority choice, for any number of requesters.             *)
EXTENDS RoundRobin, WellFoundedInduction, TLAPS

\* A non-empty set of naturals has a least element.
LEMMA LeastNatural ==
  ASSUME NEW T \in SUBSET Nat, T # {}
  PROVE  \E x \in T : \A y \in T : x <= y
  <1>1. PICK x \in T : \A y \in T : ~(<< y, x >> \in OpToRel(<, Nat))
    BY NatLessThanWellFounded, WFMin
  <1>2. \A y \in T : ~(y < x)
    BY <1>1 DEF OpToRel
  <1> QED
    BY <1>2

\* Induction: a set of naturals with 0 and each one's successor is all of them.
LEMMA Induction ==
  ASSUME NEW T \in SUBSET Nat, 0 \in T, \A n \in T : n + 1 \in T
  PROVE  T = Nat
  <1>1. SUFFICES ASSUME Nat \ T # {} PROVE FALSE
    OBVIOUS
  <1>2. PICK m \in Nat \ T : \A y \in Nat \ T : m <= y
    BY <1>1, LeastNatural
  <1>3. m # 0 /\ m - 1 \in Nat /\ m - 1 \in T
    BY <1>2
  <1>4. m - 1 + 1 = m
    BY <1>2
  <1> QED
    BY <1>3, <1>4, <1>2

\* The scan selects a ready requester, and no ready one comes before it
\* (warp_sched's a_sel_ready and the fairness of its order).
THEOREM SelectReady ==
  ASSUME NEW n \in Nat \ {0}, NEW ptr \in 0 .. n - 1,
         NEW ready \in SUBSET (0 .. n - 1), ready # {}
  PROVE  /\ Select(ready, ptr, n) \in ready
         /\ \A v \in ready : Turn(Select(ready, ptr, n), ptr, n) <= Turn(v, ptr, n)
  <1> DEFINE T == {Turn(w, ptr, n) : w \in ready}
  <1>1. \A w \in ready : Turn(w, ptr, n) \in Nat
    BY DEF Turn
  <1>2. T \in SUBSET Nat /\ T # {}
    BY <1>1
  <1>3. PICK x \in T : \A y \in T : x <= y
    BY <1>2, LeastNatural
  <1>4. \E w \in ready : \A v \in ready : Turn(w, ptr, n) <= Turn(v, ptr, n)
    BY <1>3
  <1> QED
    BY <1>4 DEF Select

\* The modulus spelled out.
LEMMA ModUnique ==
  ASSUME NEW n \in Nat \ {0}, NEW a \in Int, NEW r \in 0 .. n - 1, NEW q \in Int,
         a = q * n + r
  PROVE  a % n = r
  <1>1. a % n \in 0 .. n - 1 /\ a = (a \div n) * n + (a % n) /\ a \div n \in Int
    OBVIOUS
  <1> QED
    BY <1>1, Z3

\* The scan's position without the modulus: the wrap happens at most once.
LEMMA TurnValue ==
  ASSUME NEW n \in Nat \ {0}, NEW ptr \in 0 .. n - 1, NEW w \in 0 .. n - 1
  PROVE  Turn(w, ptr, n) = IF w > ptr THEN w - ptr - 1 ELSE w - ptr - 1 + n
  <1>1. CASE w > ptr
    BY <1>1 DEF Turn
  <1>2. CASE w <= ptr
    <2>1. w - ptr - 1 + n \in 0 .. n - 1 /\ w - ptr - 1 = (-1) * n + (w - ptr - 1 + n)
      BY <1>2
    <2> QED
      BY <1>2, <2>1, ModUnique DEF Turn
  <1> QED
    BY <1>1, <1>2

\* Starvation freedom of the rotation, one choice at a time: a requester that
\* stays ready and is not chosen moves strictly closer to its turn, so it waits
\* for at most n - 1 choices.
THEOREM RotationProgress ==
  ASSUME NEW n \in Nat \ {0}, NEW ptr \in 0 .. n - 1,
         NEW ready \in SUBSET (0 .. n - 1), NEW w \in ready,
         Select(ready, ptr, n) # w
  PROVE  Turn(w, Select(ready, ptr, n), n) < Turn(w, ptr, n)
  <1> DEFINE s == Select(ready, ptr, n)
  <1>1. s \in 0 .. n - 1 /\ Turn(s, ptr, n) <= Turn(w, ptr, n) /\ s # w
    BY SelectReady
  <1> HIDE DEF s
  <1>2. /\ Turn(s, ptr, n) = IF s > ptr THEN s - ptr - 1 ELSE s - ptr - 1 + n
        /\ Turn(w, ptr, n) = IF w > ptr THEN w - ptr - 1 ELSE w - ptr - 1 + n
        /\ Turn(w, s, n) = IF w > s THEN w - s - 1 ELSE w - s - 1 + n
    BY <1>1, TurnValue
  <1> QED
    BY <1>1, <1>2 DEF s
=============================================================================
