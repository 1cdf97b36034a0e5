---------------------------- MODULE MemoryWords ----------------------------
(***************************************************************************)
(* Words, lines and requests of the global memory, as the L1 caches, the   *)
(* L2 and the memory behind it see them.  An address is a line and an      *)
(* offset in it; a cache set holds the lines with the same index, and the  *)
(* line itself stands for the tag.                                         *)
(***************************************************************************)
EXTENDS Integers

CONSTANTS NumLines,    \* lines of global memory
          LineWords,   \* LINE_WORDS
          WordSpace    \* 2^XLEN

ASSUME MemoryAssumption ==
  /\ NumLines \in Nat \ {0} /\ LineWords \in Nat \ {0}
  /\ WordSpace \in Nat /\ WordSpace >= 2 /\ WordSpace % 2 = 0

Lines    == 0 .. NumLines - 1
Offsets  == 0 .. LineWords - 1
Word     == 0 .. WordSpace - 1
LineData == [Offsets -> Word]
Memory   == [Lines -> LineData]

\* The set of a cache of n sets in which a line lives.
SetOf(line, n) == line % n

\* What the memory unit of a compute unit asks for: a line, the strobed words of
\* a line to store, or one atomic read-modify-write of a word.
NoReq  == [op |-> "none"]
Load   == [op : {"LD"}, line : Lines]
Store  == [op : {"ST"}, line : Lines, data : LineData, strb : SUBSET Offsets]
Atomic == [op : {"ATOM"}, line : Lines, off : Offsets,
           fn : {"ADD", "MIN", "MAX", "EXCH", "CAS"}, val : Word, cmp : Word]
Request == Load \cup Store \cup Atomic

\* What it is given back: the line, the word before the operation, or only the
\* acknowledgement.
NoAnswer == [op |-> "none"]
Answers  == [op : {"LD"}, data : LineData] \cup [op : {"ATOM"}, old : Word]
              \cup {[op |-> "ST"]}

\* Fault: a strobed store overwrites the whole line.
Merge_Whole(line, data, strb) == data

Merge(line, data, strb) == [w \in Offsets |-> IF w \in strb THEN data[w] ELSE line[w]]

Signed(v) == IF v >= WordSpace \div 2 THEN v - WordSpace ELSE v

AtomicResult(q, old) ==
  CASE q.fn = "ADD"  -> (old + q.val) % WordSpace
    [] q.fn = "MIN"  -> IF Signed(q.val) < Signed(old) THEN q.val ELSE old
    [] q.fn = "MAX"  -> IF Signed(q.val) > Signed(old) THEN q.val ELSE old
    [] q.fn = "EXCH" -> q.val
    [] q.fn = "CAS"  -> IF old = q.cmp THEN q.val ELSE old

\* The line after the request q has been performed on it, and the answer to q.
Performed(q, line) ==
  CASE q.op = "LD"   -> line
    [] q.op = "ST"   -> Merge(line, q.data, q.strb)
    [] q.op = "ATOM" -> [line EXCEPT ![q.off] = AtomicResult(q, line[q.off])]
AnswerTo(q, line) ==
  CASE q.op = "LD"   -> [op |-> "LD", data |-> line]
    [] q.op = "ST"   -> [op |-> "ST"]
    [] q.op = "ATOM" -> [op |-> "ATOM", old |-> line[q.off]]
=============================================================================
