------------------------------ MODULE IntegerUnit ------------------------------
(***************************************************************************)
(* The integer arithmetic of one lane on registers of Width bits (32 in    *)
(* the device): isa.hpp's alu_ref and atom_ref, which alu.sv and f_atom of *)
(* cu_core.sv repeat, and the golden model's integer comparison.           *)
(***************************************************************************)
EXTENDS InsnCodec, Bitwise

CONSTANT Width

ASSUME WidthAssumption == Width \in Nat \ {0, 1}

WordSpace == 2^Width
Word      == 0 .. WordSpace - 1
ToSigned(w) == sext(w, Width)

alu_ref(op, a, b) ==
  LET sa  == ToSigned(a)
      sb  == ToSigned(b)
      amt == b % Width                              \* b & 31
      Flag(c) == IF c THEN 1 ELSE 0
  IN  CASE op \in {OP.ADD, OP.ADDI}   -> (a + b) % WordSpace
        [] op = OP.SUB                -> (a - b) % WordSpace
        [] op = OP.MUL                -> (sa * sb) % WordSpace
        [] op = OP.MULH               -> ((sa * sb) \div WordSpace) % WordSpace
        [] op \in {OP.AND, OP.ANDI}   -> a & b
        [] op \in {OP.OR, OP.ORI}     -> a | b
        [] op \in {OP.XOR, OP.XORI}   -> a ^^ b
        [] op = OP.NOT                -> WordSpace - 1 - a
        [] op \in {OP.SHL, OP.SHLI}   -> (a * 2^amt) % WordSpace
        [] op \in {OP.SHR, OP.SHRI}   -> a \div 2^amt
        [] op \in {OP.SRA, OP.SRAI}   -> (sa \div 2^amt) % WordSpace
        [] op \in {OP.SLT, OP.SLTI}   -> Flag(sa < sb)
        [] op \in {OP.SLTU, OP.SLTIU} -> Flag(a < b)
        [] op = OP.MIN                -> IF sa < sb THEN a ELSE b
        [] op = OP.MAX                -> IF sa > sb THEN a ELSE b
        [] op = OP.SEQ                -> Flag(a = b)
        [] op \in {OP.MOV, OP.MOVI}   -> a
        [] OTHER                      -> 0

\* The read-modify-write functions: 0 ADD, 1 MIN, 2 MAX, 3 EXCH, 4 CAS.
atom_ref(fn, old, val, cmpv) ==
  CASE fn = 0 -> (old + val) % WordSpace
    [] fn = 1 -> IF ToSigned(val) < ToSigned(old) THEN val ELSE old
    [] fn = 2 -> IF ToSigned(val) > ToSigned(old) THEN val ELSE old
    [] fn = 3 -> val
    [] fn = 4 -> IF old = cmpv THEN val ELSE old
    [] OTHER  -> old

\* The integer comparison of a predicate set.
int_cmp(cc, a, b) ==
  CASE cc = "EQ"  -> a = b                          [] cc = "NE"  -> a # b
    [] cc = "LT"  -> ToSigned(a) < ToSigned(b)      [] cc = "LE"  -> ToSigned(a) <= ToSigned(b)
    [] cc = "GT"  -> ToSigned(a) > ToSigned(b)      [] cc = "GE"  -> ToSigned(a) >= ToSigned(b)
    [] cc = "LTU" -> a < b                          [] cc = "GEU" -> a >= b
=============================================================================
