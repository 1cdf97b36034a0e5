------------------------------- MODULE InsnCodec -------------------------------
(***************************************************************************)
(* The 32-bit instruction word (isa.hpp): the encoders, the fields of a    *)
(* word, and the control decode that decode.sv repeats. A word is kept as  *)
(* its upper 9 bits hi (opcode, guard sign, guard predicate) and its lower *)
(* 23 bits lo, which every format lays out in its own way.                 *)
(***************************************************************************)
EXTENDS Integers

OP == [ NOP |-> 0, EXIT |-> 1, BAR |-> 2, BRA |-> 3, SSY |-> 4, SYNC |-> 5, CALL |-> 6,
        RET |-> 7, RDSR |-> 8,
        ADD |-> 16, SUB |-> 17, MUL |-> 18, MULH |-> 19, AND |-> 20, OR |-> 21, XOR |-> 22,
        NOT |-> 23, SHL |-> 24, SHR |-> 25, SRA |-> 26, SLT |-> 27, SLTU |-> 28,
        MIN |-> 29, MAX |-> 30, SEQ |-> 31,
        ADDI |-> 32, ANDI |-> 33, ORI |-> 34, XORI |-> 35, SHLI |-> 36, SHRI |-> 37,
        SRAI |-> 38, SLTI |-> 39, SLTIU |-> 40, MOVI |-> 41, MOV |-> 42,
        ISETP |-> 43, ISETPI |-> 44, MUFU |-> 45,
        LDG |-> 48, STG |-> 49, LDS |-> 50, STS |-> 51, LDC |-> 52,
        FADD |-> 53, FSUB |-> 54, FMUL |-> 55, FFMA |-> 56, FMIN |-> 57, FMAX |-> 58,
        I2F |-> 59, F2I |-> 60, FSETP |-> 61, ATOMG |-> 62, ATOMS |-> 63 ]

CmpCode == <<"EQ", "NE", "LT", "LE", "GT", "GE", "LTU", "GEU">>

-----------------------------------------------------------------------------
\* The fields of a word.
Bits(w, low, n) == (w.lo \div 2^low) % 2^n
sext(v, n) == IF v >= 2^(n - 1) THEN v - 2^n ELSE v

opcode(w) == w.hi \div 8
gneg(w)   == (w.hi \div 4) % 2
psel(w)   == w.hi % 4
rd(w)     == Bits(w, 19, 4)
rs1(w)    == Bits(w, 15, 4)
rs2(w)    == Bits(w, 11, 4)
pd(w)     == Bits(w, 21, 2)
cmp(w)    == Bits(w, 18, 3)
prs1(w)   == Bits(w, 14, 4)
prs2(w)   == Bits(w, 10, 4)
imm14(w)  == sext(Bits(w, 0, 14), 14)
imm15(w)  == sext(Bits(w, 0, 15), 15)
imm19(w)  == sext(Bits(w, 0, 19), 19)
off23(w)  == sext(Bits(w, 0, 23), 23)

\* The encoders: g is the guard. An immediate is cut to its field.
enc_guard(op, g) == op * 8 + g.neg * 4 + (g.psel % 4)
enc_r(op, d, a, b, g)   == [hi |-> enc_guard(op, g),
                            lo |-> (d % 16) * 2^19 + (a % 16) * 2^15 + (b % 16) * 2^11]
enc_i_Unmasked(op, d, a, imm, g) ==         \* Fault: a negative immediate borrows
  [hi |-> enc_guard(op, g), lo |-> (d % 16) * 2^19 + (a % 16) * 2^15 + imm]
enc_i(op, d, a, imm, g) == [hi |-> enc_guard(op, g),
                            lo |-> (d % 16) * 2^19 + (a % 16) * 2^15 + (imm % 2^15)]
enc_u(op, d, imm, g)    == [hi |-> enc_guard(op, g), lo |-> (d % 16) * 2^19 + (imm % 2^19)]
enc_b(op, off, g)       == [hi |-> enc_guard(op, g), lo |-> off % 2^23]
enc_p(op, p, cc, a, b, g) ==
  [hi |-> enc_guard(op, g),
   lo |-> (p % 4) * 2^21 + (cc % 8) * 2^18 + (a % 16) * 2^14 + (b % 16) * 2^10]
\* asm.py has two forms the C++ encoders lack: a predicate set with an immediate, and a
\* function code in the low bits of an R-type.
asm_pi(op, p, cc, a, imm, g) ==
  [hi |-> enc_guard(op, g),
   lo |-> (p % 4) * 2^21 + (cc % 8) * 2^18 + (a % 16) * 2^14 + (imm % 2^14)]
asm_func(op, d, a, b, func, g) == [enc_r(op, d, a, b, g) EXCEPT !.lo = @ + func]

-----------------------------------------------------------------------------
op_ialu_r(op) == op \in OP.ADD .. OP.SEQ
op_ialu_i(op) == op \in OP.ADDI .. OP.SLTIU
op_falu(op)   == op \in OP.FADD .. OP.F2I

ImmOf(w) ==
  LET op == opcode(w) IN
  CASE op_ialu_i(op) \/ op \in {OP.LDG, OP.LDS, OP.STG, OP.STS} -> imm15(w)
    [] op \in {OP.MOVI, OP.RDSR, OP.LDC} -> imm19(w)
    [] op \in {OP.BRA, OP.SSY, OP.CALL}  -> off23(w)
    [] op = OP.ISETPI                    -> imm14(w)
    [] OTHER                             -> 0

decode_ref(w) ==
  LET op      == opcode(w)
      is_alu  == op_ialu_r(op) \/ op_ialu_i(op) \/ op_falu(op) \/ op \in {OP.MOVI, OP.MOV, OP.MUFU}
      is_load == op \in {OP.LDG, OP.LDS, OP.LDC}
      is_rdsr == op = OP.RDSR
      atom    == op \in {OP.ATOMG, OP.ATOMS}
  IN  [opcode |-> op, gneg |-> gneg(w), psel |-> psel(w), rd |-> rd(w), rs1 |-> rs1(w),
       rs2 |-> rs2(w), pd |-> pd(w), cmp |-> cmp(w), imm |-> ImmOf(w),
       is_alu |-> is_alu, is_load |-> is_load, is_store |-> op \in {OP.STG, OP.STS},
       mem_shared |-> op \in {OP.LDS, OP.STS}, is_branch |-> op = OP.BRA,
       is_ssy |-> op = OP.SSY, is_setp |-> op \in {OP.ISETP, OP.ISETPI, OP.FSETP},
       is_rdsr |-> is_rdsr, reg_write |-> is_alu \/ is_rdsr \/ is_load,
       uses_rs1 |-> \/ op_ialu_r(op) \/ op_ialu_i(op) \/ op_falu(op) \/ atom
                    \/ op \in {OP.MOV, OP.MUFU, OP.LDG, OP.LDS, OP.STG, OP.STS},
       uses_rs2 |-> \/ op_ialu_r(op) /\ op # OP.NOT
                    \/ op_falu(op) /\ op \notin {OP.I2F, OP.F2I}
                    \/ atom,
       alu_a_imm |-> op = OP.MOVI, alu_b_imm |-> op_ialu_i(op)]
=============================================================================
