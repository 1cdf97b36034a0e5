------------------------------ MODULE LaneDatapath ------------------------------
(***************************************************************************)
(* One lane executing one instruction that is neither control flow nor a   *)
(* memory access, twice: as the golden model does it (the cases of         *)
(* step_warp in iss.hpp, which read the instruction's fields themselves),  *)
(* and as the READ and EXEC stages of cu_core.sv do it (register ports,    *)
(* operand selectors and result multiplexer, driven by the decoder).       *)
(* A lane's context c: its registers and predicates, its place (lane,      *)
(* warp), the block's (bidx, bdx, gdx; a 1-D grid), the constant bank and  *)
(* the number of its words the host has set.                               *)
(***************************************************************************)
EXTENDS IntegerUnit, Sequences

CONSTANTS EW, MW, WarpSize

F == INSTANCE SpecialFunctions

ASSUME LaneAssumption ==
  /\ EW \in Nat \ {0, 1} /\ MW \in Nat \ {0} /\ Width = 1 + EW + MW
  /\ WarpSize \in Nat \ {0}

Num(w) == F!FloatOf(w)
Reg(x) == F!WordOf(x)

\* guard_e, and g of step_warp: predicate 0 is hardwired true.
GuardHolds(w, c) == (IF psel(w) = 0 THEN TRUE ELSE c.pred[psel(w)]) # (gneg(w) = 1)
SetReg(c, d, v)  == [c EXCEPT !.reg[d] = v]
SetPred(c, p, v) == IF p = 0 THEN c ELSE [c EXCEPT !.pred[p] = v]

-----------------------------------------------------------------------------
\* The golden model.
sreg(sr, c) ==
  LET t == c.warp * WarpSize + c.lane IN
  CASE sr = 0  -> t % c.bdx      [] sr = 1  -> (t \div c.bdx) % 1 [] sr = 2 -> t \div c.bdx
    [] sr = 3  -> c.bdx          [] sr = 4  -> 1                  [] sr = 5 -> 1
    [] sr = 6  -> c.bidx         [] sr = 7  -> 0                  [] sr = 8 -> 0
    [] sr = 9  -> c.gdx          [] sr = 10 -> 1                  [] sr = 11 -> 1
    [] sr = 12 -> c.lane         [] sr = 13 -> c.warp
    [] sr = 14 -> c.bidx * c.bdx + t
    [] OTHER   -> 0

is_imm_alu(op) == op \in {OP.ADDI, OP.ANDI, OP.ORI, OP.XORI, OP.SHLI, OP.SHRI, OP.SRAI,
                          OP.SLTI, OP.SLTIU}

IssFloat(op, a, b, acc) ==
  CASE op = OP.FADD -> Reg(F!fp_add_ref(Num(a), Num(b)))
    [] op = OP.FSUB -> Reg(F!fp_sub_ref(Num(a), Num(b)))
    [] op = OP.FMUL -> Reg(F!fp_mul_ref(Num(a), Num(b)))
    [] op = OP.FFMA -> Reg(F!fp_fma_ref(Num(a), Num(b), Num(acc)))
    [] op = OP.FMIN -> Reg(F!fp_min_ref(Num(a), Num(b)))
    [] op = OP.FMAX -> Reg(F!fp_max_ref(Num(a), Num(b)))
    [] op = OP.I2F  -> Reg(F!fp_i2f_ref(a))
    [] op = OP.F2I  -> F!fp_f2i_ref(Num(a))

IssInteger(w, c) ==
  LET op == opcode(w)
      a  == IF op = OP.MOVI THEN imm19(w) % WordSpace ELSE c.reg[rs1(w)]
      b  == CASE op \in {OP.MOVI, OP.MOV, OP.NOT} -> 0
              [] is_imm_alu(op) -> imm15(w) % WordSpace
              [] OTHER          -> c.reg[rs2(w)]
  IN  alu_ref(op, a, b)

IssLane(w, c) ==
  LET op == opcode(w)
      cc == CmpCode[cmp(w) + 1]
  IN  CASE ~GuardHolds(w, c) -> c
        [] GuardHolds(w, c) /\ op = OP.FSETP ->
             SetPred(c, pd(w), F!fp_cmp_ref(cc, Num(c.reg[prs1(w)]), Num(c.reg[prs2(w)])))
        [] GuardHolds(w, c) /\ op \in {OP.ISETP, OP.ISETPI} ->
             SetPred(c, pd(w), int_cmp(cc, c.reg[prs1(w)],
                                       IF op = OP.ISETP THEN c.reg[prs2(w)]
                                                        ELSE imm14(w) % WordSpace))
        [] GuardHolds(w, c) /\ op_falu(op) ->
             SetReg(c, rd(w), IssFloat(op, c.reg[rs1(w)], c.reg[rs2(w)], c.reg[rd(w)]))
        [] GuardHolds(w, c) /\ op = OP.MUFU ->
             SetReg(c, rd(w), Reg(F!sfu_ref(w.lo % 8, Num(c.reg[rs1(w)]))))
        [] GuardHolds(w, c) /\ op = OP.RDSR ->
             SetReg(c, rd(w), sreg(imm19(w) % 256, c) % WordSpace)
        [] GuardHolds(w, c) /\ op = OP.LDC ->
             SetReg(c, rd(w), IF imm19(w) \in 0 .. c.loaded - 1 THEN c.cbank[imm19(w) + 1]
                                                                    ELSE 0)
        [] OTHER -> SetReg(c, rd(w), IssInteger(w, c))

-----------------------------------------------------------------------------
\* The RTL.
f_sreg(sr, c) ==
  LET tib == c.warp * WarpSize + c.lane IN
  CASE sr = 0 -> tib % c.bdx [] sr = 3 -> c.bdx  [] sr \in {4, 5} -> 1 [] sr = 6 -> c.bidx
    [] sr = 9 -> c.gdx       [] sr = 12 -> c.lane [] sr = 13 -> c.warp
    [] sr = 14 -> c.bidx * c.bdx + tib
    [] OTHER -> 0

fp_alu(op, a, b, acc) ==
  LET x == Num(a) y == Num(b) IN
  CASE op \in {OP.FADD, OP.FSUB} -> Reg(F!fp_add_ref(x, y))
    [] op = OP.FMUL -> Reg(F!fp_mul_ref(x, y))
    [] op = OP.FFMA -> Reg(F!fp_add_ref(F!fp_mul_ref(x, y), Num(acc)))
    [] op = OP.FMIN -> IF F!fp_key(x) < F!fp_key(y) THEN a ELSE b
    [] op = OP.FMAX -> IF F!fp_key(x) > F!fp_key(y) THEN a ELSE b
    [] op = OP.I2F  -> Reg(F!fp_i2f_ref(a))
    [] OTHER        -> F!fp_f2i_ref(x)

\* Fault: a predicate set reads the fields of an R-type.
ReadPorts_RType(w, c) ==
  LET d == decode_ref(w)
  IN  << c.reg[d.rs1], c.reg[IF d.is_store THEN d.rd ELSE d.rs2], c.reg[d.rd] >>

\* READ: what the three register ports deliver.
ReadPorts(w, c) ==
  LET d == decode_ref(w)
  IN  << c.reg[IF d.is_setp THEN prs1(w) ELSE d.rs1],
         c.reg[CASE d.is_store -> d.rd [] d.is_setp -> prs2(w) [] OTHER -> d.rs2],
         c.reg[d.rd] >>

\* EXEC: the result multiplexer and the predicate unit.
RtlLane(w, c) ==
  LET d     == decode_ref(w)
      port  == ReadPorts(w, c)
      imm   == d.imm % WordSpace
      cc    == CmpCode[d.cmp + 1]
      signB == IF d.opcode = OP.FSUB THEN Reg(F!Negate(Num(port[2]))) ELSE port[2]
      result ==
        CASE d.is_rdsr          -> f_sreg(imm % 32, c) % WordSpace
          [] d.opcode = OP.LDC  -> c.cbank[(d.imm % Len(c.cbank)) + 1]
          [] op_falu(d.opcode)  -> fp_alu(d.opcode, port[1], signB, port[3])
          [] d.opcode = OP.MUFU -> Reg(F!sfu_ref(w.lo % 8, Num(port[1])))
          [] OTHER -> alu_ref(d.opcode, IF d.alu_a_imm THEN imm ELSE port[1],
                                        IF d.alu_b_imm THEN imm ELSE port[2])
      truth == IF d.opcode = OP.FSETP THEN F!fp_cmp_ref(cc, Num(port[1]), Num(port[2]))
               ELSE int_cmp(cc, port[1], IF d.opcode = OP.ISETPI THEN imm ELSE port[2])
  IN  CASE ~GuardHolds(w, c) -> c
        [] GuardHolds(w, c) /\ d.is_setp -> SetPred(c, d.pd, truth)
        [] GuardHolds(w, c) /\ (d.is_alu \/ d.is_rdsr \/ d.opcode = OP.LDC) ->
             SetReg(c, d.rd, result)
        [] OTHER -> c
===============================================================================
