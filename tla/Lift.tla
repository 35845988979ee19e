---------------------------------- MODULE Lift ----------------------------------
(***************************************************************************)
(* From a decoded instruction to its IR: the lift function of every        *)
(* extension (rvr-isa/src/extensions).                                     *)
(*                                                                         *)
(* An instruction is a record [op, rd, rs1, rs2, imm, csr, pc, size]; the  *)
(* fields an operand form does not have are 0.  The branches that trap on  *)
(* operands of the wrong form cannot be taken: every decoder builds the    *)
(* form its lift expects.                                                  *)
(***************************************************************************)
EXTENDS Ir

(* The operations of the A and C extensions. *)
Atomics ==
    {"lr.w", "sc.w", "amoswap.w", "amoadd.w", "amoxor.w", "amoand.w", "amoor.w",
     "amomin.w", "amomax.w", "amominu.w", "amomaxu.w",
     "lr.d", "sc.d", "amoswap.d", "amoadd.d", "amoxor.d", "amoand.d", "amoor.d",
     "amomin.d", "amomax.d", "amominu.d", "amomaxu.d"}
Compressed ==
    {"c.add", "c.sub", "c.xor", "c.or", "c.and", "c.mv", "c.addw", "c.subw", "c.addi", "c.addi4spn",
     "c.addi16sp", "c.addiw", "c.li", "c.andi", "c.slli", "c.srli", "c.srai", "c.lui", "c.lw", "c.lwsp",
     "c.ld", "c.ldsp", "c.sw", "c.swsp", "c.sd", "c.sdsp", "c.j", "c.jal", "c.jr", "c.jalr", "c.beqz",
     "c.bnez", "c.nop", "c.ebreak"}

(* Second operand, for the swaps and c.li. *)
second(l, r) == r

(* base/lift.rs and the same helpers of c/lift.rs and m.rs. *)
lift_r(i, Op(_, _)) == build_fall_no_target(i, write_reg(i.rd, Op(reg(i.rs1), reg(i.rs2))))
lift_shift(i, Op(_, _)) ==
    build_fall_no_target(i, write_reg(i.rd, Op(reg(i.rs1), and(reg(i.rs2), imm(W - 1)))))
lift_shiftw(i, Op(_, _)) ==
    build_fall_no_target(i, write_reg(i.rd, Op(reg(i.rs1), and(reg(i.rs2), imm(W32 - 1)))))
lift_i(i, Op(_, _)) == build_fall_no_target(i, write_reg(i.rd, Op(reg(i.rs1), imm(i.imm))))
lift_shamt(i, Op(_, _)) ==
    build_fall_no_target(i, write_reg(i.rd, Op(reg(i.rs1), imm(i.imm % (8 * Byte)))))
lift_lui(i) == build_fall_no_target(i, write_reg(i.rd, imm(i.imm)))
lift_auipc(i) == build_fall_no_target(i, write_reg(i.rd, imm(i.pc + i.imm)))
lift_load(i, width, signed) ==
    build_fall_no_target(i, write_reg(i.rd, mem(reg(i.rs1), i.imm, width, signed)))
\* Mutated form: a store leaves the reservation.
lift_storeKeepsReservation(i, width) ==
    build_fall_no_target(i, <<write_mem(reg(i.rs1), i.imm, reg(i.rs2), width)>>)

lift_store(i, width) ==
    build_fall_no_target(i, <<write_mem(reg(i.rs1), i.imm, reg(i.rs2), width), write_res_valid(imm(0))>>)
lift_jal(i) == build_jump(i, write_reg(i.rd, imm(i.pc + i.size)), i.pc + i.imm)

(* jalr: the base is saved first when the link register overwrites it. *)
\* Mutated form: the base is read after the link register was written.
JalrBaseLive(i) == reg(i.rs1)

JalrBase(i) == IF i.rd = i.rs1 THEN temp(0) ELSE reg(i.rs1)
JalrStmts(i) ==
    (IF i.rd = i.rs1 THEN <<write_temp(0, reg(i.rs1))>> ELSE <<>>)
        \o write_reg(i.rd, imm(i.pc + i.size))
lift_jalr(i) == build_jump_dyn(i, JalrStmts(i), and(add(JalrBase(i), imm(i.imm)), imm(Not(1))))
lift_branch(i, Op(_, _)) == build_branch(i, <<>>, Op(reg(i.rs1), reg(i.rs2)), i.pc + i.imm)

lift_base(i) ==
    CASE i.op = "add" -> lift_r(i, add)          [] i.op = "sub" -> lift_r(i, sub)
      [] i.op = "sll" -> lift_shift(i, sll)      [] i.op = "slt" -> lift_r(i, lt)
      [] i.op = "sltu" -> lift_r(i, ltu)         [] i.op = "xor" -> lift_r(i, xor)
      [] i.op = "srl" -> lift_shift(i, srl)      [] i.op = "sra" -> lift_shift(i, sra)
      [] i.op = "or" -> lift_r(i, or)            [] i.op = "and" -> lift_r(i, and)
      [] i.op = "addi" -> lift_i(i, add)         [] i.op = "slti" -> lift_i(i, lt)
      [] i.op = "sltiu" -> lift_i(i, ltu)        [] i.op = "xori" -> lift_i(i, xor)
      [] i.op = "ori" -> lift_i(i, or)           [] i.op = "andi" -> lift_i(i, and)
      [] i.op = "slli" -> lift_shamt(i, sll)     [] i.op = "srli" -> lift_shamt(i, srl)
      [] i.op = "srai" -> lift_shamt(i, sra)
      [] i.op = "addw" -> lift_r(i, addw)        [] i.op = "subw" -> lift_r(i, subw)
      [] i.op = "sllw" -> lift_shiftw(i, sllw)   [] i.op = "srlw" -> lift_shiftw(i, srlw)
      [] i.op = "sraw" -> lift_shiftw(i, sraw)   [] i.op = "addiw" -> lift_i(i, addw)
      [] i.op = "slliw" -> lift_shamt(i, sllw)   [] i.op = "srliw" -> lift_shamt(i, srlw)
      [] i.op = "sraiw" -> lift_shamt(i, sraw)
      [] i.op = "lui" -> lift_lui(i)             [] i.op = "auipc" -> lift_auipc(i)
      [] i.op = "lb" -> lift_load(i, 1, TRUE)    [] i.op = "lh" -> lift_load(i, 2, TRUE)
      [] i.op = "lw" -> lift_load(i, 4, TRUE)    [] i.op = "ld" -> lift_load(i, 8, FALSE)
      [] i.op = "lbu" -> lift_load(i, 1, FALSE)  [] i.op = "lhu" -> lift_load(i, 2, FALSE)
      [] i.op = "lwu" -> lift_load(i, 4, FALSE)
      [] i.op = "sb" -> lift_store(i, 1)         [] i.op = "sh" -> lift_store(i, 2)
      [] i.op = "sw" -> lift_store(i, 4)         [] i.op = "sd" -> lift_store(i, 8)
      [] i.op = "jal" -> lift_jal(i)             [] i.op = "jalr" -> lift_jalr(i)
      [] i.op = "beq" -> lift_branch(i, eq)      [] i.op = "bne" -> lift_branch(i, ne)
      [] i.op = "blt" -> lift_branch(i, lt)      [] i.op = "bge" -> lift_branch(i, ge)
      [] i.op = "bltu" -> lift_branch(i, ltu)    [] i.op = "bgeu" -> lift_branch(i, geu)
      [] i.op = "ebreak" -> build_exit(i, <<>>, imm(0))
      [] i.op \in {"fence", "mret"} -> build_fall_no_target(i, <<>>)
      [] OTHER -> build_trap(i, <<>>)

lift_m(i) ==
    CASE i.op = "mul" -> lift_r(i, mul)          [] i.op = "mulh" -> lift_r(i, mulh)
      [] i.op = "mulhsu" -> lift_r(i, mulhsu)    [] i.op = "mulhu" -> lift_r(i, mulhu)
      [] i.op = "div" -> lift_r(i, div)          [] i.op = "divu" -> lift_r(i, divu)
      [] i.op = "rem" -> lift_r(i, rem)          [] i.op = "remu" -> lift_r(i, remu)
      [] i.op = "mulw" -> lift_r(i, mulw)        [] i.op = "divw" -> lift_r(i, divw)
      [] i.op = "divuw" -> lift_r(i, divuw)      [] i.op = "remw" -> lift_r(i, remw)
      [] i.op = "remuw" -> lift_r(i, remuw)

---------------------------------------------------------------------------------
(* a.rs.  The operation names end in ".w" or ".d"; base is the part before. *)

lift_lr(i, width) ==
    build_fall_no_target(i, <<write_res_addr(reg(i.rs1)), write_res_valid(imm(1)),
                    WriteReg(i.rd, mem_addr(reg(i.rs1), width, width = 4))>>)
lift_sc(i, width) ==
    build_fall_no_target(i, <<if_then_else(and(ne(res_valid, imm(0)), eq(res_addr, reg(i.rs1))),
        <<write_mem(reg(i.rs1), 0, reg(i.rs2), width), WriteReg(i.rd, imm(0)), write_res_valid(imm(0))>>,
        <<WriteReg(i.rd, imm(1)), write_res_valid(imm(0))>>)>>)

(* The pointer and the operand are saved first when rd overwrites them. *)
lift_amo(i, width, Op(_, _)) ==
    LET addr == IF i.rd = i.rs1 THEN temp(1) ELSE reg(i.rs1)
        src == IF i.rd = i.rs2 THEN temp(3) ELSE reg(i.rs2)
    IN build_fall_no_target(i,
          (IF i.rd = i.rs1 THEN <<write_temp(1, reg(i.rs1))>> ELSE <<>>)
       \o (IF i.rd = i.rs2 THEN <<write_temp(3, reg(i.rs2))>> ELSE <<>>)
       \o <<write_temp(2, mem_addr(addr, width, width = 4)),
            WriteReg(i.rd, temp(2)),
            write_mem(addr, 0, Op(temp(2), src), width),
            write_res_valid(imm(0))>>)

lift_a(i) ==
    CASE i.op = "lr.w" -> lift_lr(i, 4)                  [] i.op = "lr.d" -> lift_lr(i, 8)
      [] i.op = "sc.w" -> lift_sc(i, 4)                  [] i.op = "sc.d" -> lift_sc(i, 8)
      [] i.op = "amoswap.w" -> lift_amo(i, 4, second)    [] i.op = "amoswap.d" -> lift_amo(i, 8, second)
      [] i.op = "amoadd.w" -> lift_amo(i, 4, add)        [] i.op = "amoadd.d" -> lift_amo(i, 8, add)
      [] i.op = "amoxor.w" -> lift_amo(i, 4, xor)        [] i.op = "amoxor.d" -> lift_amo(i, 8, xor)
      [] i.op = "amoand.w" -> lift_amo(i, 4, and)        [] i.op = "amoand.d" -> lift_amo(i, 8, and)
      [] i.op = "amoor.w" -> lift_amo(i, 4, or)          [] i.op = "amoor.d" -> lift_amo(i, 8, or)
      [] i.op = "amomin.w" -> lift_amo(i, 4, min32)      [] i.op = "amomin.d" -> lift_amo(i, 8, min)
      [] i.op = "amomax.w" -> lift_amo(i, 4, max32)      [] i.op = "amomax.d" -> lift_amo(i, 8, max)
      [] i.op = "amominu.w" -> lift_amo(i, 4, minu32)    [] i.op = "amominu.d" -> lift_amo(i, 8, minu)
      [] i.op = "amomaxu.w" -> lift_amo(i, 4, maxu32)    [] i.op = "amomaxu.d" -> lift_amo(i, 8, maxu)

---------------------------------------------------------------------------------
(* zicsr.rs: rd is written before the csr; the set and clear forms write    *)
(* the csr only for a source other than x0 (an immediate other than 0).     *)

lift_csrrw(i, src) == build_fall_no_target(i, write_reg(i.rd, csr(i.csr)) \o <<write_csr(i.csr, src)>>)
lift_csrrs(i, src, writes) ==
    build_fall_no_target(i, write_reg(i.rd, csr(i.csr))
                  \o IF writes THEN <<write_csr(i.csr, or(csr(i.csr), src))>> ELSE <<>>)
lift_csrrc(i, src, writes) ==
    build_fall_no_target(i, write_reg(i.rd, csr(i.csr))
                  \o IF writes THEN <<write_csr(i.csr, and(csr(i.csr), not(src)))>> ELSE <<>>)

lift_zicsr(i) ==
    CASE i.op = "csrrw" -> lift_csrrw(i, reg(i.rs1))
      [] i.op = "csrrs" -> lift_csrrs(i, reg(i.rs1), i.rs1 # 0)
      [] i.op = "csrrc" -> lift_csrrc(i, reg(i.rs1), i.rs1 # 0)
      [] i.op = "csrrwi" -> lift_csrrw(i, imm(i.imm))
      [] i.op = "csrrsi" -> lift_csrrs(i, imm(i.imm), i.imm # 0)
      [] i.op = "csrrci" -> lift_csrrc(i, imm(i.imm), i.imm # 0)

---------------------------------------------------------------------------------
(* The bit-manipulation extensions write rd without testing it for x0; the  *)
(* renderers drop that write.                                               *)

Assign(i, e) == build_fall_no_target(i, <<WriteReg(i.rd, e)>>)

(* zba.rs *)
lift_shxadd(i, shift) == Assign(i, add(reg(i.rs2), sll(reg(i.rs1), imm(shift))))
lift_add_uw(i) == Assign(i, add(reg(i.rs2), zext32(reg(i.rs1))))
lift_shxadd_uw(i, shift) == Assign(i, add(reg(i.rs2), sll(zext32(reg(i.rs1)), imm(shift))))
lift_slli_uw(i) == Assign(i, sll(zext32(reg(i.rs1)), imm(i.imm)))

lift_zba(i) ==
    CASE i.op = "sh1add" -> lift_shxadd(i, 1)
      [] i.op = "sh2add" -> lift_shxadd(i, 2)
      [] i.op = "sh3add" -> lift_shxadd(i, 3)
      [] i.op = "add.uw" -> lift_add_uw(i)
      [] i.op = "sh1add.uw" -> lift_shxadd_uw(i, 1)
      [] i.op = "sh2add.uw" -> lift_shxadd_uw(i, 2)
      [] i.op = "sh3add.uw" -> lift_shxadd_uw(i, 3)
      [] i.op = "slli.uw" -> lift_slli_uw(i)

(* zbb.rs *)
lift_andn(i) == Assign(i, and(reg(i.rs1), not(reg(i.rs2))))
lift_orn(i) == Assign(i, or(reg(i.rs1), not(reg(i.rs2))))
lift_xnor(i) == Assign(i, not(xor(reg(i.rs1), reg(i.rs2))))
lift_unary(i, Op(_)) == Assign(i, Op(reg(i.rs1)))
lift_binary(i, Op(_, _)) == Assign(i, Op(reg(i.rs1), reg(i.rs2)))

(* A rotation is a shift by the amount and one by its complement, both      *)
(* reduced modulo the width n.                                              *)
shamt(i, n) == and(reg(i.rs2), imm(n - 1))
complement(i, n) == and(sub(imm(n), reg(i.rs2)), imm(n - 1))
lift_rol(i) == Assign(i, or(sll(reg(i.rs1), shamt(i, W)), srl(reg(i.rs1), complement(i, W))))
lift_ror(i) == Assign(i, or(srl(reg(i.rs1), shamt(i, W)), sll(reg(i.rs1), complement(i, W))))
\* Mutated form: the complement of a rotation by zero is the width itself.
lift_roriUnreduced(i) ==
    Assign(i, or(srl(reg(i.rs1), imm(i.imm)), sll(reg(i.rs1), imm(W - i.imm))))

lift_rori(i) ==
    Assign(i, or(srl(reg(i.rs1), imm(i.imm)), sll(reg(i.rs1), imm((W - i.imm) % W))))
lift_rolw(i) ==
    LET val == zext32(reg(i.rs1))
    IN Assign(i, sext32(or(sll(val, shamt(i, W32)), srl(val, complement(i, W32)))))
lift_rorw(i) ==
    LET val == zext32(reg(i.rs1))
    IN Assign(i, sext32(or(srl(val, shamt(i, W32)), sll(val, complement(i, W32)))))
lift_roriw(i) ==
    LET val == zext32(reg(i.rs1))
    IN Assign(i, sext32(or(srl(val, imm(i.imm)), sll(val, imm((W32 - i.imm) % W32)))))

lift_zbb(i) ==
    CASE i.op = "andn" -> lift_andn(i)           [] i.op = "orn" -> lift_orn(i)
      [] i.op = "xnor" -> lift_xnor(i)
      [] i.op = "clz" -> lift_unary(i, clz)      [] i.op = "clzw" -> lift_unary(i, clz32)
      [] i.op = "ctz" -> lift_unary(i, ctz)      [] i.op = "ctzw" -> lift_unary(i, ctz32)
      [] i.op = "cpop" -> lift_unary(i, cpop)    [] i.op = "cpopw" -> lift_unary(i, cpop32)
      [] i.op = "max" -> lift_binary(i, max)     [] i.op = "maxu" -> lift_binary(i, maxu)
      [] i.op = "min" -> lift_binary(i, min)     [] i.op = "minu" -> lift_binary(i, minu)
      [] i.op = "sext.b" -> lift_unary(i, sext8) [] i.op = "sext.h" -> lift_unary(i, sext16)
      [] i.op = "zext.h" -> lift_unary(i, zext16)
      [] i.op = "rol" -> lift_rol(i)             [] i.op = "rolw" -> lift_rolw(i)
      [] i.op = "ror" -> lift_ror(i)             [] i.op = "rorw" -> lift_rorw(i)
      [] i.op = "rori" -> lift_rori(i)           [] i.op = "roriw" -> lift_roriw(i)
      [] i.op = "orc.b" -> lift_unary(i, orc8)   [] i.op = "rev8" -> lift_unary(i, rev8)

(* zbs.rs *)
Bit(index) == sll(imm(1), index)
lift_bclr(i) == Assign(i, and(reg(i.rs1), not(Bit(shamt(i, W)))))
lift_bclri(i) == Assign(i, and(reg(i.rs1), not(Bit(imm(i.imm)))))
lift_bext(i) == Assign(i, and(srl(reg(i.rs1), shamt(i, W)), imm(1)))
lift_bexti(i) == Assign(i, and(srl(reg(i.rs1), imm(i.imm)), imm(1)))
lift_binv(i) == Assign(i, xor(reg(i.rs1), Bit(shamt(i, W))))
lift_binvi(i) == Assign(i, xor(reg(i.rs1), Bit(imm(i.imm))))
lift_bset(i) == Assign(i, or(reg(i.rs1), Bit(shamt(i, W))))
lift_bseti(i) == Assign(i, or(reg(i.rs1), Bit(imm(i.imm))))

lift_zbs(i) ==
    CASE i.op = "bclr" -> lift_bclr(i)           [] i.op = "bclri" -> lift_bclri(i)
      [] i.op = "bext" -> lift_bext(i)           [] i.op = "bexti" -> lift_bexti(i)
      [] i.op = "binv" -> lift_binv(i)           [] i.op = "binvi" -> lift_binvi(i)
      [] i.op = "bset" -> lift_bset(i)           [] i.op = "bseti" -> lift_bseti(i)

(* zbkb.rs and zicond.rs *)
lift_zbkb(i) ==
    CASE i.op = "pack" -> lift_binary(i, pack)   [] i.op = "packh" -> lift_binary(i, pack8)
      [] i.op = "packw" -> lift_binary(i, pack16)
      [] i.op = "brev8" -> lift_unary(i, brev8)
      [] i.op = "zip" -> lift_unary(i, zip)      [] i.op = "unzip" -> lift_unary(i, unzip)

lift_czero_eqz(i) == Assign(i, select(eq(reg(i.rs2), imm(0)), imm(0), reg(i.rs1)))
lift_czero_nez(i) == Assign(i, select(ne(reg(i.rs2), imm(0)), imm(0), reg(i.rs1)))
lift_zicond(i) == CASE i.op = "czero.eqz" -> lift_czero_eqz(i)
                    [] i.op = "czero.nez" -> lift_czero_nez(i)

---------------------------------------------------------------------------------
(* c/lift.rs: as the base, except that c.jr and c.jalr do not clear the low *)
(* bit of their target.                                                     *)

lift_mv(i) == build_fall_no_target(i, write_reg(i.rd, reg(i.rs2)))
lift_j(i) == build_jump(i, <<>>, i.pc + i.imm)
lift_jr(i) == build_jump_dyn(i, <<>>, reg(i.rs1))
lift_c_jalr(i) == build_jump_dyn(i, JalrStmts(i), JalrBase(i))
lift_beqz(i) == build_branch(i, <<>>, eq(reg(i.rs1), imm(0)), i.pc + i.imm)
lift_bnez(i) == build_branch(i, <<>>, ne(reg(i.rs1), imm(0)), i.pc + i.imm)

lift_c(i) ==
    CASE i.op = "c.add" -> lift_r(i, add)        [] i.op = "c.sub" -> lift_r(i, sub)
      [] i.op = "c.xor" -> lift_r(i, xor)        [] i.op = "c.or" -> lift_r(i, or)
      [] i.op = "c.and" -> lift_r(i, and)        [] i.op = "c.mv" -> lift_mv(i)
      [] i.op = "c.addw" -> lift_r(i, addw)      [] i.op = "c.subw" -> lift_r(i, subw)
      [] i.op \in {"c.addi", "c.addi4spn", "c.addi16sp"} -> lift_i(i, add)
      [] i.op = "c.addiw" -> lift_i(i, addw)     [] i.op = "c.li" -> lift_i(i, second)
      [] i.op = "c.andi" -> lift_i(i, and)       [] i.op = "c.slli" -> lift_shamt(i, sll)
      [] i.op = "c.srli" -> lift_shamt(i, srl)   [] i.op = "c.srai" -> lift_shamt(i, sra)
      [] i.op = "c.lui" -> lift_lui(i)
      [] i.op \in {"c.lw", "c.lwsp"} -> lift_load(i, 4, TRUE)
      [] i.op \in {"c.ld", "c.ldsp"} -> lift_load(i, 8, FALSE)
      [] i.op \in {"c.sw", "c.swsp"} -> lift_store(i, 4)
      [] i.op \in {"c.sd", "c.sdsp"} -> lift_store(i, 8)
      [] i.op = "c.j" -> lift_j(i)               [] i.op = "c.jal" -> lift_jal(i)
      [] i.op = "c.jr" -> lift_jr(i)             [] i.op = "c.jalr" -> lift_c_jalr(i)
      [] i.op = "c.beqz" -> lift_beqz(i)         [] i.op = "c.bnez" -> lift_bnez(i)
      [] i.op = "c.nop" -> build_fall_no_target(i, <<>>)
      [] i.op = "c.ebreak" -> build_exit(i, <<>>, imm(0))
      [] OTHER -> build_trap(i, <<>>)

---------------------------------------------------------------------------------
(* syscalls/: ecall.  BareMetalHandler exits with a0.  A SyscallTable is a  *)
(* sequence of entries sorted by number, [num, action, name, args, value]:  *)
(* the exit entries set the exit flag and the exit code, the others are     *)
(* tried in turn and an unknown number returns ENOSYS.                      *)

REG_A0 == 10
ENOSYS == 38

BareMetal(i) == build_exit(i, <<>>, reg(REG_A0))

ActionOf(e) ==
    IF e.action = "runtime"
    THEN extern_call(e.name, [k \in 1 .. e.args |-> reg(REG_A0 + k - 1)])
    ELSE imm(e.value)

exit_stmts(sys_num, exits) ==
    [k \in 1 .. Len(exits) |-> if_then(eq(sys_num, imm(exits[k].num)),
                                       <<write_exited(imm(1)), write_exit_code(reg(REG_A0))>>)]

build_ir(i, abi, entries) ==
    LET sys_num == reg(abi)
        exits == SelectSeq(entries, LAMBDA e : e.action = "exit")
        others == SelectSeq(entries, LAMBDA e : e.action # "exit")
        dispatch[k \in 1 .. Len(others) + 1] ==
            IF k > Len(others) THEN WriteReg(REG_A0, imm(-ENOSYS))
            ELSE if_then_else(eq(sys_num, imm(others[k].num)),
                              <<WriteReg(REG_A0, ActionOf(others[k]))>>, <<dispatch[k + 1]>>)
        is_exit[k \in 1 .. Len(exits)] ==
            IF k = 1 THEN eq(sys_num, imm(exits[1].num))
            ELSE or(is_exit[k - 1], eq(sys_num, imm(exits[k].num)))
    IN build_fall(i, exit_stmts(sys_num, exits)
         \o (IF others = <<>> THEN <<>>
             ELSE IF exits = <<>> THEN <<dispatch[1]>>
             ELSE <<if_then(not(is_exit[Len(exits)]), <<dispatch[1]>>)>>))

(* ExtensionRegistry::lift of the standard registry without overrides: the  *)
(* extension the operation belongs to lifts it; handler is <<>> for the     *)
(* bare-metal handler, else the syscall table and its ABI register.         *)
Extension(op) ==
    CASE op \in {"mul", "mulh", "mulhsu", "mulhu", "div", "divu", "rem", "remu",
                 "mulw", "divw", "divuw", "remw", "remuw"} -> "M"
      [] op \in {"csrrw", "csrrs", "csrrc", "csrrwi", "csrrsi", "csrrci"} -> "Zicsr"
      [] op \in {"sh1add", "sh2add", "sh3add", "add.uw", "sh1add.uw", "sh2add.uw", "sh3add.uw", "slli.uw"}
            -> "Zba"
      [] op \in {"andn", "orn", "xnor", "clz", "clzw", "ctz", "ctzw", "cpop", "cpopw", "max", "maxu", "min",
                 "minu", "sext.b", "sext.h", "zext.h", "rol", "rolw", "ror", "rorw", "rori", "roriw",
                 "orc.b", "rev8"} -> "Zbb"
      [] op \in {"bclr", "bclri", "bext", "bexti", "binv", "binvi", "bset", "bseti"} -> "Zbs"
      [] op \in {"pack", "packh", "packw", "brev8", "zip", "unzip"} -> "Zbkb"
      [] op \in {"czero.eqz", "czero.nez"} -> "Zicond"
      [] op \in Atomics -> "A"
      [] op \in Compressed -> "C"
      [] op = "fence.i" -> "Zifencei"
      [] OTHER -> "I"

lift_default(i) ==
    LET ext == Extension(i.op)
    IN CASE ext = "I" -> lift_base(i)      [] ext = "M" -> lift_m(i)
         [] ext = "A" -> lift_a(i)         [] ext = "C" -> lift_c(i)
         [] ext = "Zicsr" -> lift_zicsr(i) [] ext = "Zifencei" -> build_fall_no_target(i, <<>>)
         [] ext = "Zba" -> lift_zba(i)     [] ext = "Zbb" -> lift_zbb(i)
         [] ext = "Zbs" -> lift_zbs(i)     [] ext = "Zbkb" -> lift_zbkb(i)
         [] ext = "Zicond" -> lift_zicond(i)

lift(i, handler) ==
    IF i.op # "ecall" THEN lift_default(i)
    ELSE IF handler = <<>> THEN BareMetal(i) ELSE build_ir(i, handler.abi, handler.entries)
=================================================================================
