--------------------------------- MODULE Decode ---------------------------------
(***************************************************************************)
(* From the bytes at a pc to a decoded instruction: the decode functions   *)
(* of every extension (rvr-isa/src/extensions, encode.rs) and the registry *)
(* that tries the extensions in turn.                                      *)
(*                                                                         *)
(* The bytes are [n, lo, hi]: n of them are left in the segment, lo and hi *)
(* are the first two parcels of 16 bits.  The six fields of a 32-bit word  *)
(* are the record [f7, rs2, rs1, f3, rd, op].  A decoded instruction is    *)
(* [op, rd, rs1, rs2, imm, csr, size], with 0 for the fields its form      *)
(* lacks; None says that a decoder declines.  The immediate of lui and     *)
(* auipc is counted in units of 2^12.                                      *)
(***************************************************************************)
EXTENDS Integers, Sequences

CONSTANT Xlen          \* X::VALUE, 32 or 64

None == [op |-> ""]

(* n bits of x from bit k on, and two's complement of n bits. *)
Bits(x, k, n) == (x \div 2^k) % 2^n
SignExtend(x, n) == IF x >= 2^(n - 1) THEN x - 2^n ELSE x

---------------------------------------------------------------------------------
(* encode.rs: the immediates. *)

Imm12(w) == w.f7 * 32 + w.rs2
decode_i_imm(w) == SignExtend(Imm12(w), 12)
decode_s_imm(w) == SignExtend(w.f7 * 32 + w.rd, 12)
decode_b_imm(w) ==
    SignExtend(Bits(w.f7, 6, 1) * 2^12 + Bits(w.rd, 0, 1) * 2^11 + Bits(w.f7, 0, 6) * 2^5
               + Bits(w.rd, 1, 4) * 2, 13)
decode_u_imm(w) == SignExtend(((w.f7 * 32 + w.rs2) * 32 + w.rs1) * 8 + w.f3, 20)
decode_j_imm(w) ==
    SignExtend(Bits(w.f7, 6, 1) * 2^20 + (w.rs1 * 8 + w.f3) * 2^12 + Bits(w.rs2, 0, 1) * 2^11
               + (Bits(w.f7, 0, 6) * 16 + Bits(w.rs2, 1, 4)) * 2, 21)
Shamt6(w) == Bits(Imm12(w), 0, 6)
Shamt5(w) == w.rs2

(* InstrArgs: the operand forms. *)
Instr(op, rd, rs1, rs2, imm, csr, size) ==
    IF op = "" THEN None
    ELSE [op |-> op, rd |-> rd, rs1 |-> rs1, rs2 |-> rs2, imm |-> imm, csr |-> csr, size |-> size]
R(op, w) == Instr(op, w.rd, w.rs1, w.rs2, 0, 0, 4)
I(op, w, imm) == Instr(op, w.rd, w.rs1, 0, imm, 0, 4)
Bare(op) == Instr(op, 0, 0, 0, 0, 0, 4)

(* A match on a key: the operation the table gives it, or "". *)
Match(table, key) ==
    IF \E t \in table : t[1] = key THEN (CHOOSE t \in table : t[1] = key)[2] ELSE ""

---------------------------------------------------------------------------------
(* base/decode.rs *)

decode_branch(w) ==
    Instr(Match({<<0, "beq">>, <<1, "bne">>, <<4, "blt">>, <<5, "bge">>, <<6, "bltu">>, <<7, "bgeu">>}, w.f3),
          0, w.rs1, w.rs2, decode_b_imm(w), 0, 4)
decode_load(w) ==
    I(Match({<<0, "lb">>, <<1, "lh">>, <<2, "lw">>, <<4, "lbu">>, <<5, "lhu">>}
            \cup (IF Xlen = 64 THEN {<<3, "ld">>, <<6, "lwu">>} ELSE {}), w.f3), w, decode_i_imm(w))
decode_store(w) ==
    Instr(Match({<<0, "sb">>, <<1, "sh">>, <<2, "sw">>} \cup (IF Xlen = 64 THEN {<<3, "sd">>} ELSE {}), w.f3),
          0, w.rs1, w.rs2, decode_s_imm(w), 0, 4)

(* The shifts ignore the lowest bit of funct7, bit 5 of the amount. *)
decode_op_imm(w) ==
    LET shift == Match({<<<<1, 0>>, "slli">>, <<<<5, 0>>, "srli">>, <<<<5, 32>>, "srai">>},
                       <<w.f3, w.f7 - (w.f7 % 2)>>)
        other == Match({<<0, "addi">>, <<2, "slti">>, <<3, "sltiu">>, <<4, "xori">>, <<6, "ori">>, <<7, "andi">>}, w.f3)
    IN IF w.f3 \in {1, 5} THEN I(shift, w, Shamt6(w)) ELSE I(other, w, decode_i_imm(w))
decode_op_imm_32(w) ==
    IF w.f3 = 0 THEN I("addiw", w, decode_i_imm(w))
    ELSE I(Match({<<<<1, 0>>, "slliw">>, <<<<5, 0>>, "srliw">>, <<<<5, 32>>, "sraiw">>}, <<w.f3, w.f7>>),
           w, Shamt5(w))
decode_op(w) ==
    R(Match({<<<<0, 0>>, "add">>, <<<<32, 0>>, "sub">>, <<<<0, 1>>, "sll">>, <<<<0, 2>>, "slt">>,
             <<<<0, 3>>, "sltu">>, <<<<0, 4>>, "xor">>, <<<<0, 5>>, "srl">>, <<<<32, 5>>, "sra">>,
             <<<<0, 6>>, "or">>, <<<<0, 7>>, "and">>}, <<w.f7, w.f3>>), w)
decode_op_32(w) ==
    R(Match({<<<<0, 0>>, "addw">>, <<<<32, 0>>, "subw">>, <<<<0, 1>>, "sllw">>, <<<<0, 5>>, "srlw">>,
             <<<<32, 5>>, "sraw">>}, <<w.f7, w.f3>>), w)
\* Mutated form: the register fields are not looked at.
decode_systemLoose(w) ==
    Bare(Match({<<0, "ecall">>, <<1, "ebreak">>, <<24 * 32 + 2, "mret">>}, Imm12(w)))

decode_system(w) ==
    IF w.rd # 0 \/ w.rs1 # 0 THEN None
    ELSE Bare(Match({<<0, "ecall">>, <<1, "ebreak">>, <<24 * 32 + 2, "mret">>}, Imm12(w)))

decode_32bit(w) ==
    CASE w.op = 55 -> Instr("lui", w.rd, 0, 0, decode_u_imm(w), 0, 4)
      [] w.op = 23 -> Instr("auipc", w.rd, 0, 0, decode_u_imm(w), 0, 4)
      [] w.op = 111 -> Instr("jal", w.rd, 0, 0, decode_j_imm(w), 0, 4)
      [] w.op = 103 /\ w.f3 = 0 -> I("jalr", w, decode_i_imm(w))
      [] w.op = 99 -> decode_branch(w)
      [] w.op = 3 -> decode_load(w)
      [] w.op = 35 -> decode_store(w)
      [] w.op = 19 -> decode_op_imm(w)
      [] w.op = 27 /\ Xlen = 64 -> decode_op_imm_32(w)
      [] w.op = 51 /\ w.f7 # 1 -> decode_op(w)
      [] w.op = 59 /\ Xlen = 64 /\ w.f7 # 1 -> decode_op_32(w)
      [] w.op = 15 /\ w.f3 = 0 -> Bare("fence")
      [] w.op = 115 /\ w.f3 = 0 -> decode_system(w)
      [] OTHER -> None

---------------------------------------------------------------------------------
(* m.rs, a.rs, zicsr.rs, zifencei.rs *)

decode_m(w) ==
    IF w.f7 # 1 THEN None
    ELSE IF w.op = 51
    THEN R(<<"mul", "mulh", "mulhsu", "mulhu", "div", "divu", "rem", "remu">>[w.f3 + 1], w)
    ELSE IF w.op = 59 /\ Xlen = 64
    THEN R(Match({<<0, "mulw">>, <<4, "divw">>, <<5, "divuw">>, <<6, "remw">>, <<7, "remuw">>}, w.f3), w)
    ELSE None

(* funct5 is the upper part of funct7, below it aq and rl. *)
decode_a_opid(f5, is_64) ==
    Match({<<2, IF is_64 THEN "lr.d" ELSE "lr.w">>, <<3, IF is_64 THEN "sc.d" ELSE "sc.w">>,
           <<1, IF is_64 THEN "amoswap.d" ELSE "amoswap.w">>, <<0, IF is_64 THEN "amoadd.d" ELSE "amoadd.w">>,
           <<4, IF is_64 THEN "amoxor.d" ELSE "amoxor.w">>, <<12, IF is_64 THEN "amoand.d" ELSE "amoand.w">>,
           <<8, IF is_64 THEN "amoor.d" ELSE "amoor.w">>, <<16, IF is_64 THEN "amomin.d" ELSE "amomin.w">>,
           <<20, IF is_64 THEN "amomax.d" ELSE "amomax.w">>, <<24, IF is_64 THEN "amominu.d" ELSE "amominu.w">>,
           <<28, IF is_64 THEN "amomaxu.d" ELSE "amomaxu.w">>}, f5)
decode_a(w) ==
    IF w.op = 47 /\ (w.f3 = 2 \/ (w.f3 = 3 /\ Xlen = 64))
    THEN R(decode_a_opid(w.f7 \div 4, w.f3 = 3), w) ELSE None

(* The immediate forms have their immediate in the rs1 field. *)
decode_zicsr(w) ==
    IF w.op # 115 \/ w.f3 = 0 THEN None
    ELSE IF w.f3 < 4
    THEN Instr(Match({<<1, "csrrw">>, <<2, "csrrs">>, <<3, "csrrc">>}, w.f3), w.rd, w.rs1, 0, 0, Imm12(w), 4)
    ELSE Instr(Match({<<5, "csrrwi">>, <<6, "csrrsi">>, <<7, "csrrci">>}, w.f3), w.rd, 0, 0, w.rs1, Imm12(w), 4)
decode_zifencei(w) == IF w.op = 15 /\ w.f3 = 1 THEN Bare("fence.i") ELSE None

---------------------------------------------------------------------------------
(* zba.rs, zbb.rs, zbs.rs, zbkb.rs, zicond.rs *)

decode_zba(w) ==
    IF w.op = 51 /\ w.f7 = 16
    THEN R(Match({<<2, "sh1add">>, <<4, "sh2add">>, <<6, "sh3add">>}, w.f3), w)
    ELSE IF w.op = 59 /\ Xlen = 64
    THEN R(Match({<<<<4, 0>>, "add.uw">>, <<<<16, 2>>, "sh1add.uw">>, <<<<16, 4>>, "sh2add.uw">>,
                  <<<<16, 6>>, "sh3add.uw">>}, <<w.f7, w.f3>>), w)
    ELSE IF w.op = 27 /\ Xlen = 64 /\ w.f3 = 1 /\ w.f7 \div 2 = 2 THEN I("slli.uw", w, Shamt6(w))
    ELSE None

zbb_op_rtype(w) ==
    IF w.f7 = 4 /\ w.f3 = 4 /\ w.rs2 = 0 /\ Xlen = 32 THEN I("zext.h", w, 0)
    ELSE R(Match({<<<<32, 7>>, "andn">>, <<<<32, 6>>, "orn">>, <<<<32, 4>>, "xnor">>,
                  <<<<5, 4>>, "min">>, <<<<5, 5>>, "minu">>, <<<<5, 6>>, "max">>, <<<<5, 7>>, "maxu">>,
                  <<<<48, 1>>, "rol">>, <<<<48, 5>>, "ror">>}, <<w.f7, w.f3>>), w)
zbb_op_imm(w) ==
    IF w.f3 = 1
    THEN I(Match({<<1536, "clz">>, <<1537, "ctz">>, <<1538, "cpop">>, <<1540, "sext.b">>, <<1541, "sext.h">>},
                 Imm12(w)), w, 0)
    ELSE IF w.f3 # 5 THEN None
    ELSE IF Imm12(w) = 647 THEN I("orc.b", w, 0)
    ELSE IF Imm12(w) = (IF Xlen = 32 THEN 1688 ELSE 1720) THEN I("rev8", w, 0)
    ELSE IF w.f7 \div 2 = 24 /\ (Xlen = 64 \/ w.f7 % 2 = 0)
    THEN I("rori", w, IF Xlen = 32 THEN Shamt5(w) ELSE Shamt6(w)) ELSE None
zbb_op_32(w) ==
    IF w.f7 = 4 /\ w.f3 = 4 /\ w.rs2 = 0 THEN I("zext.h", w, 0)
    ELSE R(Match({<<<<48, 1>>, "rolw">>, <<<<48, 5>>, "rorw">>}, <<w.f7, w.f3>>), w)
zbb_op_imm_32(w) ==
    IF w.f7 # 48 THEN None
    ELSE IF w.f3 = 1 THEN I(Match({<<0, "clzw">>, <<1, "ctzw">>, <<2, "cpopw">>}, w.rs2), w, 0)
    ELSE IF w.f3 = 5 THEN I("roriw", w, Shamt5(w)) ELSE None
decode_zbb(w) ==
    CASE w.op = 51 -> zbb_op_rtype(w)
      [] w.op = 19 -> zbb_op_imm(w)
      [] w.op = 59 /\ Xlen = 64 -> zbb_op_32(w)
      [] w.op = 27 /\ Xlen = 64 -> zbb_op_imm_32(w)
      [] OTHER -> None

decode_zbs(w) ==
    IF w.op = 51
    THEN R(Match({<<<<1, 36>>, "bclr">>, <<<<1, 52>>, "binv">>, <<<<1, 20>>, "bset">>, <<<<5, 36>>, "bext">>},
                 <<w.f3, w.f7>>), w)
    ELSE IF w.op = 19 /\ (Xlen = 64 \/ w.f7 % 2 = 0)
    THEN I(Match({<<<<1, 18>>, "bclri">>, <<<<1, 26>>, "binvi">>, <<<<1, 10>>, "bseti">>, <<<<5, 18>>, "bexti">>},
                 <<w.f3, w.f7 \div 2>>), w, IF Xlen = 32 THEN Shamt5(w) ELSE Shamt6(w))
    ELSE None

decode_zbkb(w) ==
    CASE w.op = 51 -> R(Match({<<<<4, 4>>, "pack">>, <<<<4, 7>>, "packh">>}, <<w.f7, w.f3>>), w)
      [] w.op = 19 -> I(Match({<<<<5, 1671>>, "brev8">>}
                              \cup (IF Xlen = 32 THEN {<<<<5, 143>>, "unzip">>, <<<<1, 143>>, "zip">>} ELSE {}),
                              <<w.f3, Imm12(w)>>), w, 0)
      [] w.op = 59 /\ Xlen = 64 /\ w.f7 = 4 /\ w.f3 = 4 -> R("packw", w)
      [] OTHER -> None

\* Mutated form: funct7 is not looked at.
decode_zicondLoose(w) ==
    IF w.op = 51 THEN R(Match({<<5, "czero.eqz">>, <<7, "czero.nez">>}, w.f3), w) ELSE None

decode_zicond(w) ==
    IF w.op = 51 /\ w.f7 = 7 THEN R(Match({<<5, "czero.eqz">>, <<7, "czero.nez">>}, w.f3), w) ELSE None
---------------------------------------------------------------------------------
(* c/decode.rs: the immediates of the compressed forms. *)

decode_addi4spn_imm(h) == Bits(h, 6, 1) * 4 + Bits(h, 5, 1) * 8 + Bits(h, 11, 2) * 16 + Bits(h, 7, 4) * 64
\* Mutated form: the two outer bits are swapped.
decode_cl_lw_offsetSwapped(h) == Bits(h, 5, 1) * 4 + Bits(h, 10, 3) * 8 + Bits(h, 6, 1) * 64

decode_cl_lw_offset(h) == Bits(h, 6, 1) * 4 + Bits(h, 10, 3) * 8 + Bits(h, 5, 1) * 64
decode_cl_ld_offset(h) == Bits(h, 10, 3) * 8 + Bits(h, 5, 2) * 64
decode_ci_shamt(h) == Bits(h, 2, 5) + Bits(h, 12, 1) * 32
decode_ci_imm(h) == SignExtend(decode_ci_shamt(h), 6)
decode_cj_imm(h) ==
    SignExtend(Bits(h, 3, 3) * 2 + Bits(h, 11, 1) * 16 + Bits(h, 2, 1) * 32 + Bits(h, 7, 1) * 64
               + Bits(h, 6, 1) * 128 + Bits(h, 9, 2) * 256 + Bits(h, 8, 1) * 1024 + Bits(h, 12, 1) * 2048, 12)
decode_ci16sp_imm(h) ==
    SignExtend(Bits(h, 6, 1) * 16 + Bits(h, 2, 1) * 32 + Bits(h, 5, 1) * 64 + Bits(h, 3, 2) * 128
               + Bits(h, 12, 1) * 512, 10)
decode_cb_imm(h) ==
    SignExtend(Bits(h, 3, 2) * 2 + Bits(h, 10, 2) * 8 + Bits(h, 2, 1) * 32 + Bits(h, 5, 2) * 64
               + Bits(h, 12, 1) * 256, 9)
decode_ci_lwsp_offset(h) == Bits(h, 4, 3) * 4 + Bits(h, 12, 1) * 32 + Bits(h, 2, 2) * 64
decode_css_swsp_offset(h) == Bits(h, 9, 4) * 4 + Bits(h, 7, 2) * 64
decode_ci_ldsp_offset(h) == Bits(h, 5, 2) * 8 + Bits(h, 12, 1) * 32 + Bits(h, 2, 3) * 64
decode_css_sdsp_offset(h) == Bits(h, 10, 3) * 8 + Bits(h, 7, 3) * 64

(* The register fields: five bits, or three that name x8 to x15. *)
Rd(h) == Bits(h, 7, 5)
Rs2(h) == Bits(h, 2, 5)
Rd3(h) == Bits(h, 7, 3) + 8
Rs23(h) == Bits(h, 2, 3) + 8
C(op, rd, rs1, rs2, imm) == Instr(op, rd, rs1, rs2, imm, 0, 2)

decode_q0(h, f3) ==
    CASE f3 = 0 /\ decode_addi4spn_imm(h) # 0 -> C("c.addi4spn", Rs23(h), 2, 0, decode_addi4spn_imm(h))
      [] f3 = 2 -> C("c.lw", Rs23(h), Rd3(h), 0, decode_cl_lw_offset(h))
      [] f3 = 3 /\ Xlen = 64 -> C("c.ld", Rs23(h), Rd3(h), 0, decode_cl_ld_offset(h))
      [] f3 = 6 -> C("c.sw", 0, Rd3(h), Rs23(h), decode_cl_lw_offset(h))
      [] f3 = 7 /\ Xlen = 64 -> C("c.sd", 0, Rd3(h), Rs23(h), decode_cl_ld_offset(h))
      [] OTHER -> None

decode_misc_alu(h) ==
    LET rd == Rd3(h)
        arith == Match({<<<<0, 0>>, "c.sub">>, <<<<0, 1>>, "c.xor">>, <<<<0, 2>>, "c.or">>, <<<<0, 3>>, "c.and">>}
                       \cup (IF Xlen = 64 THEN {<<<<1, 0>>, "c.subw">>, <<<<1, 1>>, "c.addw">>} ELSE {}),
                       <<Bits(h, 12, 1), Bits(h, 5, 2)>>)
    IN CASE Bits(h, 10, 2) = 0 -> C("c.srli", rd, rd, 0, decode_ci_shamt(h))
         [] Bits(h, 10, 2) = 1 -> C("c.srai", rd, rd, 0, decode_ci_shamt(h))
         [] Bits(h, 10, 2) = 2 -> C("c.andi", rd, rd, 0, decode_ci_imm(h))
         [] Bits(h, 10, 2) = 3 -> C(arith, rd, rd, Rs23(h), 0)

decode_q1(h, f3) ==
    LET rd == Rd(h)
        imm == decode_ci_imm(h)
        sp == decode_ci16sp_imm(h)
    IN CASE f3 = 0 -> IF rd = 0 /\ imm = 0 THEN C("c.nop", 0, 0, 0, 0) ELSE C("c.addi", rd, rd, 0, imm)
         [] f3 = 1 -> IF Xlen = 32 THEN C("c.jal", 1, 0, 0, decode_cj_imm(h))
                      ELSE IF rd = 0 THEN None ELSE C("c.addiw", rd, rd, 0, imm)
         [] f3 = 2 -> C("c.li", rd, 0, 0, imm)
         [] f3 = 3 -> IF rd = 2 THEN IF sp = 0 THEN None ELSE C("c.addi16sp", 2, 2, 0, sp)
                      ELSE IF imm = 0 \/ rd = 0 THEN None ELSE C("c.lui", rd, 0, 0, imm)
         [] f3 = 4 -> decode_misc_alu(h)
         [] f3 = 5 -> C("c.j", 0, 0, 0, decode_cj_imm(h))
         [] f3 = 6 -> C("c.beqz", 0, Rd3(h), 0, decode_cb_imm(h))
         [] f3 = 7 -> C("c.bnez", 0, Rd3(h), 0, decode_cb_imm(h))

decode_q2(h, f3) ==
    LET rd == Rd(h)
        rs2 == Rs2(h)
    IN CASE f3 = 0 /\ rd # 0 -> C("c.slli", rd, rd, 0, decode_ci_shamt(h))
         [] f3 = 2 /\ rd # 0 -> C("c.lwsp", rd, 2, 0, decode_ci_lwsp_offset(h))
         [] f3 = 3 /\ Xlen = 64 /\ rd # 0 -> C("c.ldsp", rd, 2, 0, decode_ci_ldsp_offset(h))
         [] f3 = 4 /\ Bits(h, 12, 1) = 0 /\ rs2 # 0 -> C("c.mv", rd, 0, rs2, 0)
         [] f3 = 4 /\ Bits(h, 12, 1) = 0 /\ rs2 = 0 /\ rd # 0 -> C("c.jr", 0, rd, 0, 0)
         [] f3 = 4 /\ Bits(h, 12, 1) = 1 /\ rs2 # 0 -> C("c.add", rd, rd, rs2, 0)
         [] f3 = 4 /\ Bits(h, 12, 1) = 1 /\ rs2 = 0 /\ rd # 0 -> C("c.jalr", 1, rd, 0, 0)
         [] f3 = 4 /\ Bits(h, 12, 1) = 1 /\ rs2 = 0 /\ rd = 0 -> C("c.ebreak", 0, 0, 0, 0)
         [] f3 = 6 -> C("c.swsp", 0, 2, rs2, decode_css_swsp_offset(h))
         [] f3 = 7 /\ Xlen = 64 -> C("c.sdsp", 0, 2, rs2, decode_css_sdsp_offset(h))
         [] OTHER -> None

(* An illegal parcel is an instruction of its own, which lifts to a trap. *)
decode16(h) ==
    LET f3 == Bits(h, 13, 3)
        i == CASE h % 4 = 0 -> decode_q0(h, f3) [] h % 4 = 1 -> decode_q1(h, f3) [] OTHER -> decode_q2(h, f3)
    IN IF i = None THEN C("c.invalid", 0, 0, 0, h) ELSE i

---------------------------------------------------------------------------------
(* extensions/mod.rs: the registry. *)

Fields(b) ==
    [op |-> Bits(b.lo, 0, 7), rd |-> Bits(b.lo, 7, 5), f3 |-> Bits(b.lo, 12, 3),
     rs1 |-> Bits(b.lo, 15, 1) + 2 * Bits(b.hi, 0, 4), rs2 |-> Bits(b.hi, 4, 5), f7 |-> Bits(b.hi, 9, 7)]

(* ExtensionRegistry::standard, in the order of its list. *)
Standard == <<"C", "I", "M", "A", "Zicsr", "Zifencei", "Zba", "Zbb", "Zbs", "Zbkb", "Zicond">>

decode32(ext, w) ==
    CASE ext = "C" -> None
      [] ext = "I" -> decode_32bit(w)
      [] ext = "M" -> decode_m(w)
      [] ext = "A" -> decode_a(w)
      [] ext = "Zicsr" -> decode_zicsr(w)
      [] ext = "Zifencei" -> decode_zifencei(w)
      [] ext = "Zba" -> decode_zba(w)
      [] ext = "Zbb" -> decode_zbb(w)
      [] ext = "Zbs" -> decode_zbs(w)
      [] ext = "Zbkb" -> decode_zbkb(w)
      [] ext = "Zicond" -> decode_zicond(w)

(* InstructionExtension::decode; only C has a decode16. *)
ext_decode(ext, b) ==
    IF b.n < 2 THEN None
    ELSE IF b.lo % 4 # 3 THEN IF ext = "C" THEN decode16(b.lo) ELSE None
    ELSE IF b.n >= 4 THEN decode32(ext, Fields(b)) ELSE None

(* ExtensionRegistry::decode: the first extension that claims the bytes. *)
Claimants(b, extensions) == {k \in 1..Len(extensions) : ext_decode(extensions[k], b) # None}
decode(b, extensions) ==
    LET claims == Claimants(b, extensions)
    IN IF claims = {} THEN None
       ELSE ext_decode(extensions[CHOOSE k \in claims : \A j \in claims : k <= j], b)
=================================================================================
