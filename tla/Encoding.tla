-------------------------------- MODULE Encoding --------------------------------
(***************************************************************************)
(* The instruction formats of the RISC-V manual, as the reference the      *)
(* decoders are checked against: for every instruction the layout of its   *)
(* bits and the operands it may have.                                      *)
(*                                                                         *)
(* A layout lists the fields of the word from the most significant bit     *)
(* down: <<"is", w, v>> is w fixed bits of value v, <<"reg", w, name>> a   *)
(* register field (three bits name x8 to x15), <<"imm", bits>> the listed  *)
(* bits of the immediate, <<"csr">> the twelve bits of a CSR number.       *)
(***************************************************************************)
EXTENDS Integers, Sequences

CONSTANTS XLEN, RegSample, CsrSample, ImmSample(_)

Down(hi, lo) == [k \in 1..(hi - lo + 1) |-> hi + 1 - k]
Is(w, v) == <<"is", w, v>>
Imm(bits) == <<"imm", bits>>
Low(x, n) == x % 2^n
Bit(x, k) == (x \div 2^k) % 2

Gather(x, bits) ==
    LET G[k \in 0..Len(bits)] == IF k = 0 THEN 0 ELSE 2 * G[k - 1] + Bit(x, bits[k])
    IN G[Len(bits)]
Width(f) == CASE f[1] \in {"is", "reg"} -> f[2] [] f[1] = "imm" -> Len(f[2]) [] f[1] = "csr" -> 12
Value(f, i) ==
    CASE f[1] = "is" -> f[3]
      [] f[1] = "reg" -> IF f[2] = 3 THEN i[f[3]] - 8 ELSE i[f[3]]
      [] f[1] = "imm" -> Gather(i.imm, f[2])
      [] f[1] = "csr" -> i.csr

(* The fields joined from the left, in two parcels of 16 bits. *)
Join(acc, w, v) ==
    LET low == acc[2] * 2^w + v
    IN <<(acc[1] * 2^w + low \div 2^16) % 2^16, low % 2^16>>
Encode(layout, i) ==
    LET J[k \in 0..Len(layout)] ==
            IF k = 0 THEN <<0, 0>> ELSE Join(J[k - 1], Width(layout[k]), Value(layout[k], i))
        word == J[Len(layout)]
    IN [n |-> i.size, lo |-> word[2], hi |-> word[1]]

---------------------------------------------------------------------------------
(* 32-bit formats. *)

RD == <<"reg", 5, "rd">>
RS1 == <<"reg", 5, "rs1">>
RS2 == <<"reg", 5, "rs2">>
RType(op, f3, f7) == <<Is(7, f7), RS2, RS1, Is(3, f3), RD, Is(7, op)>>
IType(op, f3) == <<Imm(Down(11, 0)), RS1, Is(3, f3), RD, Is(7, op)>>
Shift6(op, f3, f6) == <<Is(6, f6), Imm(Down(5, 0)), RS1, Is(3, f3), RD, Is(7, op)>>
Shift5(op, f3, f7) == <<Is(7, f7), Imm(Down(4, 0)), RS1, Is(3, f3), RD, Is(7, op)>>
Unary(op, f3, i12) == <<Is(12, i12), RS1, Is(3, f3), RD, Is(7, op)>>
SType(f3) == <<Imm(Down(11, 5)), RS2, RS1, Is(3, f3), Imm(Down(4, 0)), Is(7, 35)>>
BType(f3) == <<Imm(<<12>> \o Down(10, 5)), RS2, RS1, Is(3, f3), Imm(Down(4, 1) \o <<11>>), Is(7, 99)>>
UType(op) == <<Imm(Down(19, 10)), Imm(Down(9, 0)), RD, Is(7, op)>>
JType == <<Imm(<<20>> \o Down(10, 1)), Imm(<<11>> \o Down(19, 12)), RD, Is(7, 111)>>
CsrType(f3) == <<<<"csr">>, RS1, Is(3, f3), RD, Is(7, 115)>>
CsrIType(f3) == <<<<"csr">>, Imm(Down(4, 0)), Is(3, f3), RD, Is(7, 115)>>
Fixed(i12) == <<Is(12, i12), Is(5, 0), Is(3, 0), Is(5, 0), Is(7, 115)>>

OP == 51
OP_32 == 59
OP_IMM == 19
OP_IMM_32 == 27

Layouts32 ==
    { <<"lui", UType(55)>>, <<"auipc", UType(23)>>, <<"jal", JType>>, <<"jalr", IType(103, 0)>>,
      <<"beq", BType(0)>>, <<"bne", BType(1)>>, <<"blt", BType(4)>>, <<"bge", BType(5)>>, <<"bltu", BType(6)>>,
      <<"bgeu", BType(7)>>, <<"lb", IType(3, 0)>>, <<"lh", IType(3, 1)>>, <<"lw", IType(3, 2)>>,
      <<"lbu", IType(3, 4)>>, <<"lhu", IType(3, 5)>>, <<"sb", SType(0)>>, <<"sh", SType(1)>>, <<"sw", SType(2)>>,
      <<"addi", IType(OP_IMM, 0)>>, <<"slti", IType(OP_IMM, 2)>>, <<"sltiu", IType(OP_IMM, 3)>>,
      <<"xori", IType(OP_IMM, 4)>>, <<"ori", IType(OP_IMM, 6)>>, <<"andi", IType(OP_IMM, 7)>>,
      <<"slli", Shift6(OP_IMM, 1, 0)>>, <<"srli", Shift6(OP_IMM, 5, 0)>>, <<"srai", Shift6(OP_IMM, 5, 16)>>,
      <<"add", RType(OP, 0, 0)>>, <<"sub", RType(OP, 0, 32)>>, <<"sll", RType(OP, 1, 0)>>, <<"slt", RType(OP, 2, 0)>>,
      <<"sltu", RType(OP, 3, 0)>>, <<"xor", RType(OP, 4, 0)>>, <<"srl", RType(OP, 5, 0)>>, <<"sra", RType(OP, 5, 32)>>,
      <<"or", RType(OP, 6, 0)>>, <<"and", RType(OP, 7, 0)>>,
      <<"ecall", Fixed(0)>>, <<"ebreak", Fixed(1)>>, <<"mret", Fixed(770)>>,
      <<"fence", <<Is(12, 0), Is(13, 0), Is(7, 15)>>>>, <<"fence.i", <<Is(17, 0), Is(3, 1), Is(5, 0), Is(7, 15)>>>>,
      <<"mul", RType(OP, 0, 1)>>, <<"mulh", RType(OP, 1, 1)>>, <<"mulhsu", RType(OP, 2, 1)>>, <<"mulhu", RType(OP, 3, 1)>>,
      <<"div", RType(OP, 4, 1)>>, <<"divu", RType(OP, 5, 1)>>, <<"rem", RType(OP, 6, 1)>>, <<"remu", RType(OP, 7, 1)>>,
      <<"lr.w", RType(47, 2, 8)>>, <<"sc.w", RType(47, 2, 12)>>, <<"amoswap.w", RType(47, 2, 4)>>,
      <<"amoadd.w", RType(47, 2, 0)>>, <<"amoxor.w", RType(47, 2, 16)>>, <<"amoand.w", RType(47, 2, 48)>>,
      <<"amoor.w", RType(47, 2, 32)>>, <<"amomin.w", RType(47, 2, 64)>>, <<"amomax.w", RType(47, 2, 80)>>,
      <<"amominu.w", RType(47, 2, 96)>>, <<"amomaxu.w", RType(47, 2, 112)>>,
      <<"csrrw", CsrType(1)>>, <<"csrrs", CsrType(2)>>, <<"csrrc", CsrType(3)>>,
      <<"csrrwi", CsrIType(5)>>, <<"csrrsi", CsrIType(6)>>, <<"csrrci", CsrIType(7)>>,
      <<"sh1add", RType(OP, 2, 16)>>, <<"sh2add", RType(OP, 4, 16)>>, <<"sh3add", RType(OP, 6, 16)>>,
      <<"andn", RType(OP, 7, 32)>>, <<"orn", RType(OP, 6, 32)>>, <<"xnor", RType(OP, 4, 32)>>,
      <<"min", RType(OP, 4, 5)>>, <<"minu", RType(OP, 5, 5)>>, <<"max", RType(OP, 6, 5)>>, <<"maxu", RType(OP, 7, 5)>>,
      <<"rol", RType(OP, 1, 48)>>, <<"ror", RType(OP, 5, 48)>>, <<"rori", Shift6(OP_IMM, 5, 24)>>,
      <<"clz", Unary(OP_IMM, 1, 1536)>>, <<"ctz", Unary(OP_IMM, 1, 1537)>>, <<"cpop", Unary(OP_IMM, 1, 1538)>>,
      <<"sext.b", Unary(OP_IMM, 1, 1540)>>, <<"sext.h", Unary(OP_IMM, 1, 1541)>>, <<"orc.b", Unary(OP_IMM, 5, 647)>>,
      <<"rev8", Unary(OP_IMM, 5, IF XLEN = 32 THEN 1688 ELSE 1720)>>,
      <<"zext.h", Unary(IF XLEN = 32 THEN OP ELSE OP_32, 4, 128)>>,
      <<"bclr", RType(OP, 1, 36)>>, <<"binv", RType(OP, 1, 52)>>, <<"bset", RType(OP, 1, 20)>>, <<"bext", RType(OP, 5, 36)>>,
      <<"bclri", Shift6(OP_IMM, 1, 18)>>, <<"binvi", Shift6(OP_IMM, 1, 26)>>, <<"bseti", Shift6(OP_IMM, 1, 10)>>,
      <<"bexti", Shift6(OP_IMM, 5, 18)>>,
      <<"pack", RType(OP, 4, 4)>>, <<"packh", RType(OP, 7, 4)>>, <<"brev8", Unary(OP_IMM, 5, 1671)>>,
      <<"czero.eqz", RType(OP, 5, 7)>>, <<"czero.nez", RType(OP, 7, 7)>> }
    \cup (IF XLEN = 32 THEN { <<"zip", Unary(OP_IMM, 1, 143)>>, <<"unzip", Unary(OP_IMM, 5, 143)>> }
    ELSE
    { <<"ld", IType(3, 3)>>, <<"lwu", IType(3, 6)>>, <<"sd", SType(3)>>, <<"addiw", IType(OP_IMM_32, 0)>>,
      <<"slliw", Shift5(OP_IMM_32, 1, 0)>>, <<"srliw", Shift5(OP_IMM_32, 5, 0)>>, <<"sraiw", Shift5(OP_IMM_32, 5, 32)>>,
      <<"addw", RType(OP_32, 0, 0)>>, <<"subw", RType(OP_32, 0, 32)>>, <<"sllw", RType(OP_32, 1, 0)>>,
      <<"srlw", RType(OP_32, 5, 0)>>, <<"sraw", RType(OP_32, 5, 32)>>,
      <<"mulw", RType(OP_32, 0, 1)>>, <<"divw", RType(OP_32, 4, 1)>>, <<"divuw", RType(OP_32, 5, 1)>>,
      <<"remw", RType(OP_32, 6, 1)>>, <<"remuw", RType(OP_32, 7, 1)>>,
      <<"lr.d", RType(47, 3, 8)>>, <<"sc.d", RType(47, 3, 12)>>, <<"amoswap.d", RType(47, 3, 4)>>,
      <<"amoadd.d", RType(47, 3, 0)>>, <<"amoxor.d", RType(47, 3, 16)>>, <<"amoand.d", RType(47, 3, 48)>>,
      <<"amoor.d", RType(47, 3, 32)>>, <<"amomin.d", RType(47, 3, 64)>>, <<"amomax.d", RType(47, 3, 80)>>,
      <<"amominu.d", RType(47, 3, 96)>>, <<"amomaxu.d", RType(47, 3, 112)>>,
      <<"add.uw", RType(OP_32, 0, 4)>>, <<"sh1add.uw", RType(OP_32, 2, 16)>>, <<"sh2add.uw", RType(OP_32, 4, 16)>>,
      <<"sh3add.uw", RType(OP_32, 6, 16)>>, <<"slli.uw", Shift6(OP_IMM_32, 1, 2)>>,
      <<"rolw", RType(OP_32, 1, 48)>>, <<"rorw", RType(OP_32, 5, 48)>>, <<"roriw", Shift5(OP_IMM_32, 5, 48)>>,
      <<"clzw", Unary(OP_IMM_32, 1, 1536)>>, <<"ctzw", Unary(OP_IMM_32, 1, 1537)>>,
      <<"cpopw", Unary(OP_IMM_32, 1, 1538)>>, <<"packw", RType(OP_32, 4, 4)>> })

---------------------------------------------------------------------------------
(* 16-bit formats. *)

RDp == <<"reg", 3, "rd">>
RS1p == <<"reg", 3, "rs1">>
RS2p == <<"reg", 3, "rs2">>
CI(q, f3, hi, lo) == <<Is(3, f3), Imm(hi), RD, Imm(lo), Is(2, q)>>
CJ(f3) == <<Is(3, f3), Imm(<<11, 4, 9, 8, 10, 6, 7, 3, 2, 1, 5>>), Is(2, 1)>>
CB(f3) == <<Is(3, f3), Imm(<<8, 4, 3>>), RS1p, Imm(<<7, 6, 2, 1, 5>>), Is(2, 1)>>
CA(f6, f2) == <<Is(6, f6), RDp, Is(2, f2), RS2p, Is(2, 1)>>
CShift(f2) == <<Is(3, 4), Imm(<<5>>), Is(2, f2), RDp, Imm(Down(4, 0)), Is(2, 1)>>

Layouts16 ==
    { <<"c.addi4spn", <<Is(3, 0), Imm(<<5, 4, 9, 8, 7, 6, 2, 3>>), RDp, Is(2, 0)>>>>,
      <<"c.lw", <<Is(3, 2), Imm(<<5, 4, 3>>), RS1p, Imm(<<2, 6>>), RDp, Is(2, 0)>>>>,
      <<"c.sw", <<Is(3, 6), Imm(<<5, 4, 3>>), RS1p, Imm(<<2, 6>>), RS2p, Is(2, 0)>>>>,
      <<"c.nop", <<Is(14, 0), Is(2, 1)>>>>, <<"c.addi", CI(1, 0, <<5>>, Down(4, 0))>>,
      <<"c.li", CI(1, 2, <<5>>, Down(4, 0))>>, <<"c.lui", CI(1, 3, <<5>>, Down(4, 0))>>,
      <<"c.addi16sp", <<Is(3, 3), Imm(<<9>>), Is(5, 2), Imm(<<4, 6, 8, 7, 5>>), Is(2, 1)>>>>,
      <<"c.srli", CShift(0)>>, <<"c.srai", CShift(1)>>, <<"c.andi", CShift(2)>>,
      <<"c.sub", CA(35, 0)>>, <<"c.xor", CA(35, 1)>>, <<"c.or", CA(35, 2)>>, <<"c.and", CA(35, 3)>>,
      <<"c.j", CJ(5)>>, <<"c.beqz", CB(6)>>, <<"c.bnez", CB(7)>>,
      <<"c.slli", CI(2, 0, <<5>>, Down(4, 0))>>, <<"c.lwsp", CI(2, 2, <<5>>, <<4, 3, 2, 7, 6>>)>>,
      <<"c.jr", <<Is(4, 8), RS1, Is(7, 2)>>>>, <<"c.mv", <<Is(4, 8), RD, RS2, Is(2, 2)>>>>,
      <<"c.ebreak", <<Is(4, 9), Is(10, 0), Is(2, 2)>>>>, <<"c.jalr", <<Is(4, 9), RS1, Is(7, 2)>>>>,
      <<"c.add", <<Is(4, 9), RD, RS2, Is(2, 2)>>>>,
      <<"c.swsp", <<Is(3, 6), Imm(<<5, 4, 3, 2, 7, 6>>), RS2, Is(2, 2)>>>> }
    \cup (IF XLEN = 32 THEN { <<"c.jal", CJ(1)>> }
    ELSE
    { <<"c.ld", <<Is(3, 3), Imm(<<5, 4, 3>>), RS1p, Imm(<<7, 6>>), RDp, Is(2, 0)>>>>,
      <<"c.sd", <<Is(3, 7), Imm(<<5, 4, 3>>), RS1p, Imm(<<7, 6>>), RS2p, Is(2, 0)>>>>,
      <<"c.addiw", CI(1, 1, <<5>>, Down(4, 0))>>, <<"c.subw", CA(39, 0)>>, <<"c.addw", CA(39, 1)>>,
      <<"c.ldsp", CI(2, 3, <<5>>, <<4, 3, 8, 7, 6>>)>>,
      <<"c.sdsp", <<Is(3, 7), Imm(<<5, 4, 3, 8, 7, 6>>), RS2, Is(2, 2)>>>> })

Layouts == Layouts32 \cup Layouts16
Instructions == {l[1] : l \in Layouts}
LayoutOf(op) == (CHOOSE l \in Layouts : l[1] = op)[2]

---------------------------------------------------------------------------------
(* The operands an instruction may have. *)

HasReg(l, name) == \E k \in 1..Len(l) : l[k][1] = "reg" /\ l[k][3] = name
RegWidth(l, name) == (CHOOSE k \in 1..Len(l) : l[k][1] = "reg" /\ l[k][3] = name)
ImmBits(l) == UNION {{l[k][2][j] : j \in 1..Len(l[k][2])} : k \in {k \in 1..Len(l) : l[k][1] = "imm"}}

Unsigned ==
    {"slli", "srli", "srai", "slliw", "srliw", "sraiw", "rori", "roriw", "bclri", "binvi", "bseti", "bexti",
     "slli.uw", "csrrwi", "csrrsi", "csrrci", "c.slli", "c.srli", "c.srai", "c.addi4spn", "c.lw", "c.sw", "c.ld",
     "c.sd", "c.lwsp", "c.swsp", "c.ldsp", "c.sdsp"}
Signed(x, top) == IF x >= 2^top THEN x - 2^(top + 1) ELSE x
ImmsOf(op) ==
    LET bits == ImmBits(LayoutOf(op))
        top == CHOOSE k \in bits : \A j \in bits : j <= k
    IN IF bits = {} THEN {0}
       ELSE {x \in {IF op \in Unsigned THEN y ELSE Signed(y, top) : y \in ImmSample(top + 1)} :
                \A k \in 0..top : k \in bits \/ Bit(x, k) = 0}

RegRange(l, name, otherwise) ==
    IF ~HasReg(l, name) THEN otherwise
    ELSE IF l[RegWidth(l, name)][2] = 3 THEN {r \in RegSample : r \in 8..15} ELSE RegSample

(* Two-operand forms name one register for rd and rs1; the sp and link forms name none. *)
Fold1 == {"c.addi", "c.addiw", "c.srli", "c.srai", "c.andi", "c.sub", "c.xor", "c.or", "c.and", "c.subw", "c.addw",
          "c.slli", "c.add"}
ImpliedRd(op) == IF op \in {"c.jal", "c.jalr"} THEN 1 ELSE IF op = "c.addi16sp" THEN 2 ELSE 0
ImpliedRs1(op) == IF op \in {"c.addi4spn", "c.addi16sp", "c.lwsp", "c.ldsp", "c.swsp", "c.sdsp"} THEN 2 ELSE 0

(* The reserved encodings of the manual; a shift amount fits XLEN.  A HINT *)
(* is an instruction like any other.                                       *)
Allowed(i) ==
    /\ i.op \in {"c.addi4spn", "c.addi16sp", "c.lui"} => i.imm # 0
    /\ i.op = "c.lui" => i.rd # 2
    /\ i.op \in {"c.addiw", "c.lwsp", "c.ldsp"} => i.rd # 0
    /\ i.op \in {"c.jr", "c.jalr"} => i.rs1 # 0
    /\ i.op \in {"c.mv", "c.add"} => i.rs2 # 0
    /\ i.op = "c.addi" => i.rd # 0 \/ i.imm # 0
    /\ i.op \in {"pack", "packw"} /\ i.op = (IF XLEN = 32 THEN "pack" ELSE "packw") => i.rs2 # 0
    /\ XLEN = 32 /\ i.op \in {"slli", "srli", "srai", "rori", "bclri", "binvi", "bseti", "bexti",
                              "c.slli", "c.srli", "c.srai"} => i.imm < 32

(* The registers and CSRs a layout has room for, and an instruction with given operands. *)
Rds(op) == RegRange(LayoutOf(op), "rd", {ImpliedRd(op)})
Rs1s(op) == IF op \in Fold1 THEN {0} ELSE RegRange(LayoutOf(op), "rs1", {ImpliedRs1(op)})
Rs2s(op) == RegRange(LayoutOf(op), "rs2", {0})
Csrs(op) == IF \E k \in 1..Len(LayoutOf(op)) : LayoutOf(op)[k][1] = "csr" THEN CsrSample ELSE {0}
With(op, rd, rs1, rs2, imm, csr) ==
    [op |-> op, rd |-> rd, rs1 |-> IF op \in Fold1 THEN rd ELSE rs1, rs2 |-> rs2, imm |-> imm, csr |-> csr,
     size |-> IF \E l \in Layouts16 : l[1] = op THEN 2 ELSE 4]
=================================================================================
