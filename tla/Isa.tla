----------------------------------- MODULE Isa ----------------------------------
(***************************************************************************)
(* What the RISC-V instruction set says one instruction does: the          *)
(* reference the lifted and rendered code is compared with.  Results are   *)
(* stated on integers and on bit positions, not with the helpers of the    *)
(* generated code.  A compressed instruction is its expansion.             *)
(***************************************************************************)
EXTENDS Word

CONSTANT MemSize       \* bytes of memory, a power of two

---------------------------------------------------------------------------------
(* Integer results. *)

S(x) == Signed(x, W)
U32(x) == Low(x, W32)
SW(x) == Signed(x, W32)
X(v) == v % 2^W                    \* any integer, as a register
XW(v) == X(Signed(v, W32))         \* any integer, as a sign-extended word

Quotient(a, b) == IF (a < 0) = (b < 0) THEN Abs(a) \div Abs(b) ELSE -(Abs(a) \div Abs(b))
DivOf(a, b) == IF b = 0 THEN -1 ELSE Quotient(a, b)
RemOf(a, b) == IF b = 0 THEN a ELSE a - b * Quotient(a, b)

(* The upper half of the unsigned product from the signed one: each         *)
(* negative operand stands for itself plus 2^W.                             *)
MulhOf(a, b) == (S(a) * S(b)) \div 2^W
MulhuOf(a, b) == MulhOf(a, b) + (IF S(a) < 0 THEN b ELSE 0) + (IF S(b) < 0 THEN a ELSE 0)
                              - (IF S(a) < 0 /\ S(b) < 0 THEN 2^W ELSE 0)
MulhsuOf(a, b) == MulhOf(a, b) + (IF S(b) < 0 THEN S(a) ELSE 0)

(* Bits. *)
On(x, k) == BitOf(x, k) = 1
Rotated(x, n, k) == OfBits(LAMBDA b : On(x, (b + k) % n), n)
Bitwise(a, b, on) == OfBits(LAMBDA k : <<BitOf(a, k), BitOf(b, k)>> \in on, W)
AND == {<<1, 1>>}
OR == {<<1, 1>>, <<0, 1>>, <<1, 0>>}
XOR == {<<0, 1>>, <<1, 0>>}
LeadingZeros(x, n) == Cardinality({k \in 0 .. n - 1 : \A j \in k .. n - 1 : ~On(x, j)})
TrailingZeros(x, n) == Cardinality({k \in 0 .. n - 1 : \A j \in 0 .. k : ~On(x, j)})
Ones(x, n) == Cardinality({k \in 0 .. n - 1 : On(x, k)})
ByteAt(k) == k - (k % Byte)

(* Register-register results of the operations on a = rs1 and b = rs2, with *)
(* b the immediate in their immediate forms.                                *)
Result(op, a, b) ==
    CASE op \in {"add", "addi"} -> X(a + b)
      [] op = "sub" -> X(a - b)
      [] op \in {"sll", "slli"} -> X(a * 2^(b % W))
      [] op \in {"srl", "srli"} -> a \div 2^(b % W)
      [] op \in {"sra", "srai"} -> X(S(a) \div 2^(b % W))
      [] op \in {"slt", "slti"} -> IF S(a) < S(b) THEN 1 ELSE 0
      [] op \in {"sltu", "sltiu"} -> IF a < b THEN 1 ELSE 0
      [] op \in {"xor", "xori"} -> Bitwise(a, b, XOR)
      [] op \in {"or", "ori"} -> Bitwise(a, b, OR)
      [] op \in {"and", "andi"} -> Bitwise(a, b, AND)
      [] op \in {"addw", "addiw"} -> XW(a + b)
      [] op = "subw" -> XW(a - b)
      [] op \in {"sllw", "slliw"} -> XW(U32(a) * 2^(b % W32))
      [] op \in {"srlw", "srliw"} -> XW(U32(a) \div 2^(b % W32))
      [] op \in {"sraw", "sraiw"} -> XW(SW(a) \div 2^(b % W32))
      [] op = "mul" -> Mul(a, b)
      [] op = "mulh" -> X(MulhOf(a, b))
      [] op = "mulhsu" -> X(MulhsuOf(a, b))
      [] op = "mulhu" -> X(MulhuOf(a, b))
      [] op = "div" -> X(DivOf(S(a), S(b)))      [] op = "divu" -> X(DivOf(a, b))
      [] op = "rem" -> X(RemOf(S(a), S(b)))      [] op = "remu" -> X(RemOf(a, b))
      [] op = "mulw" -> XW(Mul(a, b))
      [] op = "divw" -> XW(DivOf(SW(a), SW(b)))  [] op = "divuw" -> XW(DivOf(U32(a), U32(b)))
      [] op = "remw" -> XW(RemOf(SW(a), SW(b)))  [] op = "remuw" -> XW(RemOf(U32(a), U32(b)))
      [] op = "sh1add" -> X(2 * a + b)           [] op = "sh1add.uw" -> X(2 * U32(a) + b)
      [] op = "sh2add" -> X(4 * a + b)           [] op = "sh2add.uw" -> X(4 * U32(a) + b)
      [] op = "sh3add" -> X(8 * a + b)           [] op = "sh3add.uw" -> X(8 * U32(a) + b)
      [] op = "add.uw" -> X(U32(a) + b)          [] op = "slli.uw" -> X(U32(a) * 2^b)
      [] op = "andn" -> Bitwise(a, b, {<<1, 0>>})
      [] op = "orn" -> Bitwise(a, b, {<<1, 0>>, <<1, 1>>, <<0, 0>>})
      [] op = "xnor" -> Bitwise(a, b, {<<0, 0>>, <<1, 1>>})
      [] op = "clz" -> LeadingZeros(a, W)        [] op = "clzw" -> LeadingZeros(a, W32)
      [] op = "ctz" -> TrailingZeros(a, W)       [] op = "ctzw" -> TrailingZeros(a, W32)
      [] op = "cpop" -> Ones(a, W)               [] op = "cpopw" -> Ones(a, W32)
      [] op = "max" -> IF S(a) >= S(b) THEN a ELSE b
      [] op = "min" -> IF S(a) <= S(b) THEN a ELSE b
      [] op = "maxu" -> IF a >= b THEN a ELSE b
      [] op = "minu" -> IF a <= b THEN a ELSE b
      [] op = "sext.b" -> X(Signed(a, Byte))     [] op = "sext.h" -> X(Signed(a, 2 * Byte))
      [] op = "zext.h" -> a % 2^(2 * Byte)
      [] op = "rol" -> Rotated(a, W, W - (b % W))
      [] op \in {"ror", "rori"} -> Rotated(a, W, b % W)
      [] op = "rolw" -> XW(Rotated(a, W32, W32 - (b % W32)))
      [] op \in {"rorw", "roriw"} -> XW(Rotated(a, W32, b % W32))
      [] op = "orc.b" -> OfBits(LAMBDA k : \E j \in 0 .. Byte - 1 : On(a, ByteAt(k) + j), W)
      [] op = "rev8" -> OfBits(LAMBDA k : On(a, W - Byte - ByteAt(k) + (k % Byte)), W)
      [] op = "brev8" -> OfBits(LAMBDA k : On(a, ByteAt(k) + Byte - 1 - (k % Byte)), W)
      [] op = "zip" -> OfBits(LAMBDA k : On(a, (k \div 2) + (IF k % 2 = 1 THEN W \div 2 ELSE 0)), W)
      [] op = "unzip" -> OfBits(LAMBDA k : On(a, IF k < W \div 2 THEN 2 * k ELSE 2 * k - W + 1), W)
      [] op \in {"bclr", "bclri"} -> OfBits(LAMBDA k : On(a, k) /\ k # b % W, W)
      [] op \in {"bset", "bseti"} -> OfBits(LAMBDA k : On(a, k) \/ k = b % W, W)
      [] op \in {"binv", "binvi"} -> OfBits(LAMBDA k : On(a, k) # (k = b % W), W)
      [] op \in {"bext", "bexti"} -> BitOf(a, b % W)
      [] op = "pack" -> OfBits(LAMBDA k : IF k < W \div 2 THEN On(a, k) ELSE On(b, k - W \div 2), W)
      [] op = "packh" -> (a % 2^Byte) + 2^Byte * (b % 2^Byte)
      [] op = "packw" -> XW((a % 2^(2 * Byte)) + 2^(2 * Byte) * (b % 2^(2 * Byte)))
      [] op = "czero.eqz" -> IF b = 0 THEN 0 ELSE a
      [] op = "czero.nez" -> IF b # 0 THEN 0 ELSE a

Taken(op, a, b) ==
    CASE op = "beq" -> a = b            [] op = "bne" -> a # b
      [] op = "blt" -> S(a) < S(b)      [] op = "bge" -> S(a) >= S(b)
      [] op = "bltu" -> a < b           [] op = "bgeu" -> a >= b

(* New memory operand of an atomic operation on the old one and rs2, both   *)
(* as registers of the access width.                                        *)
Atomic(op, width, old, b) ==
    LET n == Byte * width
        o == Signed(old, n)
        v == Signed(b, n)
        uo == Low(old, n)
        uv == Low(b, n)
    IN CASE op = "swap" -> uv
         [] op = "add" -> Low(o + v, n)
         [] op = "xor" -> Bitwise(uo, uv, XOR)
         [] op = "or" -> Bitwise(uo, uv, OR)
         [] op = "and" -> Bitwise(uo, uv, AND)
         [] op = "min" -> IF o < v THEN uo ELSE uv
         [] op = "max" -> IF o > v THEN uo ELSE uv
         [] op = "minu" -> IF uo < uv THEN uo ELSE uv
         [] op = "maxu" -> IF uo > uv THEN uo ELSE uv

---------------------------------------------------------------------------------
(* Machine steps.  A state has the fields of the emitted code's state that  *)
(* the instruction set knows.                                               *)

Wrapped(a) == a % MemSize
Load(s, a, width) ==
    LET sum[k \in 0 .. width] ==
            IF k = 0 THEN 0 ELSE s.mem[Wrapped(a + k - 1)] * 2^(Byte * (k - 1)) + sum[k - 1]
    IN sum[width]
Stored(s, a, width, v) ==
    [c \in DOMAIN s.mem |->
        IF \E k \in 0 .. width - 1 : c = Wrapped(a + k)
        THEN (v \div 2^(Byte * ((c - Wrapped(a)) % MemSize))) % 2^Byte ELSE s.mem[c]]

Put(s, rd, v) == IF rd = 0 THEN s ELSE [s EXCEPT !.regs[rd] = v]
Goto(s, pc) == [s EXCEPT !.pc = X(pc)]
Get(s, r) == IF r = 0 THEN 0 ELSE s.regs[r]
Released(s) == [s EXCEPT !.res_valid = 0]

(* The csr a csr instruction leaves, given its source operand. *)
CsrAfter(op, old, src) ==
    CASE op \in {"csrrw", "csrrwi"} -> src
      [] op \in {"csrrs", "csrrsi"} -> Bitwise(old, src, OR)
      [] op \in {"csrrc", "csrrci"} -> Bitwise(old, src, {<<1, 0>>})

(* One instruction i, of kind k (its operand form), on state s. *)
Step(s, i, k) ==
    LET a == Get(s, i.rs1)
        b == Get(s, i.rs2)
        next == Goto(s, i.pc + i.size)
    IN CASE k.form = "rr" -> Put(next, i.rd, Result(k.op, a, b))
         [] k.form = "ri" -> Put(next, i.rd, Result(k.op, a, X(i.imm)))
         [] k.form = "lui" -> Put(next, i.rd, X(i.imm))
         [] k.form = "auipc" -> Put(next, i.rd, X(i.pc + i.imm))
         [] k.form = "load" ->
               LET v == Load(s, a + i.imm, k.width)
               IN Put(next, i.rd, IF k.signed THEN X(Signed(v, Byte * k.width)) ELSE v)
         [] k.form = "store" -> Released([next EXCEPT !.mem = Stored(s, a + i.imm, k.width, b)])
         [] k.form = "jal" -> Goto(Put(s, i.rd, X(i.pc + i.size)), i.pc + i.imm)
         [] k.form = "jalr" -> Goto(Put(s, i.rd, X(i.pc + i.size)), X(a + i.imm) - (X(a + i.imm) % 2))
         [] k.form = "branch" -> IF Taken(k.op, a, b) THEN Goto(s, i.pc + i.imm) ELSE next
         [] k.form = "lr" -> Put([next EXCEPT !.res_valid = 1, !.res_addr = a], i.rd,
                                 X(Signed(Load(s, a, k.width), Byte * k.width)))
         [] k.form = "sc" -> IF s.res_valid = 1 /\ s.res_addr = a
                             THEN Put(Released([next EXCEPT !.mem = Stored(s, a, k.width, b)]), i.rd, 0)
                             ELSE Put(Released(next), i.rd, 1)
         [] k.form = "amo" ->
               LET old == Load(s, a, k.width)
               IN Put(Released([next EXCEPT !.mem = Stored(s, a, k.width, Atomic(k.op, k.width, old, b))]),
                      i.rd, X(Signed(old, Byte * k.width)))
         [] k.form = "csr" ->
               LET src == IF k.imm THEN i.imm ELSE a
                   writes == k.op \in {"csrrw", "csrrwi"} \/ (IF k.imm THEN i.imm # 0 ELSE i.rs1 # 0)
                   old == IF i.csr \in DOMAIN s.csrs THEN s.csrs[i.csr] ELSE X(s.instret)
               IN Put([next EXCEPT !.csrs = [n \in DOMAIN @ |->
                          IF n = i.csr /\ writes THEN CsrAfter(k.op, old, src) ELSE @[n]]], i.rd, old)
         [] k.form = "nop" -> next
         [] k.form = "ebreak" -> [s EXCEPT !.status = "exit"]

---------------------------------------------------------------------------------
(* The operand form of an operation; a compressed operation has the form    *)
(* and the meaning of its expansion.                                        *)

ShiftImm == {"slli", "srli", "srai", "slliw", "srliw", "sraiw", "rori", "roriw", "slli.uw",
             "bclri", "bexti", "binvi", "bseti"}
PlainImm == {"addi", "slti", "sltiu", "xori", "ori", "andi", "addiw"}
Loads == {<<"lb", 1, TRUE>>, <<"lh", 2, TRUE>>, <<"lw", 4, TRUE>>, <<"ld", 8, TRUE>>,
          <<"lbu", 1, FALSE>>, <<"lhu", 2, FALSE>>, <<"lwu", 4, FALSE>>,
          <<"c.lw", 4, TRUE>>, <<"c.lwsp", 4, TRUE>>, <<"c.ld", 8, TRUE>>, <<"c.ldsp", 8, TRUE>>}
Stores == {<<"sb", 1>>, <<"sh", 2>>, <<"sw", 4>>, <<"sd", 8>>,
           <<"c.sw", 4>>, <<"c.swsp", 4>>, <<"c.sd", 8>>, <<"c.sdsp", 8>>}
Amos == {<<"amoswap.w", "swap", 4>>, <<"amoadd.w", "add", 4>>, <<"amoxor.w", "xor", 4>>,
         <<"amoand.w", "and", 4>>, <<"amoor.w", "or", 4>>, <<"amomin.w", "min", 4>>,
         <<"amomax.w", "max", 4>>, <<"amominu.w", "minu", 4>>, <<"amomaxu.w", "maxu", 4>>,
         <<"amoswap.d", "swap", 8>>, <<"amoadd.d", "add", 8>>, <<"amoxor.d", "xor", 8>>,
         <<"amoand.d", "and", 8>>, <<"amoor.d", "or", 8>>, <<"amomin.d", "min", 8>>,
         <<"amomax.d", "max", 8>>, <<"amominu.d", "minu", 8>>, <<"amomaxu.d", "maxu", 8>>}
Expansions ==
    {<<"c.add", "rr", "add">>, <<"c.mv", "rr", "add">>, <<"c.sub", "rr", "sub">>, <<"c.xor", "rr", "xor">>,
     <<"c.or", "rr", "or">>, <<"c.and", "rr", "and">>, <<"c.addw", "rr", "addw">>, <<"c.subw", "rr", "subw">>,
     <<"c.addi", "ri", "addi">>, <<"c.addi4spn", "ri", "addi">>, <<"c.addi16sp", "ri", "addi">>,
     <<"c.li", "ri", "addi">>, <<"c.addiw", "ri", "addiw">>, <<"c.andi", "ri", "andi">>,
     <<"c.slli", "ri", "slli">>, <<"c.srli", "ri", "srli">>, <<"c.srai", "ri", "srai">>,
     <<"c.lui", "lui", "lui">>, <<"c.j", "jal", "jal">>, <<"c.jal", "jal", "jal">>,
     <<"c.jr", "jalr", "jalr">>, <<"c.jalr", "jalr", "jalr">>, <<"c.beqz", "branch", "beq">>,
     <<"c.bnez", "branch", "bne">>, <<"c.nop", "nop", "nop">>, <<"c.ebreak", "ebreak", "ebreak">>}

Named(table, op) == CHOOSE t \in table : t[1] = op
Has(table, op) == \E t \in table : t[1] = op

FormOf(op) ==
    CASE op \in ShiftImm \cup PlainImm -> [form |-> "ri", op |-> op]
      [] Has(Loads, op) -> [form |-> "load", width |-> Named(Loads, op)[2], signed |-> Named(Loads, op)[3]]
      [] Has(Stores, op) -> [form |-> "store", width |-> Named(Stores, op)[2]]
      [] Has(Amos, op) -> [form |-> "amo", op |-> Named(Amos, op)[2], width |-> Named(Amos, op)[3]]
      [] Has(Expansions, op) -> [form |-> Named(Expansions, op)[2], op |-> Named(Expansions, op)[3]]
      [] op \in {"lui", "auipc", "jal", "jalr", "ebreak"} -> [form |-> op, op |-> op]
      [] op \in {"beq", "bne", "blt", "bge", "bltu", "bgeu"} -> [form |-> "branch", op |-> op]
      [] op \in {"lr.w", "lr.d"} -> [form |-> "lr", width |-> IF op = "lr.w" THEN 4 ELSE 8]
      [] op \in {"sc.w", "sc.d"} -> [form |-> "sc", width |-> IF op = "sc.w" THEN 4 ELSE 8]
      [] op \in {"csrrw", "csrrs", "csrrc"} -> [form |-> "csr", op |-> op, imm |-> FALSE]
      [] op \in {"csrrwi", "csrrsi", "csrrci"} -> [form |-> "csr", op |-> op, imm |-> TRUE]
      [] op \in {"fence", "fence.i", "mret"} -> [form |-> "nop", op |-> op]
      [] OTHER -> [form |-> "rr", op |-> op]
=================================================================================
