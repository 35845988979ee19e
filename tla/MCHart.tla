--------------------------------- MODULE MCHart ---------------------------------
(***************************************************************************)
(* Scenarios for Hart, for both register widths in one run.                *)
(*   R64: RV64, bytes of 2 bits, registers of 16; the memory is smaller    *)
(*        than the register's range, as it is in every build.              *)
(*   R32: RV32, bytes of 4 bits, registers of 16, for the instructions     *)
(*        that work on registers.                                          *)
(*   M32: RV32, bytes of 2 bits, registers of 8, for memory and calls: the *)
(*        memory is all a register can address, as it is with the 32       *)
(*        memory_bits of every build.                                      *)
(***************************************************************************)
EXTENDS Integers, Sequences

VARIABLES inst, st, scen, ins, left, reserved

Instr(op, rd, rs1, rs2, im, n, size) ==
    [op |-> op, rd |-> rd, rs1 |-> rs1, rs2 |-> rs2, imm |-> im, csr |-> n, pc |-> 0, size |-> size]

(* rd, rs1, rs2: distinct registers, each coincidence, and x0 in each place.*)
Shapes == {<<3, 1, 2>>, <<1, 1, 2>>, <<2, 1, 2>>, <<1, 1, 1>>, <<0, 1, 2>>, <<3, 0, 2>>, <<3, 1, 0>>}
Corners == {0, 1, 32767, 32768, 65535, 51333}
Big(m) == IF m = "M32" THEN 179 ELSE 51333
Top(m) == IF m = "M32" THEN 256 ELSE 65536

Rr == {"add", "sub", "sll", "slt", "sltu", "xor", "srl", "sra", "or", "and",
       "mul", "mulh", "mulhsu", "mulhu", "div", "divu", "rem", "remu",
       "sh1add", "sh2add", "sh3add", "andn", "orn", "xnor", "clz", "ctz", "cpop",
       "max", "maxu", "min", "minu", "sext.b", "sext.h", "zext.h", "rol", "ror", "orc.b", "rev8",
       "bclr", "bext", "binv", "bset", "pack", "packh", "brev8", "czero.eqz", "czero.nez",
       "c.add", "c.sub", "c.xor", "c.or", "c.and"}
Rr64 == {"addw", "subw", "sllw", "srlw", "sraw", "mulw", "divw", "divuw", "remw", "remuw",
         "add.uw", "sh1add.uw", "sh2add.uw", "sh3add.uw", "clzw", "ctzw", "cpopw", "rolw", "rorw",
         "packw", "c.addw", "c.subw"}
Rr32 == {"zip", "unzip"}
Alu(x) == {Instr(op, s[1], s[2], s[3], 0, "", 4) :
              op \in Rr \cup (IF x = 64 THEN Rr64 ELSE Rr32), s \in Shapes}

Imms(x) ==
    {Instr(op, s[1], s[2], 0, im, "", 4) : op \in {"addi", "slti", "sltiu", "xori", "ori", "andi", "c.addi", "c.andi"}
              \cup (IF x = 64 THEN {"addiw", "c.addiw"} ELSE {}),
           s \in Shapes, im \in {0, 1, -1, -6}}
    \cup {Instr(op, s[1], s[2], 0, im, "", 4) :
              op \in {"slli", "srli", "srai", "rori", "bclri", "bexti", "binvi", "bseti", "c.slli", "c.srli", "c.srai"}
                 \cup (IF x = 64 THEN {"slli.uw"} ELSE {}),
           s \in Shapes, im \in {0, 1, 7, 15}}
    \cup {Instr(op, s[1], s[2], 0, im, "", 4) : op \in IF x = 64 THEN {"slliw", "srliw", "sraiw", "roriw"} ELSE {},
           s \in Shapes, im \in {0, 1, 7}}
    \cup {Instr(op, rd, 0, 0, im, "", 4) : op \in {"lui", "auipc", "c.lui", "c.li"}, rd \in {0, 3}, im \in {16, -32}}
    \cup {Instr("c.mv", s[1], 0, s[3], 0, "", 2) : s \in Shapes}
    \cup {Instr("c.addi4spn", 3, 2, 0, im, "", 2) : im \in {4, 12}}
    \cup {Instr("c.addi16sp", 2, 2, 0, im, "", 2) : im \in {16, -32}}

Jumps(x) ==
    {Instr(op, 0, s[2], s[3], im, "", 4) : op \in {"beq", "bne", "blt", "bge", "bltu", "bgeu"},
        s \in Shapes, im \in {8, -12}}
    \cup {Instr(op, 0, s[2], 0, im, "", 2) : op \in {"c.beqz", "c.bnez"}, s \in Shapes, im \in {8, -12}}
    \cup {Instr("jalr", s[1], s[2], 0, im, "", 4) : s \in Shapes, im \in {0, 5, -2}}
    \cup {Instr("jal", rd, 0, 0, im, "", 4) : rd \in {0, 1}, im \in {8, -12}}
    \cup {Instr("c.j", 0, 0, 0, 8, "", 2), Instr("c.jr", 0, 1, 0, 0, "", 2), Instr("c.jalr", 1, 1, 0, 0, "", 2),
           Instr("c.jalr", 1, 2, 0, 0, "", 2), Instr("ebreak", 0, 0, 0, 0, "", 4), Instr("c.ebreak", 0, 0, 0, 0, "", 2),
           Instr("fence", 0, 0, 0, 0, "", 4), Instr("fence.i", 0, 0, 0, 0, "", 4),
           Instr("mret", 0, 0, 0, 0, "", 4), Instr("c.nop", 0, 0, 0, 0, "", 2)}
    \cup (IF x = 32 THEN {Instr("c.jal", 1, 0, 0, 8, "", 2)} ELSE {})
    \cup {Instr(op, s[1], s[2], 0, 0, n, 4) : op \in {"csrrw", "csrrs", "csrrc"}, s \in Shapes,
              n \in {"mscratch", "instret"}}
    \cup {Instr(op, rd, 0, 0, im, n, 4) : op \in {"csrrwi", "csrrsi", "csrrci"}, rd \in {0, 3}, im \in {0, 5},
              n \in {"mscratch", "instret"}}

Mems(x) ==
    {Instr(op, s[1], s[2], 0, im, "", 4) :
        op \in {"lb", "lh", "lw", "lbu", "lhu", "c.lw", "c.lwsp"}
           \cup (IF x = 64 THEN {"ld", "lwu", "c.ld", "c.ldsp"} ELSE {}), s \in Shapes, im \in {0, 8, -4, 3}}
    \cup {Instr(op, 0, s[2], s[3], im, "", 4) :
        op \in {"sb", "sh", "sw", "c.sw", "c.swsp"} \cup (IF x = 64 THEN {"sd", "c.sd", "c.sdsp"} ELSE {}),
        s \in Shapes, im \in {0, 8, -4, 3}}
Addresses(m) == {0, 4, 8, 21, 48, 60, 68, Top(m) - 4, Top(m) - 8}

(* Stores to TOHOST and beside it, of commands and of calls: nothing, an    *)
(* exit, the image's write, other bytes taken for a call, and fields that   *)
(* leave the memory.                                                        *)
Commands(x) ==
    {Instr(op, 0, 1, 2, im, "", 4) : op \in {"sb", "sh", "sw", "c.sw"} \cup (IF x = 64 THEN {"sd", "c.sd"} ELSE {}), im \in {0, 8, -8}}
    \cup {Instr(op, 3, 1, 2, 0, "", 4) : op \in {"amoswap.w", "sc.w", "lr.w"}}
Words(m) == {0, 2, 7, 16, Top(m) - 6}

Amo == {"amoswap.w", "amoadd.w", "amoxor.w", "amoand.w", "amoor.w", "amomin.w", "amomax.w", "amominu.w", "amomaxu.w"}
Amo64 == {"amoswap.d", "amoadd.d", "amoxor.d", "amoand.d", "amoor.d", "amomin.d", "amomax.d", "amominu.d", "amomaxu.d"}
AmoAll(x) == {Instr(op, s[1], s[2], s[3], 0, "", 4) : op \in Amo \cup (IF x = 64 THEN Amo64 ELSE {}), s \in Shapes}
LrSc(x) == {Instr("lr.w", 3, 1, 0, 0, "", 4), Instr("lr.w", 3, 2, 0, 0, "", 4), Instr("lr.w", 1, 1, 0, 0, "", 4),
            Instr("sc.w", 3, 1, 2, 0, "", 4), Instr("sc.w", 2, 2, 1, 0, "", 4), Instr("sc.w", 0, 1, 3, 0, "", 4),
            Instr("sw", 0, 1, 2, 0, "", 4), Instr("sb", 0, 2, 2, 1, "", 4), Instr("amoadd.w", 3, 1, 2, 0, "", 4),
            Instr("amoswap.w", 0, 2, 2, 0, "", 4), Instr("addi", 3, 3, 0, 1, "", 4)}
           \cup (IF x = 64 THEN {Instr("lr.d", 3, 1, 0, 0, "", 4), Instr("sc.d", 3, 1, 2, 0, "", 4)} ELSE {})

Files(v1, v2) == {[r \in 1 .. 3 |-> IF r = 1 THEN a ELSE IF r = 2 THEN b ELSE 5] : a \in v1, b \in v2}

(* linux_table with numbers 1 .. 9 in the order of the real ones.           *)
Entry(n, action, name, args, value) ==
    [num |-> n, action |-> action, name |-> name, args |-> args, value |-> value]
Linux == [abi |-> 17,
          entries |-> <<Entry(1, "return", "", 0, -1), Entry(2, "runtime", "rv_sys_write", 3, 0),
                        Entry(3, "runtime", "rv_sys_fstat", 2, 0), Entry(4, "exit", "", 0, 0),
                        Entry(5, "exit", "", 0, 0), Entry(6, "return", "", 0, 1),
                        Entry(7, "runtime", "rv_sys_brk", 1, 0), Entry(8, "runtime", "rv_sys_mmap", 6, 0)>>]
Args(n, a0, a1) == [r \in 10 .. 17 |-> IF r = 17 THEN n ELSE IF r = 10 THEN a0 ELSE IF r = 11 THEN a1 ELSE 0]
Guest(m) ==
    {Args(n, v, 0) : n \in (1 .. 9) \ {7, 8}, v \in {1, 3}}
    \cup {Args(7, v, 0) : v \in {0, 3, 6, 13} \cup (IF m = "M32" THEN {251, 253} ELSE {63, 65})}
    \cup {Args(8, 0, v) : v \in {0, 1, 5, Top(m) - 20, Top(m) - 4, Top(m) - 2}}

Names == [R64 |-> {"linux", "alu", "imm", "jump", "mem_unchecked", "mem_wrap", "mem_bounds", "amo", "lrsc", "host"},
          R32 |-> {"alu", "imm", "jump"},
          M32 |-> {"linux", "mem_unchecked", "mem_wrap", "mem_bounds", "amo", "lrsc", "host"}]
TohostOf(m) == IF m = "M32" THEN 176 ELSE 48
ScenarioFor(m, n) ==
    LET x == IF m = "R64" THEN 64 ELSE 32
        make(regs, mode, instrs, steps) ==
            [regs |-> regs, mode |-> mode, instrs |-> instrs, steps |-> steps,
             args |-> IF n = "linux" THEN Guest(m) ELSE {},
             handler |-> IF n = "linux" THEN Linux ELSE <<>>]
    IN CASE n = "linux" -> make({Args(7, 0, 0)}, "Wrap", {Instr("ecall", 0, 0, 0, 0, "", 4)}, 3)
         [] n = "alu" -> make(Files(Corners, Corners), "Unchecked", Alu(x), 1)
         [] n = "imm" -> make(Files(Corners, {9}), "Unchecked", Imms(x), 1)
         [] n = "jump" -> make(Files(Corners, Corners), "Unchecked", Jumps(x), 1)
         [] n = "mem_unchecked" -> make(Files(Addresses(m), {Big(m)}), "Unchecked", Mems(x), 1)
         [] n = "mem_wrap" -> make(Files(Addresses(m), {Big(m)}), "Wrap", Mems(x), 1)
         [] n = "mem_bounds" -> make(Files(Addresses(m), {Big(m)}), "Bounds", Mems(x), 1)
         [] n = "amo" -> make(Files({0, 8, 16}, {0, Big(m), 5}), "Wrap", AmoAll(x), 1)
         [] n = "lrsc" -> make(Files({8}, {8, 16}), "Wrap", LrSc(x), 4)
         [] n = "host" -> make(Files({TohostOf(m)}, Words(m)), "Unchecked", Commands(x), 2)
S == [m \in {"R64", "R32", "M32"} |-> [n \in Names[m] |-> ScenarioFor(m, n)]]
Scenario64(n) == S.R64[n]
Scenario32(n) == S.R32[n]
ScenarioM32(n) == S.M32[n]

R64 == INSTANCE Hart WITH Byte <- 2, RegBytes <- 8, MemBits <- 6, TOHOST <- 48, Page <- 4, Htif <- TRUE, Request <- 16,
                          SYS_MMAP <- 8, SYS_EXIT <- 4, SYS_EXIT_GROUP <- 5,
                          Scenarios <- Names.R64, Scenario <- Scenario64
R32 == INSTANCE Hart WITH Byte <- 4, RegBytes <- 4, MemBits <- 6, TOHOST <- 48, Page <- 4, Htif <- TRUE, Request <- 16,
                          SYS_MMAP <- 8, SYS_EXIT <- 4, SYS_EXIT_GROUP <- 5,
                          Scenarios <- Names.R32, Scenario <- Scenario32
M32 == INSTANCE Hart WITH Byte <- 2, RegBytes <- 4, MemBits <- 8, TOHOST <- 176, Page <- 4, Htif <- TRUE, Request <- 16,
                          SYS_MMAP <- 8, SYS_EXIT <- 4, SYS_EXIT_GROUP <- 5,
                          Scenarios <- Names.M32, Scenario <- ScenarioM32

vars == <<inst, st, scen, ins, left, reserved>>
Init == \/ inst = "R64" /\ R64!Init
        \/ inst = "R32" /\ R32!Init
        \/ inst = "M32" /\ M32!Init
Next64 == inst = "R64" /\ R64!Next /\ UNCHANGED inst
Next32 == inst = "R32" /\ R32!Next /\ UNCHANGED inst
NextM32 == inst = "M32" /\ M32!Next /\ UNCHANGED inst
Spec == Init /\ [][Next64 \/ Next32 \/ NextM32]_vars

(* The properties of Hart, for the instance at hand. *)
OfInstance(r64, r32, m32) == CASE inst = "R64" -> r64 [] inst = "R32" -> r32 [] inst = "M32" -> m32

\* Hart!StepBrkInRange: rv_sys_brk and rv_sys_mmap keep the break in its range.
BrkInRange == [][OfInstance(R64!StepBrkInRange, R32!StepBrkInRange, M32!StepBrkInRange)]_vars

\* Hart!StepImplementsIsa: lift and render_stmt do what the instruction set says.
ImplementsIsa == [][OfInstance(R64!StepImplementsIsa, R32!StepImplementsIsa, M32!StepImplementsIsa)]_vars

\* Hart!StepStopsOnlyOnBadAccess: no valid instruction traps, faults or is undefined C.
StopsOnlyOnBadAccess ==
    [][OfInstance(R64!StepStopsOnlyOnBadAccess, R32!StepStopsOnlyOnBadAccess, M32!StepStopsOnlyOnBadAccess)]_vars

\* Hart!StepScAfterLr: lift_sc succeeds only on the memory lift_lr saw.
ScAfterLr == [][OfInstance(R64!StepScAfterLr, R32!StepScAfterLr, M32!StepScAfterLr)]_vars

\* Hart!StepMmapIsFresh: rv_sys_mmap returns fresh zeroed pages or refuses.
MmapIsFresh == [][OfInstance(R64!StepMmapIsFresh, R32!StepMmapIsFresh, M32!StepMmapIsFresh)]_vars
=================================================================================
