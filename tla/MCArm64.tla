--------------------------------- MODULE MCArm64 --------------------------------
(***************************************************************************)
(* Scenarios for Arm64Hart, for both register widths in one run.  A byte   *)
(* has 2 bits: R64 has registers of 16 bits, R32 registers of 8 bits on a  *)
(* host whose x registers have 16, and a memory that is all a register can *)
(* address.  An add/sub immediate has 3 bits instead of 12, so that all    *)
(* its forms occur.                                                        *)
(***************************************************************************)
EXTENDS Integers, Sequences

VARIABLES xlen, scen, ins, code, before, h

Priority == <<1, 2, 10, 11, 12, 13, 14, 15, 16, 17, 5, 6, 7, 28, 29, 30, 31, 8, 9, 18, 19, 20, 21, 22, 23, 24, 25, 26, 27, 3, 4>>
Instr(op, rd, rs1, rs2, im, n, size) ==
    [op |-> op, rd |-> rd, rs1 |-> rs1, rs2 |-> rs2, imm |-> im, csr |-> n, pc |-> 8, size |-> size]

(* 10, 11, 12 are hot, 24, 25, 26 cold. *)
Shapes == {<<12, 10, 11>>, <<10, 10, 11>>, <<11, 10, 11>>, <<10, 10, 10>>, <<0, 10, 11>>, <<12, 0, 11>>, <<12, 10, 0>>,
           <<26, 24, 25>>, <<24, 24, 25>>, <<25, 24, 25>>, <<24, 24, 24>>, <<26, 0, 25>>, <<26, 24, 0>>,
           <<12, 10, 25>>, <<12, 24, 11>>, <<26, 10, 11>>, <<26, 24, 11>>, <<26, 10, 25>>, <<10, 10, 25>>, <<11, 24, 11>>,
           <<24, 24, 11>>, <<25, 10, 25>>, <<12, 24, 25>>}
File(a, b) == [r \in {10, 11, 12, 24, 25, 26} |-> IF r \in {10, 24} THEN a ELSE IF r \in {11, 25} THEN b ELSE 5]

Rr == {"add", "sub", "sll", "slt", "sltu", "xor", "srl", "sra", "or", "and",
       "mul", "mulh", "mulhsu", "mulhu", "div", "divu", "rem", "remu",
       "sh1add", "sh2add", "sh3add", "andn", "orn", "xnor", "clz", "ctz", "cpop",
       "max", "maxu", "min", "minu", "sext.b", "sext.h", "zext.h", "rol", "ror", "orc.b", "rev8",
       "bclr", "bext", "binv", "bset", "czero.eqz", "czero.nez"}
Rr64 == {"addw", "subw", "sllw", "srlw", "sraw", "mulw", "divw", "divuw", "remw", "remuw",
         "add.uw", "sh1add.uw", "sh2add.uw", "sh3add.uw", "clzw", "ctzw", "cpopw", "rolw", "rorw"}
Alu(x) == {Instr(op, s[1], s[2], s[3], 0, "", 4) :
              op \in Rr \cup (IF x = 64 THEN Rr64 ELSE {}), s \in Shapes}
CornerPairs(x) ==
    LET w == IF x = 64 THEN 65536 ELSE 256
        odd == IF x = 64 THEN 51333 ELSE 179
    IN {<<w - 1, 0>>, <<w \div 2, w - 1>>, <<odd, 9>>, <<w \div 2 - 1, w - 2>>, <<odd, odd>>}
Corners(x) == IF x = 64 THEN {0, 32767, 32768, 65535, 51333} ELSE {0, 127, 128, 255, 179}

(* 7 is the largest plain add/sub immediate, 8 and 56 are shifted ones.     *)
Pairs == {<<s[1], s[2]>> : s \in Shapes}
Imms(x) ==
    {Instr(op, s[1], s[2], 0, im, "", 4) : op \in {"addi", "slti", "sltiu", "xori", "ori", "andi"}
              \cup (IF x = 64 THEN {"addiw"} ELSE {}), s \in Pairs, im \in {-1, 6, 7, 8, -56, 9}}
    \cup {Instr(op, s[1], s[2], 0, im, "", 4) :
              op \in {"slli", "srli", "srai", "rori", "bclri", "bexti", "binvi", "bseti"}
                 \cup (IF x = 64 THEN {"slli.uw", "slliw", "srliw", "sraiw", "roriw"} ELSE {}),
           s \in Pairs, im \in {0, 1, 7}}
    \cup {Instr(op, rd, 0, 0, im, "", 4) : op \in {"lui", "auipc"}, rd \in {0, 12, 26}, im \in {16, -32}}

Jumps(x) ==
    {Instr(op, 0, s[2], s[3], im, "", 4) : op \in {"beq", "bne", "blt", "bge", "bltu", "bgeu"},
        s \in Shapes, im \in {8, -12}}
    \cup {Instr(op, 0, s[2], 0, im, "", 2) : op \in {"c.beqz", "c.bnez"}, s \in Shapes, im \in {8, 6}}
    \cup {Instr("jalr", s[1], s[2], 0, im, "", 4) : s \in Shapes, im \in {0, 5, -2}}
    \cup {Instr("jal", rd, 0, 0, im, "", 4) : rd \in {0, 10, 24}, im \in {8, -12, 0}}
    \cup {Instr("fence", 0, 0, 0, 0, "", 4), Instr("ebreak", 0, 0, 0, 0, "", 4), Instr("addi", 26, 24, 0, 1, "", 4)}
    \cup {Instr("csrrs", rd, 0, 0, 0, n, 4) : rd \in {12, 26}, n \in {"instret", "instreth", "mscratch"}}

Mems(x) ==
    {Instr(op, s[1], s[2], 0, im, "", 4) :
        op \in {"lb", "lh", "lw", "lbu", "lhu"} \cup (IF x = 64 THEN {"ld", "lwu"} ELSE {}), s \in Pairs, im \in {0, -4, 9}}
    \cup {Instr(op, 0, s[2], s[3], im, "", 4) :
        op \in {"sb", "sh", "sw"} \cup (IF x = 64 THEN {"sd"} ELSE {}), s \in Shapes, im \in {0, -4, 9}}
Addresses(x) == {0, 15, 16, 48, 60, 68} \cup (IF x = 64 THEN {65532, 32776} ELSE {252, 136})

(* Stores to TOHOST of nothing, an exit, the image's write, other bytes     *)
(* taken for a call, and fields that leave the memory.                      *)
Tohost(x) == IF x = 64 THEN 48 ELSE 176
Commands(x) == {Instr(op, 0, s[2], s[3], im, "", 4) : op \in {"sw"} \cup (IF x = 64 THEN {"sd"} ELSE {}),
                                                      s \in Shapes, im \in {0, 8}}
Words(x) == {0, 2, 7, 16} \cup (IF x = 64 THEN {64, 80, 65520} ELSE {250})
Gaps == {Instr("addi", 26, 24, 0, 1, "", 4), Instr("ecall", 0, 0, 0, 0, "", 4), Instr("jal", 0, 0, 0, 8, "", 4),
         Instr("beq", 0, 10, 11, 8, "", 4), Instr("bne", 0, 10, 11, 8, "", 4)}
Amo(x) == {Instr(op, s[1], s[2], s[3], 0, "", 4) :
              op \in {"amoswap.w", "amoadd.w", "amoxor.w", "amoand.w", "amoor.w", "amomin.w", "amomax.w", "amominu.w", "amomaxu.w",
                      "lr.w", "sc.w"}
                 \cup (IF x = 64 THEN {"amoswap.d", "amoadd.d", "amoxor.d", "amoand.d", "amoor.d", "amomin.d", "amomax.d",
                                       "amominu.d", "amomaxu.d", "lr.d", "sc.d"} ELSE {}), s \in Shapes}
Traced(x) == {i \in Mems(x) : i.imm \in {0, 9}} \cup {i \in Amo(x) : i.op \in {"amoadd.w", "lr.w", "sc.w"}}
             \cup {Instr(op, s[1], s[2], s[3], 0, "", 4) : op \in {"add", "div", "min", "mulhu", "rol"}, s \in Shapes}
             \cup {Instr("jal", rd, 0, 0, 8, "", 4) : rd \in {0, 10, 24}}

(* linux_table with numbers 1 .. 8 in the order of the real ones.           *)
Entry(n, action, name, args, value) ==
    [num |-> n, action |-> action, name |-> name, args |-> args, value |-> value]
Linux == [abi |-> 17,
          entries |-> <<Entry(1, "return", "", 0, -1), Entry(2, "runtime", "rv_sys_write", 3, 0),
                        Entry(3, "runtime", "rv_sys_fstat", 2, 0), Entry(4, "exit", "", 0, 0),
                        Entry(5, "exit", "", 0, 0), Entry(6, "return", "", 0, 1),
                        Entry(7, "runtime", "rv_sys_brk", 1, 0), Entry(8, "runtime", "rv_sys_mmap", 6, 0)>>]
Args(n, a0, a1) == [r \in 10 .. 17 |-> IF r = 17 THEN n ELSE IF r = 10 THEN a0 ELSE IF r = 11 THEN a1 ELSE 10 + r]
Calls(x) == {Args(n, v, 0) : n \in (1 .. 9) \ {7, 8}, v \in {1, 3}}
            \cup {Args(7, v, 0) : v \in {0, 3, 6, 13, 63, 65}}
            \cup {Args(8, 0, v) : v \in {0, 1, 5, 61, IF x = 64 THEN 65532 ELSE 252}}

Names == {"alu", "imm", "jump_count", "jump_suspend", "jump_resume", "jump_per", "mem_unchecked", "mem_wrap", "mem_bounds",
          "amo", "traced", "linux", "linux_cold", "host_unchecked", "host_wrap", "host_bounds", "gap", "gap_suspend"}
ScenarioFor(x, n, map(_)) ==
    LET make(mode, instret, due, files, instrs) ==
            [cfg |-> [hot |-> map(IF n = "linux_cold" THEN 4 ELSE 22), mode |-> mode, instret |-> instret,
                      diff |-> n = "traced", perf |-> n = "mem_wrap", htif |-> TRUE,
                      valid |-> IF n \in {"gap", "gap_suspend"} THEN {8, 16, 20} ELSE {8, 10, 12, 16, 20}, text_start |-> 4, pc_end |-> 24],
             due |-> due, files |-> files, instrs |-> instrs,
             reserved |-> IF n \in {"amo", "traced"} THEN BOOLEAN ELSE {TRUE},
             handler |-> IF n \in {"linux", "linux_cold", "gap", "gap_suspend"} THEN Linux ELSE <<>>]
        two(as, bs) == {File(a, b) : a \in as, b \in bs}
        big == IF x = 64 THEN 51333 ELSE 179
        jumps == {File(1, 1), File(12, big), File(big, 12), File(big, big)}
        gaps == {[r \in 10 .. 26 |-> IF r = 17 THEN 6 ELSE IF r = 10 THEN a ELSE 1] : a \in {1, 2}}
        hosts == {File(a, b) : a \in {Tohost(x), Tohost(x) - 8}, b \in Words(x)}
        ecalls == {Instr("ecall", 0, 0, 0, 0, "", 4)}
    IN CASE n = "alu" -> make("Wrap", "Count", 1, {File(c[1], c[2]) : c \in CornerPairs(x)}, Alu(x))
         [] n = "imm" -> make("Wrap", "Off", 1, two(Corners(x), {9}), Imms(x))
         [] n = "jump_count" -> make("Unchecked", "Count", 1, jumps, Jumps(x))
         [] n = "jump_suspend" -> make("Bounds", "Suspend", 1, jumps, Jumps(x))
         [] n = "jump_resume" -> make("Bounds", "Suspend", 2, jumps, Jumps(x))
         [] n = "jump_per" -> make("Bounds", "PerInstruction", 2, jumps, Jumps(x))
         [] n = "mem_unchecked" -> make("Unchecked", "Count", 1, two(Addresses(x), {big}), Mems(x))
         [] n = "mem_wrap" -> make("Wrap", "Off", 1, two(Addresses(x), {big}), Mems(x))
         [] n = "mem_bounds" -> make("Bounds", "PerInstruction", 1, two(Addresses(x), {big}), Mems(x))
         [] n = "amo" -> make("Wrap", "Count", 1, two({8, 16}, {big, 5}), Amo(x))
         [] n = "traced" -> make("Wrap", "Count", 1, two({8, 24}, {big, 5}), Traced(x))
         [] n = "linux" -> make("Wrap", "Count", 1, Calls(x), ecalls)
         [] n = "linux_cold" -> make("Bounds", "PerInstruction", 2, Calls(x), ecalls)
         [] n = "host_unchecked" -> make("Unchecked", "Count", 1, hosts, Commands(x))
         [] n = "host_wrap" -> make("Wrap", "PerInstruction", 2, hosts, Commands(x))
         [] n = "host_bounds" -> make("Bounds", "Off", 1, hosts, Commands(x))
         [] n = "gap" -> make("Wrap", "Count", 1, gaps, Gaps)
         [] n = "gap_suspend" -> make("Wrap", "Suspend", 1, gaps, Gaps)

A64 == INSTANCE Arm64 WITH Byte <- 2, RegBytes <- 8, MemBits <- 6, TOHOST <- 48, Page <- 4, Htif <- TRUE,
                           ImmBits <- 3, REG_PRIORITY <- Priority
A32 == INSTANCE Arm64 WITH Byte <- 2, RegBytes <- 4, MemBits <- 8, TOHOST <- 176, Page <- 4, Htif <- TRUE,
                           ImmBits <- 3, REG_PRIORITY <- Priority
S64 == [n \in Names |-> ScenarioFor(64, n, LAMBDA k : A64!RegMap(A64!init_hot_regs_count(k)))]
S32 == [n \in Names |-> ScenarioFor(32, n, LAMBDA k : A32!RegMap(A32!init_hot_regs_count(k)))]
Scenario64(n) == S64[n]
Scenario32(n) == S32[n]
R64 == INSTANCE Arm64Hart WITH Byte <- 2, RegBytes <- 8, MemBits <- 6, TOHOST <- 48, Page <- 4, Htif <- TRUE,
                           ImmBits <- 3, REG_PRIORITY <- Priority,
                           Request <- 16, Scenarios <- Names, Scenario <- Scenario64
R32 == INSTANCE Arm64Hart WITH Byte <- 2, RegBytes <- 4, MemBits <- 8, TOHOST <- 176, Page <- 4, Htif <- TRUE,
                           ImmBits <- 3, REG_PRIORITY <- Priority,
                           Request <- 16, Scenarios <- Names, Scenario <- Scenario32
vars == <<xlen, scen, ins, code, before, h>>
Init == \/ xlen = 64 /\ R64!Init
        \/ xlen = 32 /\ R32!Init
Next64 == xlen = 64 /\ R64!Next /\ UNCHANGED xlen
Next32 == xlen = 32 /\ R32!Next /\ UNCHANGED xlen
Spec == Init /\ [][Next64 \/ Next32]_vars

(* The properties of Arm64Hart, for the instance at hand. *)

\* Arm64Hart!ImplementsIsa: the emitted ARM64 code does what the instruction set says.
ImplementsIsa == IF xlen = 64 THEN R64!ImplementsIsa ELSE R32!ImplementsIsa

\* Arm64Hart!Assembles: every immediate the emitter writes has an encoding.
Assembles == IF xlen = 64 THEN R64!Assembles ELSE R32!Assembles

\* Arm64Hart!StopsOnlyOnBadAccess: apply_address_mode and emit_dispatch_jump trap on bad addresses alone.
StopsOnlyOnBadAccess == IF xlen = 64 THEN R64!StopsOnlyOnBadAccess ELSE R32!StopsOnlyOnBadAccess

\* Arm64Hart!SuspendsOnTime: emit_instret_post_check and emit_instret_suspend_check suspend when due.
SuspendsOnTime == IF xlen = 64 THEN R64!SuspendsOnTime ELSE R32!SuspendsOnTime

\* Arm64Hart!TraceIsExact: the emit_trace functions record what the instruction did.
TraceIsExact == IF xlen = 64 THEN R64!TraceIsExact ELSE R32!TraceIsExact

\* Arm64Hart!HostCallsAgreeWithC: emit_extern_call and emit_htif_check agree with the C backend.
HostCallsAgreeWithC == IF xlen = 64 THEN R64!HostCallsAgreeWithC ELSE R32!HostCallsAgreeWithC
=================================================================================
