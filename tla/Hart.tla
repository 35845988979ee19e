---------------------------------- MODULE Hart ----------------------------------
(***************************************************************************)
(* One hart executing lifted and rendered instructions one after another,  *)
(* compared with the instruction set.  A scenario says where the hart may  *)
(* start and which instructions it may meet:                               *)
(*   [regs: set of register files, mode, instrs: set of instructions,      *)
(*    steps: how many of them, handler: its ecall handler,                 *)
(*    args: register files the program may set up before an ecall]         *)
(***************************************************************************)
EXTENDS CCode

CONSTANTS
    Scenarios,   \* set of names
    Scenario(_),
    Request,     \* where the image holds a call of the host: a write of 5 bytes
    SYS_MMAP, SYS_EXIT, SYS_EXIT_GROUP

I == INSTANCE Isa WITH MemSize <- 2^MemBits

VARIABLES
    st,          \* the state the emitted code works on
    scen,        \* the scenario
    ins,         \* the last instruction executed, or <<>>
    left,        \* instructions still to execute
    reserved     \* ghost: the bytes of memory at the last lr, or <<>>

vars == <<st, scen, ins, left, reserved>>

(* RvState::default: no reservation, nothing exited; the memory holds the   *)
(* image.                                                                   *)
Image == [a \in 0 .. 2^MemBits - 1 |-> (7 * a + 3) % 2^Byte]
Memory ==
    LET field(m, k, v) == StoreBytes(m, FieldAt(Request, k), HTIF_FIELD_SIZE, v)
    IN field(field(field(Image, 0, HTIF_SYS_WRITE), 1, HTIF_STDOUT_FD), 3, 5)
Csrs == [n \in {"mscratch"} |-> 1]
InitState(regs) ==
    [regs |-> regs, mem |-> Memory, csrs |-> Csrs, instret |-> 2^W32 + 5,
     res_addr |-> 0, res_valid |-> 0, tmp |-> [k \in 0 .. 3 |-> 0], pc |-> 8,
     exited |-> 0, exit_code |-> 0, brk |-> Page, start_brk |-> Page, status |-> "run"]

Init == /\ scen \in Scenarios
        /\ \E regs \in Scenario(scen).regs : st = InitState(regs)
        /\ ins = <<>>
        /\ left = Scenario(scen).steps
        /\ reserved = <<>>

(* The instruction at pc, lifted and run. *)
Execute(i) ==
    /\ left > 0
    /\ st.status = "run"
    /\ st' = render_instruction(Scenario(scen).mode, st, lift(i, Scenario(scen).handler))
    /\ ins' = i
    /\ left' = left - 1
    /\ reserved' = IF i.op \in {"lr.w", "lr.d"} THEN st.mem ELSE reserved
    /\ UNCHANGED scen

(* The code around an ecall leaves its number and arguments in registers. *)
Prepare(file) ==
    /\ left > 0
    /\ st.status = "run"
    /\ st' = [st EXCEPT !.regs = file]
    /\ UNCHANGED <<scen, ins, left, reserved>>

Next == \/ \E i \in Scenario(scen).instrs : Execute([i EXCEPT !.pc = st.pc])
        \/ \E file \in Scenario(scen).args : Prepare(file)
Spec == Init /\ [][Next]_vars

---------------------------------------------------------------------------------
Executes(op) == left' # left /\ ins'.op = op

(* What the hart shows the program. *)
Visible(s) == [regs |-> s.regs, mem |-> s.mem, csrs |-> s.csrs, pc |-> s.pc, status |-> s.status]

(* Instructions whose translation departs from the instruction set: the csr *)
(* forms that write rd before they read the same register as their source,  *)
(* and the compressed jumps to an odd address.                              *)
SourceOverwritten(i) == i.op \in {"csrrw", "csrrs", "csrrc"} /\ i.rd = i.rs1 /\ i.rd # 0
OddTarget(s, i) == i.op \in {"c.jr", "c.jalr"} /\ i.rs1 # 0 /\ s.regs[i.rs1] % 2 = 1

(* A word or double word stored to TOHOST is a command to the host.         *)
ToHost(s, i) ==
    LET k == I!FormOf(i.op)
        off == IF k.form = "store" THEN i.imm ELSE 0
    IN k.form \in {"store", "sc", "amo"} /\ render_mem_write_tohost(I!Get(s, i.rs1), off, k.width)

(* An instruction that runs leaves the registers, memory, csrs and pc that  *)
(* the instruction set says it leaves: the lift of its extension and the    *)
(* rendered C agree with the reference on every operand, x0 and a repeated  *)
(* register included.                                                       *)
StepImplementsIsa ==
    (/\ left' # left /\ ins'.op # "ecall"
     /\ st'.status = "run" \/ ins'.op \in {"ebreak", "c.ebreak"}
     /\ ~SourceOverwritten(ins') /\ ~OddTarget(st, ins') /\ ~ToHost(st, ins'))
    => Visible(st') = Visible(I!Step(st, ins', I!FormOf(ins'.op)))

(* Where an instruction's memory access falls, by the instruction set.  C   *)
(* translates the base alone and adds the offset as to a pointer: a base    *)
(* outside the memory, or an offset that carries the sum out of the         *)
(* register's range, does not get to the address the sum wraps to.          *)
InMemory(a, width) == a >= 0 /\ a + width <= 2^MemBits
Base(s, i) == I!Get(s, i.rs1)
Sum(s, i) == Base(s, i) + IF I!FormOf(i.op).form \in {"load", "store"} THEN i.imm ELSE 0
Accesses(i) == I!FormOf(i.op).form \in {"load", "store", "lr", "sc", "amo"}
AccessIsGood(s, i) ==
    LET a == from_u64(Sum(s, i))
        width == I!FormOf(i.op).width
    IN Accesses(i) => InMemory(a, width) /\ a % width = 0
BeyondPointer(s, i) == Accesses(i) /\ (~InMemory(Base(s, i), 1) \/ Sum(s, i) \notin Reg)

(* A command to the host that is a call has its fields in the memory.       *)
RequestIsGood(s, i) == ToHost(s, i) => LET v == I!Get(s, i.rs2) IN v = 0 \/ v % 2 = 1 \/ FieldsInMemory(v)

(* An ecall through the syscall table: number is in the ABI register.       *)
Calls(n) == Executes("ecall") /\ Scenario(scen).handler # <<>> /\ st.regs[Scenario(scen).handler.abi] = n

(* No instruction stops the hart except one whose access is misaligned or   *)
(* leaves the memory, or whose call of the host does: a valid address never *)
(* traps, faults or runs into a shift or an assumption C leaves undefined.  *)
(* The exceptions are BeyondPointer and, in Bounds mode where the memory is *)
(* smaller than the register's range, the upper half of the memory.  An     *)
(* ecall ends the program exactly for the exit numbers, with the low byte   *)
(* of a0 as its exit code.                                                  *)
StepStopsOnlyOnBadAccess ==
    /\ (/\ left' # left /\ ins'.op # "ecall"
        /\ st'.status \in {"trap", "fault", "ub"}
        /\ ~BeyondPointer(st, ins')
        /\ Scenario(scen).mode = "Bounds" /\ MemBits < W => Base(st, ins') < 2^(MemBits - 1))
       => ~AccessIsGood(st, ins') \/ ~RequestIsGood(st, ins')
    /\ (Executes("ecall") /\ Scenario(scen).handler # <<>>)
       => /\ (st'.status = "exit") = (\E n \in {SYS_EXIT, SYS_EXIT_GROUP} : Calls(n))
          /\ st'.status = "exit" => st'.exit_code = st.regs[REG_A0] % 2^Byte

(* A store-conditional that succeeds finds the memory as its load-reserved  *)
(* found it: no store, atomic or other sc came between, however the three   *)
(* are interleaved.                                                         *)
StepScAfterLr ==
    ((Executes("sc.w") \/ Executes("sc.d")) /\ st'.mem # st.mem) => st.mem = reserved

(* The end of a mapping of len bytes, in whole pages and without a limit.   *)
(* rv_sys_mmap computes it in the register: an end of 2^XLEN or more wraps  *)
(* below the memory's size it is compared with (the break in the last page  *)
(* of the register's range, or a length that reaches beyond it).            *)
Pages(v) == ((v + Page - 1) \div Page) * Page
MmapEnd == Pages(st.brk) + Pages(st.regs[REG_A0 + 1])
MmapWraps == MmapEnd >= 2^W

(* mmap hands out fresh memory or refuses.  Pages that end inside the       *)
(* memory are granted: they lie above the old break and below the new one,  *)
(* they are zero, and no other byte of the memory changes.  Pages that do   *)
(* not are refused with -ENOMEM and nothing changes.  The exception is      *)
(* MmapWraps.                                                               *)
StepMmapIsFresh ==
    LET at == st'.regs[REG_A0]
        len == st.regs[REG_A0 + 1]
    IN (Calls(SYS_MMAP) /\ ~MmapWraps)
       => IF MmapEnd <= RV_MEMORY_MASK
          THEN /\ st'.status = "run" /\ st.brk <= at /\ at + len <= st'.brk /\ st'.brk <= RV_MEMORY_MASK
               /\ \A a \in DOMAIN st.mem : st'.mem[a] = IF a \in at .. st'.brk - 1 THEN 0 ELSE st.mem[a]
          ELSE at = from_u64(-12) /\ st'.mem = st.mem /\ st'.brk = st.brk

(* Over every sequence of brk and mmap calls the break of a running program *)
(* stays between its start and the end of the memory: on RV64 always, for   *)
(* there a wrapping mmap runs into the guard page or maps nothing; on RV32, *)
(* where the memory is all a register can address, until an mmap wraps.     *)
BreakInRange(s) == s.brk \in s.start_brk .. RV_MEMORY_MASK
StepBrkInRange ==
    (BreakInRange(st) /\ st'.status = "run" /\ ~BreakInRange(st'))
    => Calls(SYS_MMAP) /\ MmapWraps /\ MemBits = W
=================================================================================
