------------------------------- MODULE Arm64Hart --------------------------------
(***************************************************************************)
(* The ARM64 code of one instruction executed on the host and compared     *)
(* with the instruction set.  Every instruction has a label and the        *)
(* emitter starts it with nothing cached (emit_pc_label), so what comes    *)
(* before it is any host state whose hot registers hold the guest's: the   *)
(* temporaries, the cold cache and the slots start with arbitrary values.  *)
(* A scenario is [cfg, files: register files, reserved: whether a          *)
(* reservation is held, instrs, handler, due: how many instructions until  *)
(* target_instret].                                                        *)
(***************************************************************************)
EXTENDS Arm64Cpu

CONSTANTS
    Scenarios,          \* set of names
    Scenario(_),
    Request             \* where the image holds a call of the host: a write of 5 bytes

I == INSTANCE Isa WITH MemSize <- 2^MemBits

VARIABLES
    scen,        \* the scenario
    ins,         \* the instruction translated, or <<>>
    code,        \* its code
    before,      \* the guest as the code found it, or <<>>
    h            \* the host

vars == <<scen, ins, code, before, h>>
(* The stream around the instruction: no other starts inside it. *)
CfgFor(i) == [Scenario(scen).cfg EXCEPT !.valid = @ \ (i.pc + 1 .. i.pc + i.size - 1)]
Cfg == CfgFor(ins)

Image == [a \in 0 .. 2^MemBits - 1 |-> (7 * a + 3) % 2^Byte]
Memory ==
    LET field(m, k, v) == StoreBytes(m, FieldAt(Request, k), HTIF_FIELD_SIZE, v)
    IN field(field(field(Image, 0, HTIF_SYS_WRITE), 1, HTIF_STDOUT_FD), 3, 5)
INSTRET0 == 2^W32 + 5
TraceFields == {"pc", "rd", "rd_value", "mem_addr", "mem_value", "mem_width", "is_write", "has_rd", "has_mem", "valid"}

(* The RvState at the label, as the runner and earlier instructions left it.*)
Guest(file, reserved) ==
    [regs |-> file, mem |-> Memory, csrs |-> [n \in {"mscratch"} |-> 0], instret |-> INSTRET0,
     res_addr |-> IF reserved THEN 8 ELSE 0, res_valid |-> Truth(reserved), tmp |-> <<>>, pc |-> 0,
     exited |-> 0, exit_code |-> 0, brk |-> Page, start_brk |-> Page, status |-> "run"]
Entered(s, cfg, due) ==
    emit_prologue(cfg, [x |-> [n \in 0 .. 30 |-> Scratch(n)], cmp |-> <<0, 0, Host>>,
                        slot |-> [k \in 0 .. 7 |-> Scratch(40 + k)], st |-> s, target |-> INSTRET0 + due,
                        trace |-> [f \in TraceFields |-> 7], line |-> 1, at |-> <<>>])

Init == /\ scen \in Scenarios
        /\ ins = <<>>
        /\ code = <<>>
        /\ before = <<>>
        /\ h = <<>>

(* The guest registers wherever they live. *)
View(s, cfg) == Saved(cfg, s).st

Translate(i) ==
    /\ ins = <<>>
    /\ ins' = i
    /\ code' = emit_instructions(CfgFor(i), i, lift(i, Scenario(scen).handler)).asm
    /\ UNCHANGED <<scen, before, h>>

(* Control reaches its label in the host state e. *)
Execute(e) ==
    /\ before = <<>>
    /\ before' = View(e, Cfg)
    /\ h' = emit_epilogue(Cfg, Run(Cfg, code, e))
    /\ UNCHANGED <<scen, ins, code>>

Next == \/ \E i \in Scenario(scen).instrs : Translate(i)
        \/ /\ ins # <<>>
           /\ \E file \in Scenario(scen).files, r \in Scenario(scen).reserved :
                Execute(Entered(Guest(file, r), Cfg, Scenario(scen).due))
Spec == Init /\ [][Next]_vars

---------------------------------------------------------------------------------
Done == before # <<>>
Kind == I!FormOf(ins.op)
After == View(h, Cfg)
Reference == I!Step([before EXCEPT !.pc = ins.pc], ins, Kind)
Fall == ins.pc + ins.size
Due == Cfg.instret \in {"Suspend", "PerInstruction"} /\ Scenario(scen).due = 1
Suspended == h.at = <<"exit">> /\ h.st.exited = 0
Ran == h.at[1] \in {"fall", "pc"} \/ Suspended
NextPc == CASE h.at[1] = "fall" -> NextInStream(Cfg, ins)
            [] h.at[1] = "pc" -> h.at[2]
            [] OTHER -> h.st.pc

(* The assembler takes the code: each immediate the emitter writes into an  *)
(* operation has an encoding there.                                         *)
Assembles == ~Done => \A k \in DOMAIN code : AssemblerTakes(code[k])

(* What the backend does not implement: packing, bit reversal and csrs      *)
(* other than the counters; a counter read counts the instruction itself.   *)
Unimplemented == ins.op \in {"pack", "packh", "packw", "brev8", "zip", "unzip"} \/ Kind.form = "csr"

(* mulhsu reads its operands after writing its destination.                 *)
IsCold(rv) == rv # 0 /\ rv \notin DOMAIN Cfg.hot
MulhsuOverwrites == ins.op = "mulhsu" /\ (ins.rd = ins.rs2 \/ IsCold(ins.rd))

(* A branch has one register, x17, for the cold registers it compares; and  *)
(* a branch or jump that may suspend expects there what only the suspending *)
(* path has loaded.                                                         *)
ColdBranch ==
    \/ /\ Kind.form = "branch" /\ IsCold(ins.rs1) /\ IsCold(ins.rs2) /\ ins.rs1 # ins.rs2
    \/ /\ Kind.form \in {"branch", "jalr"} /\ (IsCold(ins.rs1) \/ IsCold(ins.rs2))
       /\ Cfg.instret \in {"Suspend", "PerInstruction"} /\ ~Due

(* The select of a minimum or maximum keeps its values in the slots of IR   *)
(* temps 0 and 1; lift_amo keeps the address in temp 1 when rd is rs1.      *)
MinMax == Kind.form = "amo" /\ ins.op \notin {n \o w : n \in {"amoswap", "amoadd", "amoxor", "amoand", "amoor"}, w \in {".w", ".d"}}
SelectOverwrites == MinMax /\ ins.rd = ins.rs1 /\ ins.rd # 0

(* A jump to itself is not emitted. *)
SelfJump == Kind.form = "jal" /\ ins.imm = 0

(* An instruction with none behind it, where the bytes do not decode, runs  *)
(* on into the next one emitted.                                            *)
NoneBehind == Fall \notin Cfg.valid /\ Reference.pc = Fall

(* RV32 adds the offset in a host register twice as wide: a sum outside the *)
(* guest register's range is not the address it wraps to until it is        *)
(* masked.                                                                  *)
InMemory(a, width) == a \in 0 .. 2^MemBits - width
Sum == I!Get(before, ins.rs1) + (IF Kind.form \in {"load", "store"} THEN ins.imm ELSE 0)
AddressOf == from_u64(Sum)
Carries == ~Rv64 /\ Cfg.mode # "Wrap" /\ Sum \notin Reg
Accesses == Kind.form \in {"store", "sc", "amo"} \/ (Kind.form \in {"load", "lr"} /\ ins.rd # 0)
AccessIsGood == Accesses => InMemory(AddressOf, Kind.width)
ToHost == /\ Kind.form \in {"store", "sc", "amo"}
          /\ Kind.width \in {4, 8} /\ Low(AddressOf, W32) = TOHOST

(* An instruction that runs leaves registers, memory, reservation and next  *)
(* pc as the instruction set says, whichever operands are hot, cold, x0 or  *)
(* the same register and whatever the temporaries held before.  A hot       *)
(* register of RV32 has no bits above XLEN, for it serves as an address as  *)
(* it is (all but the upper half of a product, which is sign-extended).     *)
HotClean == ins.op \notin {"mulh", "mulhsu"} => \A rv \in Hot(Cfg) \cap DOMAIN h.st.regs : h.x[Cfg.hot[rv]] \in Reg
Implements(after, reference) ==
    /\ HotClean
    /\ after.regs = reference.regs
    /\ after.mem = reference.mem
    /\ after.res_valid = reference.res_valid
    /\ reference.res_valid = 1 => after.res_addr = reference.res_addr
    /\ NextPc = reference.pc
ImplementsIsa ==
    (/\ Done /\ ins.op # "ecall" /\ Ran /\ AccessIsGood /\ ~ToHost
     /\ ~Unimplemented /\ ~MulhsuOverwrites /\ ~SelectOverwrites /\ ~ColdBranch /\ ~SelfJump /\ ~NoneBehind)
    => Implements(After, Reference)

(* Control leaves the code only for a reason: a trap or a fault has an      *)
(* access outside the memory, or a next pc that is no instruction, behind   *)
(* it (or an address that Carries); and in Bounds mode an access outside    *)
(* the memory does trap, unless the address is the sign extension of one    *)
(* inside.                                                                  *)
StopsOnlyOnBadAccess ==
    (Done /\ ins.op # "ecall" /\ ~ColdBranch /\ ~ToHost /\ ~SelectOverwrites)
    => /\ h.at[1] \in {"trap", "fault", "ub"}
          => ~AccessIsGood \/ Reference.pc \notin Cfg.valid \/ (Accesses /\ Carries)
       /\ (Cfg.mode = "Bounds" /\ Accesses /\ AddressOf \in 2^MemBits .. 2^W - 2^MemBits - 1) => h.at = <<"trap">>
       /\ Cfg.mode = "Bounds" => h.at[1] # "ub"

(* The program is suspended after an instruction exactly when it reached    *)
(* target_instret, with every instruction counted once and the pc of the    *)
(* next one saved, whichever way control was to leave.                      *)
SuspendsOnTime ==
    (Done /\ Cfg.instret # "Off" /\ Ran /\ ins.op # "ecall")
    => /\ Suspended = Due
       /\ After.instret = before.instret + 1
       /\ (Suspended /\ ~ToHost /\ ~SelfJump /\ ~ColdBranch /\ ~NoneBehind) => NextPc = Reference.pc

(* The diff record of an instruction tells what it did: its pc, the         *)
(* register it wrote and the value, the memory it accessed, how wide, which *)
(* way and what value.  A load into a cold register, which overwrites the   *)
(* address before it is recorded, is the exception for mem_addr.            *)
Recorded == [f \in TraceFields |-> h.trace[f]]
TraceIsExact ==
    LET r == Recorded
        n == Byte * Kind.width
        writes == ins.rd # 0 /\ Kind.form \notin {"store", "branch", "nop", "ebreak"}
        stores == Kind.form \in {"store", "amo"} \/ (Kind.form = "sc" /\ before.res_valid = 1
                                                       /\ before.res_addr = AddressOf)
        accessed == stores \/ (Accesses /\ Kind.form \in {"load", "lr"})
    IN (Done /\ Cfg.diff /\ Ran /\ AccessIsGood /\ ~ToHost /\ ~MulhsuOverwrites /\ ~Unimplemented)
       => /\ r["pc"] = ins.pc /\ r["valid"] = 1
          /\ r["has_rd"] = Truth(writes)
          /\ writes => r["rd"] = ins.rd /\ r["rd_value"] = Reference.regs[ins.rd]
          /\ r["has_mem"] = Truth(accessed)
          /\ accessed => /\ r["is_write"] = Truth(stores) /\ r["mem_width"] = Kind.width
                         /\ (stores \/ ~IsCold(ins.rd)) => r["mem_addr"] = AddressOf
                         /\ r["mem_value"] = LoadBytes(h.st.mem, AddressOf, Kind.width)

SameData(after, c) == after.regs = c.regs /\ after.mem = c.mem /\ after.brk = c.brk
SameExit(after, c) == after.exited = c.exited /\ after.exit_code = c.exit_code
(* An ecall, and a store to TOHOST, do what the C backend's do: the same    *)
(* registers, memory and break, and the same exit or the same next pc; an   *)
(* ecall with none behind it traps or suspends, what faults there faults    *)
(* here.  A call of the host whose fields leave the memory is undefined in  *)
(* C; Bounds mode traps on an address outside the memory, as on any access. *)
InC == render_instruction(Cfg.mode, [before EXCEPT !.pc = ins.pc, !.tmp = [k \in 0 .. 3 |-> 0]],
                          lift(ins, Scenario(scen).handler))
AgreesWith(c) ==
    CASE c.status = "exit" -> SameData(After, c) /\ SameExit(After, c)
      [] c.status = "run" ->
            /\ SameData(After, c)
            /\ c.pc \in Cfg.valid => SameExit(After, c) /\ Ran /\ NextPc = c.pc
            /\ (c.pc \notin Cfg.valid /\ ins.op = "ecall") => h.at = <<"trap">> \/ (Suspended /\ NextPc = c.pc)
      [] c.status = "ub" ->
            (Cfg.mode = "Bounds" /\ I!Get(before, ins.rs2) \in 2^MemBits .. 2^W - 2^MemBits - 1) => h.at = <<"trap">>
      [] OTHER -> h.at = <<"fault">>
HostCallsAgreeWithC == (Done /\ (ins.op = "ecall" \/ (Kind.form = "store" /\ ToHost))) => AgreesWith(InC)
=================================================================================
