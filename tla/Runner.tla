------------------------------- MODULE Runner -------------------------------
(***************************************************************************)
(* The runner: it loads a compiled library and its ELF file, chooses the   *)
(* state struct that goes with the library, and then the host program      *)
(* calls it in any order: prepare, run, call a function, step towards a    *)
(* count, read and write registers and memory, save and load the machine.  *)
(*                                                                         *)
(* lib     the library's configuration (StateLayout)                       *)
(* elf     the program: headers, file bytes, symbols, entry                *)
(* host    the operations this host program uses                           *)
(* loaded  "no", "ok", or the error Runner::load returned                  *)
(* maps    for a library with fixed addresses, where it wants its state    *)
(*         and memory, and the pages mapped for them                       *)
(* m       the machine: RvState and guest memory                           *)
(* file    a saved state on disk, which may be cut short or be another     *)
(*         machine's                                                       *)
(* op      ghost: the last operation and what it reported                  *)
(* began   ghost: the machine as the library last received it              *)
(* limit   ghost: the instruction count the host last asked to stop at     *)
(*                                                                         *)
(* Addresses count cells of guest memory; the 64 KiB buffer of a saved     *)
(* state is CHUNK cells.  Of the registers, those a runner sets by number  *)
(* are kept, and x16, which only an RV32I or RV64I machine has.            *)
(***************************************************************************)
EXTENDS StateLayout

CONSTANTS MemSize,       \* guest memory, in cells
          CHUNK,         \* cells per chunk of a saved state
          AddrSpace,     \* 2^64, in cells
          AddrSpace32,   \* 2^32, in cells
          MAX_SEGMENTS,
          GUARD,         \* pages of a guard zone
          MaxInstret,    \* bound on the instructions counted
          Scenarios      \* the libraries, fixed addresses, programs and host programs considered

ASSUME RunnerAssumption ==
  /\ MemSize \in Nat \ {0} /\ GUARD \in Nat \ {0} /\ MaxInstret \in Nat
  /\ CHUNK \in Nat \ {0}
  /\ AddrSpace32 \in Nat \ {0} /\ AddrSpace \in Nat /\ 2 * AddrSpace32 <= AddrSpace

\* What ElfFile parses a file into: every field of a header is an unsigned number.
ASSUME ScenariosAssumption ==
  \A s \in Scenarios :
    /\ s.lib.xlen \in {32, 64}
    /\ s.elf.phdrs \in Seq([load : BOOLEAN, vaddr : Nat, memsz : Nat, offset : Nat, filesz : Nat])
    /\ s.elf.bytes \in Seq(Nat)
    /\ s.at.state \in Nat /\ s.at.memory \in Nat

VARIABLES lib, elf, host, loaded, maps, m, file, op, began, limit

vars == <<lib, elf, host, loaded, maps, m, file, op, began, limit>>

U64_MAX == MaxInstret + 1000
Cells == 0..MemSize - 1

\* What a guest leaves in everything it can write.
Dirt == 77

None == [none |-> TRUE]

RegSeq(l) == IF l.rve THEN <<0, 1, 2, 3, 10>> ELSE <<0, 1, 2, 3, 10, 16>>
Regs == Range(RegSeq(lib))

--------------------------------------------------------------------------
(* The runners.  The eight implementations of RunnerImpl do the same       *)
(* things to states of different types: their operations are the operators *)
(* set_reg, read_memory, load_segments, reset, ... below, and a record     *)
(* holds what sets one implementation apart: the tracer and the suspender  *)
(* in its state, and whether that state is at a fixed address.             *)

TypedRunner == [tracer |-> "None", suspender |-> FALSE, fixed |-> FALSE]
SuspendRunner == [tracer |-> "None", suspender |-> TRUE, fixed |-> FALSE]
PreflightRunner == [tracer |-> "Preflight", suspender |-> FALSE, fixed |-> FALSE]
StatsRunner == [tracer |-> "Stats", suspender |-> FALSE, fixed |-> FALSE]
DebugRunner == [tracer |-> "Debug", suspender |-> FALSE, fixed |-> FALSE]
DiffRunner == [tracer |-> "Diff", suspender |-> TRUE, fixed |-> FALSE]
BufferedDiffRunner == [tracer |-> "BufferedDiff", suspender |-> TRUE, fixed |-> FALSE]
FixedAddrRunner == [tracer |-> "None", suspender |-> FALSE, fixed |-> TRUE]

\* create_rv32_runner and create_rv64_runner: the tracer decides before the count does.
create_rv_runner(kind, mode) ==
  CASE kind = "Preflight" -> PreflightRunner
    [] kind = "Stats" -> StatsRunner
    [] kind = "Debug" -> DebugRunner
    [] kind = "Diff" -> DiffRunner
    [] kind = "BufferedDiff" -> BufferedDiffRunner
    [] OTHER -> IF is_suspend(mode) THEN SuspendRunner ELSE TypedRunner

RunnerFor(l) ==
  IF l.fixed THEN FixedAddrRunner
  ELSE create_rv_runner(TracerKind_from_raw(as_c_kind(l.tracer)), l.instret)

runner == RunnerFor(lib)

--------------------------------------------------------------------------
(* ELF files.  A header is [load, vaddr, memsz, offset, filesz].           *)

\* The headers validate_segments keeps.
Loadable(e) == {i \in DOMAIN e.phdrs : e.phdrs[i].load /\ e.phdrs[i].memsz > 0}

EndOf(p) == p.vaddr + p.memsz

\* Mutated form: two segments overlap only if the later one starts in the earlier.
validate_segmentsOneWay(e) ==
  LET overlap(p, q) == p.vaddr <= q.vaddr /\ q.vaddr < EndOf(p)
  IN  IF \E i \in Loadable(e) : \/ e.phdrs[i].offset + e.phdrs[i].filesz > Len(e.bytes)
                                \/ EndOf(e.phdrs[i]) >= AddrSpace
      THEN "SegmentBeyondFile"
      ELSE IF Loadable(e) = {} THEN "NoLoadableSegments"
      ELSE IF Cardinality(Loadable(e)) > MAX_SEGMENTS THEN "TooManySegments"
      ELSE IF \E i, j \in Loadable(e) : i < j /\ overlap(e.phdrs[i], e.phdrs[j])
      THEN "OverlappingSegments"
      ELSE "ok"

\* ElfImage::validate_segments: the error of the first header in error, or "ok".
validate_segments(e) ==
  LET beyond(p) == p.offset + p.filesz > Len(e.bytes)
      overflows(p) == EndOf(p) >= AddrSpace
      bad == {i \in Loadable(e) : beyond(e.phdrs[i]) \/ overflows(e.phdrs[i])}
      overlap(p, q) == ~(EndOf(p) <= q.vaddr \/ EndOf(q) <= p.vaddr)
  IN  IF bad # {}
      THEN IF beyond(e.phdrs[Min(bad)]) THEN "SegmentBeyondFile" ELSE "VirtualAddressOverflow"
      ELSE IF Loadable(e) = {} THEN "NoLoadableSegments"
      ELSE IF Cardinality(Loadable(e)) > MAX_SEGMENTS THEN "TooManySegments"
      ELSE IF \E i, j \in Loadable(e) : i < j /\ overlap(e.phdrs[i], e.phdrs[j])
      THEN "OverlappingSegments"
      ELSE "ok"

\* ElfImage::load_segments: file bytes only, the rest of a segment stays zero.
Data(e, i) ==
  SubSeq(e.bytes, e.phdrs[i].offset + 1, e.phdrs[i].offset + e.phdrs[i].filesz)

\* The end of a segment as load_segments keeps it, in a register of the machine.
virtual_end(e, i) == EndOf(e.phdrs[i]) % (IF lib.xlen = 32 THEN AddrSpace32 ELSE AddrSpace)

get_initial_program_break(e) == Max({0} \cup {virtual_end(e, i) : i \in Loadable(e)})

\* lookup_symbol: the symbol's value, if the file has one of that name.
lookup_symbol(e, name) == IF name \in DOMAIN e.symbols THEN {e.symbols[name]} ELSE {}

--------------------------------------------------------------------------
(* Guest memory.                                                           *)

\* GuardedMemory::clear and copy_from.
clear == [a \in Cells |-> 0]

copy_from(bytes, offset, data) ==
  [a \in Cells |-> IF a \in offset..offset + Len(data) - 1 THEN data[a - offset + 1] ELSE bytes[a]]

\* RunnerImpl::read_memory and write_memory, cut off at the end of memory.
read_memory(bytes, addr, len) ==
  IF addr >= MemSize THEN <<>>
  ELSE [i \in 1..Min({len, MemSize - addr}) |-> bytes[addr + i - 1]]

write_memory(bytes, addr, data) ==
  IF addr >= MemSize THEN bytes
  ELSE copy_from(bytes, addr, SubSeq(data, 1, Min({Len(data), MemSize - addr})))

\* RunnerImpl::load_segments: memory is cleared, then each segment copied in turn.
load_segments(mm) ==
  LET mem[i \in 0..Len(elf.phdrs)] ==
        IF i = 0 THEN clear
        ELSE IF i \in Loadable(elf) THEN copy_from(mem[i - 1], elf.phdrs[i].vaddr, Data(elf, i))
        ELSE mem[i - 1]
  IN  [mm EXCEPT !.mem = mem[Len(elf.phdrs)]]

\* FixedMemory::new: the pages taken, by protection.
FixedMemory_new(addr, size) ==
  IF addr = 0 \/ size = 0 THEN None ELSE [rw |-> addr..addr + size - 1, guard |-> {}]

\* Mutated form: the size of the region counts one guard zone, not two.
new_at_fixedOneGuard(used, addr, size) ==
  LET start == Max({addr - GUARD, 0})
      pages == start..start + size + GUARD - 1
      usable == start + GUARD..start + GUARD + size - 1
  IN  IF size = 0 \/ start = 0 \/ pages \cap used # {} THEN None
      ELSE [rw |-> usable, guard |-> pages \ usable]

\* GuardedMemory::new_at_fixed, with a guard zone on either side.
new_at_fixed(used, addr, size) ==
  LET start == Max({addr - GUARD, 0})
      pages == start..start + size + 2 * GUARD - 1
      usable == start + GUARD..start + GUARD + size - 1
  IN  IF size = 0 \/ start = 0 \/ pages \cap used # {} THEN None
      ELSE [rw |-> usable, guard |-> pages \ usable]

--------------------------------------------------------------------------
(* The state.                                                              *)

\* RvState::default, with the break each runner's constructor sets.
RvState_default(l, brk) ==
  [regs |-> [r \in Range(RegSeq(l)) |-> 0], pc |-> 0, instret |-> 0,
   target |-> IF RunnerFor(l).suspender THEN U64_MAX ELSE 0,
   reserved |-> FALSE, has_exited |-> 0, exit_code |-> 0, brk |-> brk, start_brk |-> brk,
   csr |-> 0, mem |-> clear]

\* Mutated form: the reservation survives.
RvState_resetKeepsReservation(mm) ==
  [mm EXCEPT !.regs = [r \in DOMAIN @ |-> 0], !.pc = 0, !.instret = 0,
             !.has_exited = 0, !.exit_code = 0]

\* RvState::reset.
RvState_reset(mm) ==
  [mm EXCEPT !.regs = [r \in DOMAIN @ |-> 0], !.pc = 0, !.instret = 0, !.reserved = FALSE,
             !.has_exited = 0, !.exit_code = 0]

\* FixedAddrRunner::reset.
FixedAddrRunner_reset(mm) ==
  [mm EXCEPT !.regs = [r \in DOMAIN @ |-> 0], !.instret = 0, !.has_exited = 0, !.exit_code = 0]

\* InstretSuspender::disable and set_target.
disable(mm) == [mm EXCEPT !.target = U64_MAX]
set_target(mm, t) == [mm EXCEPT !.target = t]

\* RunnerImpl::reset of the eight runners.
reset(mm) ==
  IF runner.fixed THEN FixedAddrRunner_reset(mm)
  ELSE IF runner.suspender THEN disable(RvState_reset(mm))
  ELSE RvState_reset(mm)

\* RvState::clear_exit.
clear_exit(mm) == [mm EXCEPT !.has_exited = 0, !.exit_code = 0]

\* RvState::set_reg: x0 stays zero.
set_reg(mm, r, v) == IF r = 0 THEN mm ELSE [mm EXCEPT !.regs[r] = v]

\* RunnerImpl::get_target_instret and set_target_instret.
get_target_instret(mm) == IF runner.suspender THEN {mm.target} ELSE {}
set_target_instret(mm, t) == IF runner.suspender THEN set_target(mm, t) ELSE mm

setup_initial_regs(mm) ==
  LET put(acc, r, name) == IF lookup_symbol(elf, name) = {} THEN acc
                           ELSE set_reg(acc, r, CHOOSE v \in lookup_symbol(elf, name) : TRUE)
  IN  set_reg(put(put(mm, 3, "__global_pointer$"), 2, "__stack_top"), 1, 0)

--------------------------------------------------------------------------
(* The library.                                                            *)

\* The machine after n instructions; a guest that writes leaves everything it can
\* write changed, and the break where it asked for it.
Ran(mm, n, exits, code, writes, brk) ==
  LET ran == [mm EXCEPT !.instret = n, !.pc = Dirt, !.exit_code = code,
                        !.has_exited = IF exits THEN 1 ELSE @]
      dirty == [ran EXCEPT !.regs = [r \in DOMAIN @ |-> IF r = 0 THEN 0 ELSE Dirt],
                           !.mem = [a \in Cells |-> Dirt], !.brk = brk, !.csr = Dirt,
                           !.reserved = TRUE]
  IN  IF writes THEN dirty ELSE ran

\* rv_execute_from: the guest runs from pc.  It comes back when it exits or, if
\* the library suspends, once the count has reached the target: at it when every
\* instruction is checked.
rv_execute_from(mm, pc) ==
  /\ began' = [mm EXCEPT !.pc = pc]
  /\ \E n \in IF lib.instret = 0 THEN {mm.instret} ELSE mm.instret + 1..MaxInstret,
        exits, writes \in BOOLEAN :
       /\ ~exits => suspends(lib.instret) /\ n >= mm.target
       /\ lib.instret = 3 => n <= Max({mm.target, mm.instret + 1})
       /\ \E brk \in {mm.brk} \cup (IF writes THEN mm.start_brk..MemSize - 1 ELSE {}),
             code \in IF exits THEN {0, 1} ELSE {mm.exit_code} :
            m' = Ran(mm, n, exits, code, writes, brk)

Uses(name) == loaded = "ok" /\ name \in host

Done(name, result) == op' = [name |-> name, result |-> result]

\* An operation that leaves the library alone.
HostOnly(name, result) == Done(name, result) /\ began' = None

Kept == UNCHANGED <<lib, elf, host, loaded, maps>>

--------------------------------------------------------------------------
(* Operations of the host program.                                         *)

\* Runner::load_with_memory.
Load ==
  /\ loaded = "no"
  /\ LET state == FixedMemory_new(maps.at.state, 1)
         memory == IF state = None THEN None ELSE new_at_fixed(state.rw, maps.at.memory, MemSize)
         verdict == IF validate_segments(elf) # "ok" THEN validate_segments(elf)
                    ELSE IF lib.fixed /\ memory = None THEN "FixedAddressUnavailable"
                    ELSE "ok"
     IN  /\ loaded' = verdict
         /\ maps' = IF lib.fixed /\ verdict = "ok" THEN [maps EXCEPT !.state = state, !.memory = memory]
                    ELSE maps
         /\ m' = IF verdict = "ok" THEN RvState_default(lib, get_initial_program_break(elf)) ELSE m
         /\ HostOnly("load", verdict)
  /\ UNCHANGED <<lib, elf, host, file, limit>>

\* Runner::prepare.
prepare ==
  /\ Uses("prepare")
  /\ m' = reset(load_segments(m))
  /\ limit' = U64_MAX
  /\ HostOnly("prepare", "ok") /\ Kept /\ UNCHANGED file

\* Runner::set_register, set_pc, set_csr, clear_exit and write_memory.
poke ==
  /\ Uses("poke")
  /\ \/ \E r \in {0, 10} : m' = set_reg(m, r, Dirt)
     \/ m' = [m EXCEPT !.pc = Dirt]
     \/ m' = IF runner.fixed THEN m ELSE [m EXCEPT !.csr = Dirt]
     \/ m' = clear_exit(m)
     \/ \E a \in {MemSize - 1, MemSize} : m' = [m EXCEPT !.mem = write_memory(@, a, <<Dirt, Dirt>>)]
  /\ HostOnly("poke", "ok") /\ Kept /\ UNCHANGED <<file, limit>>

\* Runner::set_target_instret: refused by a runner without a suspender.
SetTargetInstret ==
  /\ Uses("set_target_instret")
  /\ \E t \in 1..MaxInstret :
       /\ m' = set_target_instret(m, t)
       /\ limit' = IF runner.suspender THEN t ELSE limit
       /\ HostOnly("set_target_instret", IF runner.suspender THEN "ok" ELSE "refused")
  /\ Kept /\ UNCHANGED file

\* Runner::execute_from, from the current pc: an error if the guest left a code.
execute_from ==
  /\ Uses("execute_from")
  /\ lib.instret # 0 => m.instret < MaxInstret
  /\ rv_execute_from(m, m.pc)
  /\ Done("execute_from", IF m'.exit_code # 0 THEN "ExecutionError" ELSE "ok")
  /\ Kept /\ UNCHANGED <<file, limit>>

\* Runner::reset_and_run_to_instret.
reset_and_run_to_instret ==
  /\ Uses("reset_and_run_to_instret")
  /\ \E t \in 1..MaxInstret :
       /\ rv_execute_from(clear_exit(set_target_instret(setup_initial_regs(reset(load_segments(m))), t)),
                          elf.entry)
       /\ limit' = IF runner.suspender THEN t ELSE U64_MAX
  /\ Done("reset_and_run_to_instret", IF m'.exit_code # 0 THEN "ExecutionError" ELSE "ok")
  /\ Kept /\ UNCHANGED file

\* Mutated form: the target is read after the reset.
RunFromLate(mm) ==
  LET fresh == setup_initial_regs(reset(load_segments(mm)))
      saved == get_target_instret(fresh)
  IN  IF saved \ {U64_MAX} = {} THEN fresh
      ELSE set_target_instret(fresh, CHOOSE t \in saved : TRUE)

\* Runner::run: the target is saved before the reset that disables it.
RunFrom(mm) ==
  LET saved == get_target_instret(mm)
      fresh == setup_initial_regs(reset(load_segments(mm)))
  IN  IF saved \ {U64_MAX} = {} THEN fresh
      ELSE set_target_instret(fresh, CHOOSE t \in saved : TRUE)

run ==
  /\ Uses("run")
  /\ rv_execute_from(RunFrom(m), elf.entry)
  /\ Done("run", "ok") /\ Kept /\ UNCHANGED <<file, limit>>

\* Runner::run_multiple, one of its runs: gp, sp and ra are left at zero.
run_multiple ==
  /\ Uses("run_multiple")
  /\ rv_execute_from(reset(load_segments(m)), elf.entry)
  /\ limit' = U64_MAX
  /\ Done("run_multiple", "ok") /\ Kept /\ UNCHANGED file

\* Runner::run_with_counters, and each run of run_multiple_with_counters.
run_with_counters ==
  /\ Uses("run_with_counters")
  /\ rv_execute_from(setup_initial_regs(reset(load_segments(m))), elf.entry)
  /\ limit' = U64_MAX
  /\ Done("run_with_counters", "ok") /\ Kept /\ UNCHANGED file

\* Runner::call_addr with n arguments: more than eight are refused, and an
\* argument register the machine does not have stops the host with a panic,
\* unless the runner is the one that ignores it.
MaxArgs == 8

call_addr(n) ==
  LET fresh == reset(load_segments(m))
      args == {10 + i : i \in 0..n - 1}
      panics == ~runner.fixed /\ \E r \in args : r >= NumRegs(lib)
      ready == [fresh EXCEPT !.regs = [r \in DOMAIN @ |-> IF r \in args THEN Dirt
                                                         ELSE IF r = 1 THEN 0 ELSE @[r]]]
  IN  /\ Uses("call")
      /\ IF n > MaxArgs
         THEN m' = m /\ HostOnly("call", "too many arguments") /\ UNCHANGED limit
         ELSE IF panics
         THEN m' = fresh /\ HostOnly("call", "panic") /\ limit' = U64_MAX
         ELSE rv_execute_from(ready, elf.entry) /\ Done("call", "ok") /\ limit' = U64_MAX
      /\ Kept /\ UNCHANGED file

call == \E n \in {0, 1, 7, 9} : call_addr(n)

--------------------------------------------------------------------------
(* Saved states.                                                           *)

Header == [version |-> 1, xlen |-> lib.xlen, num_regs |-> NumRegs(lib), mem_size |-> MemSize]

Chunks == (MemSize + CHUNK - 1) \div CHUNK
ChunkSize(k) == Min({CHUNK, MemSize - (k - 1) * CHUNK})

\* A file's items: the header, pc, instret, one register each, one chunk each.
Items == 3 + Len(RegSeq(lib)) + Chunks

\* Runner::save_state.
save_state ==
  /\ Uses("save_state")
  /\ file' = [header |-> Header, pc |-> m.pc, instret |-> m.instret,
              regs |-> [i \in 1..Len(RegSeq(lib)) |-> m.regs[RegSeq(lib)[i]]],
              chunks |-> [k \in 1..Chunks |-> read_memory(m.mem, (k - 1) * CHUNK, ChunkSize(k))],
              items |-> Items, of |-> [pc |-> m.pc, regs |-> m.regs, mem |-> m.mem]]
  /\ HostOnly("save_state", "ok") /\ Kept /\ UNCHANGED <<m, limit>>

\* A save or a copy that stopped half way, or the file of another machine.
FileDamaged ==
  /\ Uses("load_state")
  /\ file # None /\ file.items = Items /\ file.header = Header
  /\ \/ \E n \in 0..file.items - 1 : file' = [file EXCEPT !.items = n]
     \/ \E f \in {"version", "xlen", "num_regs", "mem_size"} : file' = [file EXCEPT !.header[f] = 0]
  /\ UNCHANGED <<lib, elf, host, loaded, maps, m, op, began, limit>>

\* The checks of Runner::load_state on magic, version, xlen, num_regs and mem_size.
header_matches(f) == f.items >= 1 /\ f.header = Header

\* The registers of a file, as far as it goes; x0 stays what it is.
LoadedRegs(f) ==
  [r \in Regs |-> LET i == CHOOSE i \in 1..Len(RegSeq(lib)) : RegSeq(lib)[i] = r
                 IN  IF r # 0 /\ 3 + i <= f.items THEN f.regs[i] ELSE m.regs[r]]

\* Mutated form: each chunk is written over the one before.
LoadedMemoryFromStart(f) ==
  LET mem[k \in 0..Chunks] ==
        IF k = 0 THEN m.mem
        ELSE IF 3 + Len(RegSeq(lib)) + k <= f.items THEN write_memory(mem[k - 1], 0, f.chunks[k])
        ELSE mem[k - 1]
  IN  mem[Chunks]

\* Its chunks of memory, one after the other.
LoadedMemory(f) ==
  LET mem[k \in 0..Chunks] ==
        IF k = 0 THEN m.mem
        ELSE IF 3 + Len(RegSeq(lib)) + k <= f.items
             THEN write_memory(mem[k - 1], (k - 1) * CHUNK, f.chunks[k])
        ELSE mem[k - 1]
  IN  mem[Chunks]

\* Runner::load_state: the header is checked before anything is written, what
\* follows is written as it is read, and the instruction count is read and
\* dropped.
LoadedFrom(f) ==
  [m EXCEPT !.pc = IF f.items >= 2 THEN f.pc ELSE @, !.regs = LoadedRegs(f),
            !.mem = LoadedMemory(f)]

load_state ==
  /\ Uses("load_state")
  /\ LET readable == file # None /\ header_matches(file)
     IN  IF readable
         THEN /\ m' = LoadedFrom(file)
              /\ HostOnly("load_state", IF file.items = Items THEN "ok" ELSE "StateError")
         ELSE m' = m /\ HostOnly("load_state", "StateError")
  /\ Kept /\ UNCHANGED <<file, limit>>

--------------------------------------------------------------------------
Init ==
  /\ \E s \in Scenarios : lib = s.lib /\ elf = s.elf /\ host = s.host
                           /\ maps = [at |-> s.at, state |-> None, memory |-> None]
  /\ loaded = "no" /\ file = None /\ limit = U64_MAX
  /\ m = RvState_default(lib, 0)
  /\ op = [name |-> "none", result |-> "ok"] /\ began = None

Next ==
  \/ Load \/ prepare \/ poke \/ SetTargetInstret
  \/ execute_from \/ reset_and_run_to_instret
  \/ run \/ run_multiple \/ run_with_counters \/ call
  \/ save_state \/ FileDamaged \/ load_state

Spec == Init /\ [][Next]_vars

--------------------------------------------------------------------------
(* Properties.                                                             *)

\* The image as the ELF file describes it: each cell of a segment's file part is
\* that byte, every other cell is zero.
ImageCell(a) ==
  LET of == {i \in Loadable(elf) :
               elf.phdrs[i].vaddr <= a /\ a < elf.phdrs[i].vaddr + elf.phdrs[i].filesz}
  IN  IF of = {} THEN 0
      ELSE LET p == elf.phdrs[CHOOSE i \in of : TRUE] IN elf.bytes[p.offset + a - p.vaddr + 1]

Symbol(name) == IF name \in DOMAIN elf.symbols THEN elf.symbols[name] ELSE 0

\* run, run_with_counters and reset_and_run_to_instret hand the library a fresh
\* program, whatever the host and earlier runs did, crashed loads of a saved
\* state included: the ELF image in memory and nothing else, only gp and sp set,
\* no count, no exit, at the entry, and no reservation left for an sc to use
\* (the fixed-address runner keeps that one).
RunsStartFresh ==
  [][(op'.name \in {"run", "run_with_counters", "reset_and_run_to_instret"} /\ began' # None) =>
       /\ \A a \in Cells : began'.mem[a] = ImageCell(a)
       /\ \A r \in Regs : began'.regs[r] = CASE r = 2 -> Symbol("__stack_top")
                                            [] r = 3 -> Symbol("__global_pointer$")
                                            [] OTHER -> 0
       /\ began'.pc = elf.entry
       /\ began'.instret = 0 /\ began'.has_exited = 0 /\ began'.exit_code = 0
       /\ ~lib.fixed => ~began'.reserved]_vars

\* A run the host limited stops by the limit: no reset on the way to the library
\* loses the target ("Save target_instret before reset").
RunKeepsLimit ==
  [][(op'.name \in {"run", "reset_and_run_to_instret", "execute_from"} /\ runner.suspender
        /\ began' # None /\ lib.instret = 3)
      => m'.instret <= Max({limit', began'.instret + 1})]_vars

\* A state that loads without an error is the state that was saved: pc, registers
\* and every cell of memory, the last, shorter chunk included.  A file of another
\* version, register width, register file or memory size is refused before
\* anything of the machine is overwritten.
LoadRestores ==
  [][(op'.name = "load_state" /\ op' # op) =>
       /\ op'.result = "ok" => m'.pc = file.of.pc /\ m'.regs = file.of.regs /\ m'.mem = file.of.mem
       /\ (file # None /\ file.header # Header) => op'.result = "StateError" /\ m' = m]_vars

\* A library that was loaded and its runner agree on every field of the state
\* ("Layout must match the generated C `RvState` struct exactly"), and the C and
\* assembly backends agree with the layout both are generated from.
LayoutsAgree == loaded = "ok" => BackendsAgree(lib) /\ RunnerAgrees(lib, runner)

\* A program that loads has segments that keep out of each other's way, within
\* the file and the address space, and a break above all of them, wherever the
\* guest moves it (on a 32-bit machine, above those that end below 2^32:
\* the sum of address and size is only checked in 64 bits).
AcceptedImages ==
  loaded = "ok" =>
    LET segs == Loadable(elf)
        p(i) == elf.phdrs[i]
        cells(i) == p(i).vaddr..EndOf(p(i)) - 1
    IN  /\ segs # {}
        /\ \A i, j \in segs : i # j => cells(i) \cap cells(j) = {}
        /\ \A i \in segs : p(i).offset + p(i).filesz <= Len(elf.bytes)
        /\ \A i \in segs : (lib.xlen = 32 => EndOf(p(i)) < AddrSpace32) => cells(i) \subseteq 0..m.brk - 1

\* At fixed addresses too, guest memory is where the library expects it, fenced
\* by pages nothing can touch, and never shares a page with the state.
MemoryFenced ==
  maps.memory # None =>
    LET usable == maps.at.memory..maps.at.memory + MemSize - 1
    IN  /\ maps.memory.rw = usable
        /\ maps.at.state \notin usable
        /\ {maps.at.memory - 1, maps.at.memory + MemSize} \subseteq maps.memory.guard
=============================================================================
