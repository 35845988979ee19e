---------------------------- MODULE StateLayout ----------------------------
(***************************************************************************)
(* The machine state a runner hands to the compiled library by address.    *)
(* Four places fix where its fields are: the C struct of the generated     *)
(* header (laid out by the C compiler), the offsets of layout.rs that the  *)
(* assembly backends and the header's static_asserts use, the repr(C)      *)
(* struct of the runner the library is given to, and the tracer's own      *)
(* struct, written once in C and once in Rust.                             *)
(*                                                                         *)
(* A library is [xlen, rve, tracer, instret, fixed].  A struct is a        *)
(* sequence of fields [name, size, align]; Offsets lays one out the way C  *)
(* compilers for the supported hosts and repr(C) both do.                  *)
(***************************************************************************)
EXTENDS Integers, Sequences, FiniteSets, Functions, FiniteSetsExt

\* TracerKind::as_c_kind, the value of RV_TRACER_KIND.
as_c_kind(kind) ==
  CASE kind = "None" -> 0 [] kind = "Preflight" -> 1 [] kind = "Stats" -> 2 [] kind = "Ffi" -> 3
    [] kind = "Dynamic" -> 4 [] kind = "Debug" -> 5 [] kind = "Spike" -> 6
    [] kind = "Diff" -> 7 [] kind = "BufferedDiff" -> 8

\* TracerKind::from_raw, as the runner reads RV_TRACER_KIND back.
TracerKind_from_raw(raw) ==
  LET kinds == <<"Preflight", "Stats", "Ffi", "Dynamic", "Debug", "Spike", "Diff", "BufferedDiff">>
  IN  IF raw \in DOMAIN kinds THEN kinds[raw] ELSE "None"

Kinds == {"None", "Preflight", "Stats", "Ffi", "Dynamic", "Debug", "Spike", "Diff", "BufferedDiff"}

\* InstretMode::suspends: RV_INSTRET_MODE is 0 Off, 1 Count, 2 Suspend, 3 PerInstruction.
suspends(mode) == mode \in {2, 3}

\* InstretMode::is_suspend, on what InstretMode::from_raw read.
is_suspend(raw) == raw \in {2, 3}

Library == [xlen : {32, 64}, rve : BOOLEAN, tracer : Kinds, instret : 0..3, fixed : BOOLEAN]

--------------------------------------------------------------------------
(* Types and structs.                                                     *)

NUM_CSRS == 4096

NumRegs(lib) == IF lib.rve THEN 16 ELSE 32

Field(name, size) == [name |-> name, size |-> size, align |-> size]
Bytes(name, n) == [name |-> name, size |-> n, align |-> 1]
Array(name, size, n) == [name |-> name, size |-> size * n, align |-> size]

AlignUp(x, a) == ((x + a - 1) \div a) * a

Alignment(fields) == Max({1} \cup {fields[i].align : i \in DOMAIN fields})

\* Where each field of a struct begins, and where the struct's last field ends.
Ends(fields) ==
  LET end[i \in 0..Len(fields)] ==
        IF i = 0 THEN 0 ELSE AlignUp(end[i - 1], fields[i].align) + fields[i].size
  IN  end

SizeOf(fields) == AlignUp(Ends(fields)[Len(fields)], Alignment(fields))

Offsets(fields) ==
  [f \in {fields[i].name : i \in DOMAIN fields} |->
    LET i == CHOOSE i \in DOMAIN fields : fields[i].name = f
    IN  Ends(fields)[i] - fields[i].size]

\* A struct as a field of another one.
Embed(name, fields) == [name |-> name, size |-> SizeOf(fields), align |-> Alignment(fields)]

--------------------------------------------------------------------------
(* The tracer in C, one generator per kind.                               *)

gen_tracer_preflight(r) ==
  <<Field("data", 8), Field("data_idx", 4), Field("data_count", 8), Field("pc", 8),
    Field("pc_idx", 4), Field("pc_count", 8), Field("start_ns", 8)>>

\* Eleven counters, the opcode, register and page tables (the opcode table of
\* unknown size OP_TABLE_SIZE, here one word), and the bitmap.
gen_tracer_stats(r) ==
  <<Array("counters", 8, 11), Array("opcode_counts", 8, 1), Array("reg_read_counts", 8, 32),
    Array("reg_write_counts", 8, 32), Array("mem_pages", 8, 16384), Field("addr_bitmap", 8)>>

gen_tracer_ffi(r) == <<Field("inner", 8)>>

gen_tracer_dynamic(r) == <<Field("inner", 8), Array("fns", 8, 18)>>

gen_tracer_debug(r) == <<Field("fp", 8), Field("pcs", 8)>>

gen_tracer_spike(r) ==
  <<Field("fp", 8), Field("pending_pc", r), Field("pending_opcode", 4), Bytes("pending_rd", 1),
    Field("pending_rd_value", r), Field("pending_mem_addr", r), Bytes("has_pending", 1),
    Bytes("has_rd", 1), Bytes("has_mem", 1), Field("count", 8)>>

gen_tracer_diff(r) ==
  <<Field("pc", r), Field("opcode", 4), Bytes("rd", 1), Field("rd_value", r), Field("mem_addr", r),
    Field("mem_value", r), Bytes("mem_width", 1), Bytes("is_write", 1), Bytes("has_rd", 1),
    Bytes("has_mem", 1), Bytes("valid", 1)>>

\* The ring entry of the buffered tracer.
CDiffEntry(r) ==
  <<Field("pc", r), Field("opcode", 4), Bytes("rd", 1), Bytes("has_rd", 1), Bytes("has_mem", 1),
    Bytes("is_write", 1), Field("rd_value", r), Field("mem_addr", r), Field("mem_value", r),
    Bytes("mem_width", 1), Bytes("_pad", 7)>>

gen_tracer_buffered_diff(r) ==
  <<Field("buffer", 8), Field("capacity", 4), Field("head", 4), Field("count", 4),
    Field("dropped", 4), Embed("current", CDiffEntry(r)), Bytes("current_valid", 1),
    Bytes("_pad", 7)>>

gen_tracer_header(kind, r) ==
  CASE kind = "None" -> <<>>
    [] kind = "Preflight" -> gen_tracer_preflight(r)
    [] kind = "Stats" -> gen_tracer_stats(r)
    [] kind = "Ffi" -> gen_tracer_ffi(r)
    [] kind = "Dynamic" -> gen_tracer_dynamic(r)
    [] kind = "Debug" -> gen_tracer_debug(r)
    [] kind = "Spike" -> gen_tracer_spike(r)
    [] kind = "Diff" -> gen_tracer_diff(r)
    [] kind = "BufferedDiff" -> gen_tracer_buffered_diff(r)

--------------------------------------------------------------------------
(* The tracer in Rust, for the runners that have one.                     *)

PreflightTracer(r) ==
  <<Field("data", 8), Field("data_idx", 4), Field("data_capacity", 4), Field("pc", 8),
    Field("pc_idx", 4), Field("pc_capacity", 4)>>

StatsTracer(r) == <<Field("addr_bitmap", 8)>>

DebugTracer(r) == <<Field("fp", 8), Field("pcs", 8)>>

DiffTracer(r) ==
  <<Field("pc", r), Field("opcode", 4), Bytes("rd", 1), Bytes("_pad0", 3), Field("rd_value", r),
    Field("mem_addr", r), Field("mem_value", r), Bytes("mem_width", 1), Bytes("is_write", 1),
    Bytes("has_rd", 1), Bytes("has_mem", 1), Bytes("valid", 1), Bytes("_pad1", 3)>>

DiffEntry(r) ==
  <<Field("pc", r), Field("opcode", 4), Bytes("rd", 1), Bytes("has_rd", 1), Bytes("has_mem", 1),
    Bytes("is_write", 1), Field("rd_value", r), Field("mem_addr", r), Field("mem_value", r),
    Bytes("mem_width", 1), Bytes("_pad", 7)>>

BufferedDiffTracer(r) ==
  <<Field("buffer", 8), Field("capacity", 4), Field("head", 4), Field("count", 4),
    Field("dropped", 4), Embed("current", DiffEntry(r)), Bytes("current_valid", 1),
    Bytes("_pad", 7)>>

RustTracer(kind, r) ==
  CASE kind = "None" -> <<>>
    [] kind = "Preflight" -> PreflightTracer(r)
    [] kind = "Stats" -> StatsTracer(r)
    [] kind = "Debug" -> DebugTracer(r)
    [] kind = "Diff" -> DiffTracer(r)
    [] kind = "BufferedDiff" -> BufferedDiffTracer(r)

--------------------------------------------------------------------------
(* The state.                                                             *)

\* RvState of the generated header.
gen_state_struct(lib) ==
  LET r == lib.xlen \div 8
  IN  <<Array("regs", r, NumRegs(lib)), Field("pc", r), Field("instret", 8)>>
      \o (IF suspends(lib.instret) THEN <<Field("target_instret", 8)>> ELSE <<>>)
      \o <<Field("reservation_addr", r), Bytes("reservation_valid", 1), Bytes("has_exited", 1),
           Bytes("exit_code", 1), Bytes("_pad0", 1), Field("brk", r), Field("start_brk", r),
           Field("memory", 8)>>
      \o (IF lib.tracer # "None" THEN <<Embed("tracer", gen_tracer_header(lib.tracer, r))>>
          ELSE <<>>)
      \o <<Array("csrs", r, NUM_CSRS)>>

\* RvState of rvr-state, for a runner [tracer, suspender]: () is of size zero.
RvState(lib, runner) ==
  LET r == lib.xlen \div 8
  IN  <<Array("regs", r, NumRegs(lib)), Field("pc", r), Field("instret", 8)>>
      \o (IF runner.suspender THEN <<Field("target_instret", 8)>> ELSE <<>>)
      \o <<Field("reservation_addr", r), Bytes("reservation_valid", 1), Bytes("has_exited", 1),
           Bytes("exit_code", 1), Bytes("_pad0", 1), Field("brk", r), Field("start_brk", r),
           Field("memory", 8)>>
      \o (IF runner.tracer # "None" THEN <<Embed("tracer", RustTracer(runner.tracer, r))>> ELSE <<>>)
      \o <<Array("csrs", r, NUM_CSRS)>>

\* Mutated form: instret is put right after pc, without aligning it.
from_paramsUnaligned(reg_bytes, num_regs, has_suspend) ==
  LET offset_instret == num_regs * reg_bytes + reg_bytes
      offset_reservation_addr == offset_instret + 8 + (IF has_suspend THEN 8 ELSE 0)
  IN  [regs |-> 0, pc |-> num_regs * reg_bytes, instret |-> offset_instret,
       reservation_addr |-> offset_reservation_addr]

\* RvStateLayout::from_params: the same offsets, added up by hand.
from_params(reg_bytes, num_regs, has_suspend) ==
  LET offset_pc == num_regs * reg_bytes
      offset_instret == ((offset_pc + reg_bytes + 7) \div 8) * 8
      offset_reservation_addr == offset_instret + 8 + (IF has_suspend THEN 8 ELSE 0)
      offset_reservation_valid == offset_reservation_addr + reg_bytes
      brk_align_offset == offset_reservation_valid + 4
      offset_brk == brk_align_offset + ((8 - (brk_align_offset % 8)) % 8)
      offset_memory == offset_brk + 2 * reg_bytes
  IN  [regs |-> 0, pc |-> offset_pc, instret |-> offset_instret,
       target_instret |-> offset_instret + 8,
       reservation_addr |-> offset_reservation_addr,
       reservation_valid |-> offset_reservation_valid,
       has_exited |-> offset_reservation_valid + 1, exit_code |-> offset_reservation_valid + 2,
       brk |-> offset_brk, start_brk |-> offset_brk + reg_bytes, memory |-> offset_memory,
       tracer |-> offset_memory + 8]

\* The offsets the arm64 backend traces at, within the diff tracer.
diff_offsets(reg_bytes) ==
  LET mem_width == 4 * reg_bytes + 8
  IN  [opcode |-> reg_bytes, rd |-> reg_bytes + 4, rd_value |-> reg_bytes + 8,
       mem_addr |-> 2 * reg_bytes + 8, mem_value |-> 3 * reg_bytes + 8, mem_width |-> mem_width,
       is_write |-> mem_width + 1, has_rd |-> mem_width + 2, has_mem |-> mem_width + 3,
       valid |-> mem_width + 4]

--------------------------------------------------------------------------
(* Agreement.                                                             *)

Padding == {"_pad", "_pad0", "_pad1"}

\* Two layouts put every field both name at the same place.
SamePlaces(a, b) == \A f \in (DOMAIN a \cap DOMAIN b) \ Padding : a[f] = b[f]

\* The two structs have the same fields, at the same places.
SameStruct(c, rust) ==
  /\ {f.name : f \in Range(c)} \ Padding = {f.name : f \in Range(rust)} \ Padding
  /\ SamePlaces(Offsets(c), Offsets(rust))

\* The assembly backends and the C compiler agree on the library's state.
BackendsAgree(lib) ==
  LET r == lib.xlen \div 8
  IN  /\ SamePlaces(Offsets(gen_state_struct(lib)),
                    from_params(r, NumRegs(lib), suspends(lib.instret)))
      /\ lib.tracer = "Diff" => SamePlaces(Offsets(gen_tracer_diff(r)), diff_offsets(r))

\* The library and the runner agree on it.
RunnerAgrees(lib, runner) ==
  LET r == lib.xlen \div 8
  IN  /\ SameStruct(gen_state_struct(lib), RvState(lib, runner))
      /\ runner.tracer = lib.tracer
      /\ SameStruct(gen_tracer_header(lib.tracer, r), RustTracer(lib.tracer, r))
      /\ lib.tracer = "BufferedDiff" => SameStruct(CDiffEntry(r), DiffEntry(r))
      /\ lib.tracer = "BufferedDiff" => SizeOf(CDiffEntry(r)) = SizeOf(DiffEntry(r))
=============================================================================
