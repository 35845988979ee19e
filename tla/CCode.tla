---------------------------------- MODULE CCode ---------------------------------
(***************************************************************************)
(* What the C text of an instruction does: render_expr and render_stmt     *)
(* (rvr-emit/src/c/emitter/expr.rs) with the header functions the text     *)
(* calls (c/header/csr.rs, memory.rs) and the tohost path (c/htif.rs).     *)
(*                                                                         *)
(* A state is a record                                                     *)
(*   [regs, mem, csrs, instret, res_addr, res_valid, tmp, pc,              *)
(*    exited, exit_code, brk, start_brk, status]                           *)
(* mem is guest memory, one value per byte; status is "run" until the      *)
(* instruction exits, traps, hits a guard page ("fault") or has undefined  *)
(* behaviour ("ub").                                                       *)
(***************************************************************************)
EXTENDS Lift

CONSTANTS
    MemBits,     \* memory_bits: guest memory has 2^MemBits bytes
    TOHOST,      \* TOHOST_ADDR; it and the FROMHOST after it are inside the memory
    Page,        \* the page size rv_sys_mmap rounds to
    Htif         \* EmitConfig::htif_enabled


RV_MEMORY_MASK == 2^MemBits - 1
AddressMode == {"Unchecked", "Wrap", "Bounds"}

---------------------------------------------------------------------------------
(* memory.rs.  phys_addr: the base alone is translated.  Unchecked assumes  *)
(* it valid; Bounds traps unless sign-extending its low MemBits bits gives  *)
(* it back, and then assumes it valid; Wrap masks it.                       *)

phys_addr(mode, addr) ==
    LET at(ok, bad, p) == [status |-> IF ok THEN "run" ELSE bad, at |-> p]
    IN CASE mode = "Unchecked" -> at(addr <= RV_MEMORY_MASK, "ub", addr)
         [] mode = "Bounds" /\ Sext(addr, MemBits) # addr -> at(FALSE, "trap", 0)
         [] mode = "Bounds" /\ Sext(addr, MemBits) = addr -> at(addr <= RV_MEMORY_MASK, "ub", addr)
         [] mode = "Wrap" -> at(TRUE, "", addr % 2^MemBits)

(* The byte accesses of one rd_mem or wr_mem: the offset is added to the    *)
(* translated address, a multi-byte access is assumed aligned, and a guard  *)
(* page follows and precedes the memory.                                    *)
AccessAt(p, off, width) ==
    IF p.status # "run" THEN p
    ELSE IF (p.at + off) % width # 0 THEN [status |-> "ub", at |-> 0]
    ELSE IF p.at + off \in 0 .. RV_MEMORY_MASK THEN [status |-> "run", at |-> p.at + off]
    ELSE [status |-> "fault", at |-> 0]
Access(mode, base, off, width) == AccessAt(phys_addr(mode, base), off, width)

LoadBytes(m, at, width) ==
    LET sum[k \in 0 .. width] == IF k = 0 THEN 0 ELSE m[at + k - 1] * 2^(Byte * (k - 1)) + sum[k - 1]
    IN sum[width]
StoreBytes(m, at, width, v) ==
    [a \in DOMAIN m |-> IF a \in at .. at + width - 1 THEN Low(v \div 2^(Byte * (a - at)), Byte) ELSE m[a]]

(* mem_read_fn: which reads sign-extend. *)
mem_read_fn(v, width, signed) ==
    IF signed /\ (width < 4 \/ (width = 4 /\ Rv64)) THEN Sext(v, Byte * width) ELSE v

---------------------------------------------------------------------------------
(* csr.rs.  The counters read instret (the H forms its upper word) and      *)
(* ignore writes.                                                           *)

CounterLow == {"mcycle", "cycle", "minstret", "instret"}
CounterHigh == {"mcycleh", "cycleh", "minstreth", "instreth"}

rd_csr(s, n) == IF n \in CounterLow THEN from_u64(s.instret)
                ELSE IF n \in CounterHigh THEN from_u64(s.instret \div 2^W32)
                ELSE s.csrs[n]
wr_csr(s, n, v) == IF n \in CounterLow \cup CounterHigh THEN s ELSE [s EXCEPT !.csrs[n] = v]

---------------------------------------------------------------------------------
(* Expressions. *)

IsComparison(op) == op \in {"Eq", "Ne", "Lt", "Ge", "Ltu", "Geu"}

render_unary_expr(op, v) ==
    CASE op = "Not" -> Not(v)
      [] op = "Neg" -> from_u64(-v)
      [] op = "Sext8" -> Sext(v, Byte)
      [] op = "Sext16" -> Sext(v, 2 * Byte)
      [] op = "Sext32" -> sign_extend_32(v)
      [] op = "Zext8" -> Low(v, Byte)
      [] op = "Zext16" -> Low(v, 2 * Byte)
      [] op = "Zext32" -> Low(v, W32)
      [] op = "Clz" -> IF v # 0 THEN builtin_clz(v, W) ELSE W
      [] op = "Ctz" -> IF v # 0 THEN builtin_ctz(v, W) ELSE W
      [] op = "Cpop" -> builtin_popcount(v, W)
      [] op = "Clz32" -> IF Low(v, W32) # 0 THEN builtin_clz(Low(v, W32), W32) ELSE W32
      [] op = "Ctz32" -> IF Low(v, W32) # 0 THEN builtin_ctz(Low(v, W32), W32) ELSE W32
      [] op = "Cpop32" -> builtin_popcount(v, W32)
      [] op = "Orc8" -> rv_orc_b(v)
      [] op = "Rev8" -> builtin_bswap(v)
      [] op = "Brev8" -> rv_brev8(v)
      [] op = "Zip" -> rv_zip32(v)
      [] op = "Unzip" -> rv_unzip32(v)

Truth(b) == IF b THEN 1 ELSE 0

render_binary_basic(op, l, r) ==
    CASE op = "Add" -> from_u64(l + r)
      [] op = "Sub" -> from_u64(l - r)
      [] op = "Mul" -> Mul(l, r)
      [] op = "And" -> And(l, r)
      [] op = "Or" -> Or(l, r)
      [] op = "Xor" -> Xor(l, r)
      [] op = "Sll" -> Shl(l, r % W)
      [] op = "Srl" -> Shr(l, r % W)
      [] op = "Sra" -> Sar(l, W, r % W)
      [] op = "Eq" -> Truth(l = r)
      [] op = "Ne" -> Truth(l # r)
      [] op = "Lt" -> Truth(Signed(l, W) < Signed(r, W))
      [] op = "Ge" -> Truth(Signed(l, W) >= Signed(r, W))
      [] op = "Ltu" -> Truth(l < r)
      [] op = "Geu" -> Truth(l >= r)

render_binary_div_rem(op, l, r) ==
    CASE op = "Div" -> rv_div(l, r, W)   [] op = "DivU" -> rv_divu(l, r, W)
      [] op = "Rem" -> rv_rem(l, r, W)   [] op = "RemU" -> rv_remu(l, r, W)

render_binary_word(op, l, r) ==
    CASE op = "AddW" -> Sext(l + r, W32)
      [] op = "SubW" -> Sext(l - r, W32)
      [] op = "MulW" -> Sext(Mul(l, r), W32)
      [] op = "DivW" -> rv_div(l, r, W32)  [] op = "DivUW" -> rv_divu(l, r, W32)
      [] op = "RemW" -> rv_rem(l, r, W32)  [] op = "RemUW" -> rv_remu(l, r, W32)
      [] op = "SllW" -> Sext(Shl(l, r % W32), W32)
      [] op = "SrlW" -> Sext(Shr(Low(l, W32), r % W32), W32)
      [] op = "SraW" -> Sar(l, W32, r % W32)

render_binary_mul_high(op, l, r) ==
    CASE op = "MulH" -> rv_mulh(l, r)
      [] op = "MulHSU" -> rv_mulhsu(l, r)
      [] op = "MulHU" -> rv_mulhu(l, r)

render_binary_pack(op, l, r) ==
    CASE op = "Pack" -> Low(l, W \div 2) + 2^(W \div 2) * Low(r, W \div 2)
      [] op = "Pack8" -> Low(l, Byte) + 2^Byte * Low(r, Byte)
      [] op = "Pack16" -> Sext(Low(l, 2 * Byte) + 2^(2 * Byte) * Low(r, 2 * Byte), W32)

render_binary_expr(op, l, r) ==
    CASE op \in {"Div", "DivU", "Rem", "RemU"} -> render_binary_div_rem(op, l, r)
      [] op \in {"MulH", "MulHSU", "MulHU"} -> render_binary_mul_high(op, l, r)
      [] op \in {"Pack", "Pack8", "Pack16"} -> render_binary_pack(op, l, r)
      [] op \in {"AddW", "SubW", "MulW", "DivW", "DivUW", "RemW", "RemUW", "SllW", "SrlW", "SraW"} ->
            render_binary_word(op, l, r)
      [] OTHER -> render_binary_basic(op, l, r)

(* A comparison is rendered without parentheses, so ~ in front of one       *)
(* applies to its left operand.                                             *)
NotOfComparison(e) == e[1] = "un" /\ e[2] = "Not" /\ e[3][1] = "bin" /\ IsComparison(e[3][2])

(* Evaluating an expression: how it ends and the value it then has.  A     *)
(* shift by the width or more is undefined, as is every way a read of       *)
(* memory can go wrong.                                                     *)
Ok(v) == [status |-> "run", v |-> v]
Bad(status) == [status |-> status, v |-> 0]

(* The reads of rd_mem at the place Access gives. *)
Loaded(s, a, width, signed) ==
    IF a.status # "run" THEN Bad(a.status) ELSE Ok(mem_read_fn(LoadBytes(s.mem, a.at, width), width, signed))
render_read_mem(mode, s, base, off, width, signed) ==
    IF base.status # "run" THEN base ELSE Loaded(s, Access(mode, base.v, off, width), width, signed)

Unary(op, x) == IF x.status # "run" THEN x ELSE Ok(render_unary_expr(op, x.v))
ShiftWidth(op) == IF op \in {"Sll", "Srl", "Sra"} THEN W
                  ELSE IF op \in {"SllW", "SrlW", "SraW"} THEN W32 ELSE 2^W
Binary(op, l, r) ==
    IF l.status # "run" THEN l
    ELSE IF r.status # "run" THEN r
    ELSE IF r.v >= ShiftWidth(op) THEN Bad("ub")
    ELSE Ok(render_binary_expr(op, l.v, r.v))
Select(c, then, else) == IF c.status # "run" THEN c ELSE IF c.v # 0 THEN then ELSE else

RECURSIVE render_expr(_, _, _)
render_expr(mode, s, e) ==
    CASE e[1] = "imm" -> Ok(e[2])
      [] e[1] = "reg" -> Ok(IF e[2] = 0 THEN 0 ELSE s.regs[e[2]])
      [] e[1] = "mem" -> render_read_mem(mode, s, render_expr(mode, s, e[2]), e[3], e[4], e[5])
      [] e[1] = "csr" -> Ok(rd_csr(s, e[2]))
      [] e[1] = "tmp" -> Ok(s.tmp[e[2]])
      [] e[1] = "res_addr" -> Ok(s.res_addr)
      [] e[1] = "res_valid" -> Ok(s.res_valid)
      [] e[1] = "un" /\ ~NotOfComparison(e) -> Unary(e[2], render_expr(mode, s, e[3]))
      [] NotOfComparison(e) ->
            render_expr(mode, s, <<"bin", e[3][2], <<"un", "Not", e[3][3]>>, e[3][4]>>)
      [] e[1] = "bin" -> Binary(e[2], render_expr(mode, s, e[3]), render_expr(mode, s, e[4]))
      [] e[1] = "sel" -> Select(render_expr(mode, s, e[2]), render_expr(mode, s, e[3]), render_expr(mode, s, e[4]))

---------------------------------------------------------------------------------
(* Statements.  handle_tohost_write: zero is ignored and an odd value       *)
(* exits.  An even one is the address of four 64-bit fields, a call: a      *)
(* write to standard output returns its length in the first of them and     *)
(* sets FROMHOST; any other ends the program.  The build defines NDEBUG, so *)
(* nothing keeps the fields inside the memory.                              *)

FROMHOST == TOHOST + 8
HTIF_FIELD_SIZE == 8
HTIF_SYS_WRITE == 64
HTIF_STDOUT_FD == 1
FieldAt(v, k) == from_u64(v + k * HTIF_FIELD_SIZE)
FieldsInMemory(v) == \A k \in 0 .. 3 : FieldAt(v, k) + HTIF_FIELD_SIZE <= 2^MemBits

Exits(s, code) == [s EXCEPT !.exited = 1, !.exit_code = code, !.status = "exit"]
HostCall(s, v) ==
    LET read_memory_dword(k) == LoadBytes(s.mem, FieldAt(v, k), HTIF_FIELD_SIZE)
    IN IF ~FieldsInMemory(v) THEN [s EXCEPT !.status = "ub"]
       ELSE IF read_memory_dword(0) = HTIF_SYS_WRITE /\ read_memory_dword(1) = HTIF_STDOUT_FD
       THEN [s EXCEPT !.mem = StoreBytes(StoreBytes(@, v, RegBytes, from_u64(read_memory_dword(3))),
                                         FROMHOST, RegBytes, 1)]
       ELSE Exits(s, 1)

handle_tohost_write(s, v) ==
    IF v = 0 THEN s
    ELSE IF v % 2 = 1 THEN Exits(s, (v \div 2) % 2^Byte)
    ELSE HostCall(s, v)

(* A 4- or 8-byte store compares the low word of base + offset with TOHOST. *)
render_mem_write_tohost(base, off, width) ==
    Htif /\ width \in {4, 8} /\ Low(base + off, W32) = TOHOST

Stored(s, a, width, v) ==
    IF a.status # "run" THEN [s EXCEPT !.status = a.status]
    ELSE [s EXCEPT !.mem = StoreBytes(@, a.at, width, v)]
render_write_mem(mode, s, base, off, width, v) ==
    IF render_mem_write_tohost(base, off, width) THEN handle_tohost_write(s, v)
    ELSE Stored(s, Access(mode, base, off, width), width, v)

render_write_reg(s, rd, v) == IF rd = 0 THEN s ELSE [s EXCEPT !.regs[rd] = v]

---------------------------------------------------------------------------------
(* syscalls.rs: the runtime functions an ecall reaches, as the state and    *)
(* the value they return.  The host takes everything that is written.       *)

\* Mutated form: rounds down.
align_upDown(v) == v - (v % Page)

align_up(v) == from_u64(v + Page - 1) - (from_u64(v + Page - 1) % Page)

\* Mutated form: the break may go below its start.
rv_sys_brkAnywhere(s, addr) ==
    IF addr # 0 /\ addr <= RV_MEMORY_MASK
    THEN [state |-> [s EXCEPT !.brk = addr], value |-> addr]
    ELSE [state |-> s, value |-> s.brk]

rv_sys_brk(s, addr) ==
    IF addr # 0 /\ addr >= s.start_brk /\ addr <= RV_MEMORY_MASK
    THEN [state |-> [s EXCEPT !.brk = addr], value |-> addr]
    ELSE [state |-> s, value |-> s.brk]

(* The pages are zeroed; memset past the memory meets the guard page.       *)
rv_sys_mmap(mode, s, len) ==
    LET aligned_brk == align_up(s.brk)
        aligned_len == align_up(len)
        new_brk == from_u64(aligned_brk + aligned_len)
        p == phys_addr(mode, aligned_brk)
        cleared == [s EXCEPT !.brk = new_brk]
    IN IF new_brk > RV_MEMORY_MASK THEN [state |-> s, value |-> from_u64(-12)]
       ELSE IF p.status # "run" THEN [state |-> [cleared EXCEPT !.status = p.status], value |-> 0]
       ELSE IF p.at + aligned_len > 2^MemBits THEN [state |-> [cleared EXCEPT !.status = "fault"], value |-> 0]
       ELSE [state |-> [cleared EXCEPT !.mem = [a \in DOMAIN @ |->
                           IF a \in p.at .. p.at + aligned_len - 1 THEN 0 ELSE @[a]]],
             value |-> aligned_brk]

rv_sys_write(s, fd, count) == [state |-> s, value |-> IF fd \in {1, 2} THEN count ELSE from_u64(-1)]
rv_sys_fstat(s, fd) == [state |-> s, value |-> IF fd \in {1, 2} THEN 0 ELSE from_u64(-1)]

render_extern_call(mode, s, name, args) ==
    CASE name = "rv_sys_brk" -> rv_sys_brk(s, args[1])
      [] name = "rv_sys_mmap" -> rv_sys_mmap(mode, s, args[2])
      [] name = "rv_sys_write" -> rv_sys_write(s, args[1], args[3])
      [] name = "rv_sys_fstat" -> rv_sys_fstat(s, args[1])

---------------------------------------------------------------------------------
(* The value a statement computes, and its effect once that succeeded: r is *)
(* the state and the value it finds.  A write of the exit flag does not     *)
(* leave the instruction.                                                   *)
ValueOf(st) == CASE st[1] \in {"if", "res_addr", "res_valid", "exited", "exit_code"} -> st[2]
                 [] st[1] = "mem" -> st[5]
                 [] OTHER -> st[3]
Found(s, x) == [state |-> IF x.status = "run" THEN s ELSE [s EXCEPT !.status = x.status], value |-> x.v]
Computed(mode, s, e) ==
    IF e[1] = "call"
    THEN render_extern_call(mode, s, e[2], [k \in DOMAIN e[3] |-> render_expr(mode, s, e[3][k]).v])
    ELSE Found(s, render_expr(mode, s, e))
Effect(mode, s, st, v) ==
    CASE st[1] = "reg" -> render_write_reg(s, st[2], v)
      [] st[1] = "csr" -> wr_csr(s, st[2], v)
      [] st[1] = "tmp" -> [s EXCEPT !.tmp[st[2]] = v]
      [] st[1] = "res_addr" -> [s EXCEPT !.res_addr = v]
      [] st[1] = "res_valid" -> [s EXCEPT !.res_valid = v % 2^Byte]
      [] st[1] = "exited" -> [s EXCEPT !.exited = v % 2^Byte]
      [] st[1] = "exit_code" -> [s EXCEPT !.exit_code = v % 2^Byte]
      [] st[1] = "mem" -> render_write_mem(mode, s, render_expr(mode, s, st[2]).v, st[3], st[4], v)

RECURSIVE render_stmts(_, _, _)
Apply(mode, r, st) ==
    IF r.state.status # "run" THEN r.state
    ELSE IF st[1] = "if" THEN render_stmts(mode, r.state, IF r.value # 0 THEN st[3] ELSE st[4])
    ELSE Effect(mode, r.state, st, r.value)
render_stmt(mode, s, st) ==
    IF st[1] = "reg" /\ st[2] = 0 THEN s ELSE Apply(mode, Computed(mode, s, ValueOf(st)), st)

(* A sequence stops at the statement that exits, traps or faults. *)
render_stmts(mode, s, sts) ==
    IF sts = <<>> \/ s.status # "run" THEN s
    ELSE render_stmts(mode, render_stmt(mode, s, Head(sts)), Tail(sts))

(* The whole instruction: its statements, the test of the exit flag after   *)
(* them, then its terminator: t is the state after the statements, x the    *)
(* terminator's operand there.  The block counts instret.                   *)
render_terminator(t, term, x) ==
    IF t.status # "run" THEN t
    ELSE IF t.exited = 1 THEN [t EXCEPT !.status = "exit"]
    ELSE CASE term[1] \in {"fall", "jump"} -> [t EXCEPT !.pc = term[2]]
           [] term[1] = "dyn" -> [t EXCEPT !.pc = x.v]
           [] term[1] = "branch" -> [t EXCEPT !.pc = IF x.v # 0 THEN term[3] ELSE term[4]]
           [] term[1] = "exit" -> [t EXCEPT !.status = "exit", !.exited = 1, !.exit_code = x.v % 2^Byte]
           [] term[1] = "trap" -> [t EXCEPT !.status = "trap"]
Terminated(mode, t, term) == render_terminator(t, term, render_expr(mode, t, term[2]))
render_instruction(mode, s, ir) == Terminated(mode, render_stmts(mode, s, ir.stmts), ir.term)
=================================================================================
