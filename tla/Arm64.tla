---------------------------------- MODULE Arm64 ---------------------------------
(***************************************************************************)
(* The ARM64 assembly backend (rvr-emit/src/arm64): which host code it     *)
(* emits for the intermediate representation of one instruction.           *)
(*                                                                         *)
(* Self is the emitter: a record                                           *)
(*   [cfg, cold, depth, labels, asm, ret]                                  *)
(* with cfg = [hot, mode, instret, diff, perf, htif, valid], the guest     *)
(* register its cold cache x17 holds (0: none), the spill slots in use,    *)
(* the labels given out, the code so far and the register the last call    *)
(* returned (None where the source returns Option::None).                  *)
(*                                                                         *)
(* A register is <<"x", n>> or <<"w", n>>, n = 31 the zero register; an    *)
(* immediate is <<"#", v>>; a label <<"L", n>>, <<"pc", n>>, <<"exit">> or *)
(* <<"trap">>.  movz/movk sequences are one mov.                           *)
(***************************************************************************)
EXTENDS CCode

CONSTANTS
    ImmBits,     \* an add/sub immediate has 12 bits in the program
    REG_PRIORITY \* config.rs: the guest registers in order of priority

Host == 8 * Byte                  \* bits of an x register
X(n) == <<"x", n>>
Wr(n) == <<"w", n>>
R(n) == IF Rv64 THEN X(n) ELSE Wr(n)
Imm(v) == <<"#", v>>
None == <<>>
reg_32(r) == Wr(r[2])
reg_64(r) == X(r[2])
temp1 == R(0)
temp2 == R(1)
temp3 == R(2)
INSTRET == X(18)
ImmMax == 2^ImmBits - 1

Counts(e) == e.cfg.instret # "Off"
Suspends(e) == e.cfg.instret \in {"Suspend", "PerInstruction"}
PerInstruction(e) == e.cfg.instret = "PerInstruction"

(* registers.rs: the first 22 hot registers get x21-x28 and x3-x16. *)
AVAILABLE_REGS == <<21, 22, 23, 24, 25, 26, 27, 28, 3, 4, 5, 6, 7, 8, 9, 10, 11, 12, 13, 14, 15, 16>>
init_hot_regs_count(n) == SubSeq(REG_PRIORITY, 1, n)
RegMap(hot) ==
    [r \in {hot[k] : k \in 1 .. Len(hot)} \ {0} |->
        AVAILABLE_REGS[CHOOSE k \in 1 .. Len(hot) : hot[k] = r]]
IsHot(e, rv) == rv \in DOMAIN e.cfg.hot
HotReg(e, rv) == R(e.cfg.hot[rv])

New(cfg) == [cfg |-> cfg, cold |-> 0, depth |-> 0, labels |-> 0, asm |-> <<>>, ret |-> None]
Out(e, ops) == [e EXCEPT !.asm = @ \o ops]
Ret(e, r) == [e EXCEPT !.ret = r]
Move(e, d, s) == IF d = s THEN e ELSE Out(e, <<<<"mov", d, s>>>>)
MoveRet(e, d) == Ret(Move(e, d, e.ret), d)
StoreRet(e, place) == Out(e, <<<<"str", e.ret, place>>>>)
Labels(e, n) == [e EXCEPT !.labels = @ + n]
L(e, k) == <<"L", e.labels + k>>

(* TLC passes arguments unevaluated.  Asking for Emitted(e) first has it build *)
(* the code so far before what follows, which keeps its stack shallow.      *)
Emitted(e) == e.labels >= 0

(* The first of two ways to emit, where it applies. *)
OrElse(e, other) == IF e.ret # None THEN e ELSE other

---------------------------------------------------------------------------------
(* emitter.rs.  The emitter at a pc label forgets what x17 holds; calls out *)
(* of the emitted code save the hot registers and instret and restore them. *)

emit_pc_label(e) == [e EXCEPT !.cold = 0]
save_hot_regs_to_state(e) == [Out(e, <<<<"save">>>>) EXCEPT !.cold = 0]

\* Mutated form: the registers the call clobbered are not read back.
restore_hot_regs_from_stateNot(e) == [e EXCEPT !.cold = 0]

restore_hot_regs_from_state(e) == [Out(e, <<<<"restore">>>>) EXCEPT !.cold = 0]
cold_cache_invalidate(e, rv) == [e EXCEPT !.cold = IF @ = rv THEN 0 ELSE @]

load_rv_to_temp(e, rv, dest) ==
    IF rv = 0 THEN Ret(Out(e, <<<<"mov", dest, Imm(0)>>>>), dest)
    ELSE IF IsHot(e, rv) THEN Ret(e, HotReg(e, rv))
    ELSE IF e.cold = rv THEN Ret(e, R(17))
    ELSE Ret([Out(e, <<<<"ldr", R(17), <<"reg", rv>>>>>>) EXCEPT !.cold = rv], R(17))

(* Always a 64-bit register; a cold register is loaded past the cache. *)
load_rv_as_addr(e, rv) ==
    IF rv = 0 THEN Ret(Out(e, <<<<"mov", X(0), Imm(0)>>>>), X(0))
    ELSE IF IsHot(e, rv)
    THEN IF Rv64 THEN Ret(e, HotReg(e, rv))
         ELSE Ret(Out(e, <<<<"mov", X(0), reg_64(HotReg(e, rv))>>>>), X(0))
    ELSE Ret(Out(e, <<<<"ldr", R(0), <<"reg", rv>>>>>>), X(0))

store_to_rv(e, rv, value) ==
    IF IsHot(e, rv) THEN Move(e, HotReg(e, rv), value)
    ELSE Out(e, <<<<"str", value, <<"reg", rv>>>>>>)

(* Spill slots are the temp slots 4 to 7; with all in use nothing is saved. *)
alloc_spill_slot(e) == IF e.depth < 4 THEN Ret([e EXCEPT !.depth = @ + 1], <<"sp", 4 + e.depth>>)
                       ELSE Ret(e, None)
release_spill_slot(e) == [e EXCEPT !.depth = IF @ > 0 THEN @ - 1 ELSE 0]
SaveIn(a, r) == IF a.ret = None THEN a ELSE Out(a, <<<<"str", r, a.ret>>>>)
Spill(e, r) == SaveIn(alloc_spill_slot(e), r)
restore_spilled_left(e, slot, r) ==
    IF slot = None THEN e ELSE release_spill_slot(Out(e, <<<<"ldr", r, slot>>>>))

emit_add_offset(e, base, offset) ==
    IF offset \in 1 .. ImmMax THEN Out(e, <<<<"add", X(0), base, Imm(offset)>>>>)
    ELSE IF -offset \in 1 .. ImmMax THEN Out(e, <<<<"sub", X(0), base, Imm(-offset)>>>>)
    ELSE Out(e, <<<<"mov", X(2), Imm(offset)>>, <<"add", X(0), base, X(2)>>>>)

(* Bounds: the bits above the memory must be all zero or all one; Wrap and  *)
(* Bounds mask.                                                             *)
\* Mutated form: one bit of the address too many is taken for memory.
BoundsCheckWide(a, ok) ==
    <<<<"asr", X(2), a, Imm(MemBits + 1)>>, <<"cbz", X(2), ok>>,
      <<"cmn", X(2), Imm(1)>>, <<"b.", "eq", ok>>, <<"b", <<"trap">>>>, <<"label", ok>>>>

BoundsCheck(a, ok) ==
    <<<<"asr", X(2), a, Imm(MemBits)>>, <<"cbz", X(2), ok>>,
      <<"cmn", X(2), Imm(1)>>, <<"b.", "eq", ok>>, <<"b", <<"trap">>>>, <<"label", ok>>>>
apply_address_mode(e, a) ==
    LET mask == IF RV_MEMORY_MASK = 2^W32 - 1 THEN <<<<"uxtw", a, reg_32(a)>>>>
                ELSE IF RV_MEMORY_MASK <= ImmMax THEN <<<<"and", a, a, Imm(RV_MEMORY_MASK)>>>>
                ELSE <<<<"mov", X(2), Imm(RV_MEMORY_MASK)>>, <<"and", a, a, X(2)>>>>
    IN CASE e.cfg.mode = "Unchecked" -> e
         [] e.cfg.mode = "Wrap" -> Out(e, mask)
         [] e.cfg.mode = "Bounds" -> Out(Labels(e, 1), BoundsCheck(a, L(e, 1)) \o mask)

(* Which constants a logical instruction can hold: a run of ones, rotated   *)
(* within an element and replicated.                                        *)
is_rotated_mask(p, size) ==
    /\ p \notin {0, 2^size - 1}
    /\ \E rot \in 0 .. size - 1, k \in 1 .. size - 1 :
          (p \div 2^rot) + (p % 2^rot) * 2^(size - rot) = 2^k - 1
is_logical_imm(v, bits) ==
    \E size \in {s \in {2, 4, 8, 16, 32, 64} : s <= bits} :
        /\ v = (v % 2^size) * ((2^bits - 1) \div (2^size - 1))
        /\ is_rotated_mask(v % 2^size, size)

emit_instret_increment(e) == IF Counts(e) THEN Out(e, <<<<"add", INSTRET, INSTRET, Imm(1)>>>>) ELSE e

---------------------------------------------------------------------------------
(* The diff tracer: one record of the last instruction inside the state.    *)

Trace(f) == <<"trace", f>>
emit_trace_pc(e, pc) ==
    LET t == reg_32(temp1)
        clear == [k \in 1 .. 8 |-> <<"str", X(31), Trace(<<"rd", "rd_value", "mem_addr", "mem_value", "mem_width",
                                                           "is_write", "has_rd", "has_mem">>[k])>>]
    IN IF ~e.cfg.diff THEN e
       ELSE Out(e, <<<<"mov", temp1, Imm(pc)>>, <<"str", temp1, Trace("pc")>>, <<"mov", t, Imm(0)>>>> \o clear
                   \o <<<<"mov", t, Imm(1)>>, <<"str", t, Trace("valid")>>>>)

\* Mutated form: the record does not say that there is a register.
emit_trace_reg_writeNoFlag(e, rv, val_reg) ==
    LET t == reg_32(temp3)
    IN IF ~e.cfg.diff \/ rv = 0 THEN e
       ELSE Out(e, <<<<"mov", t, Imm(rv)>>, <<"str", t, Trace("rd")>>,
                     <<"str", R(val_reg[2]), Trace("rd_value")>>>>)

emit_trace_reg_write(e, rv, val_reg) ==
    LET t == reg_32(temp3)
    IN IF ~e.cfg.diff \/ rv = 0 THEN e
       ELSE Out(e, <<<<"mov", t, Imm(rv)>>, <<"str", t, Trace("rd")>>,
                     <<"str", R(val_reg[2]), Trace("rd_value")>>,
                     <<"mov", t, Imm(1)>>, <<"str", t, Trace("has_rd")>>>>)

emit_trace_mem_access(e, addr_reg, val_reg, width, is_write) ==
    LET t == reg_32(temp3)
        v == CASE width = 1 -> <<"uxtb", t, reg_32(val_reg)>>
               [] width = 2 -> <<"uxth", t, reg_32(val_reg)>>
               [] width = 8 /\ Rv64 -> <<"mov", temp3, reg_64(val_reg)>>
               [] OTHER -> <<"mov", t, reg_32(val_reg)>>
    IN IF ~e.cfg.diff THEN e
       ELSE Out(e, <<<<"str", R(addr_reg[2]), Trace("mem_addr")>>, v, <<"str", temp3, Trace("mem_value")>>,
                     <<"mov", t, Imm(width)>>, <<"str", t, Trace("mem_width")>>,
                     <<"mov", t, Imm(Truth(is_write))>>, <<"str", t, Trace("is_write")>>,
                     <<"mov", t, Imm(1)>>, <<"str", t, Trace("has_mem")>>>>)

---------------------------------------------------------------------------------
(* ir/expr/mod.rs and ops_binary.rs: helpers without recursion. *)

signed_imm(v) == Signed(v, W)
expr_needs_temp1(x) == x[1] \in {"mem", "un", "bin", "sel", "call"}
is_cmp_expr(x) == x[1] = "bin" /\ IsComparison(x[2])

(* addsub_imm_parts: an immediate of ImmBits bits, or one shifted by them. *)
\* Mutated form: the bits below the shift are not looked at.
addsub_imm_partsWide(v) == Abs(v) <= ImmMax * 2^ImmBits

addsub_imm_parts(v) == Abs(v) <= ImmMax \/ (Abs(v) <= ImmMax * 2^ImmBits /\ Abs(v) % 2^ImmBits = 0)

emit_cmp_with_imm(e, left_reg, v) ==
    IF addsub_imm_parts(v)
    THEN Out(e, <<<<IF v >= 0 THEN "cmp" ELSE "cmn", left_reg, Imm(Abs(v))>>>>)
    ELSE Out(e, <<<<"mov", temp2, Imm(v)>>, <<"cmp", left_reg, temp2>>>>)

emit_store_next_pc_imm(e, pc) == Out(e, <<<<"mov", R(1), Imm(pc)>>, <<"str", R(1), <<"pc">>>>>>)

CondCode(op, invert) ==
    LET c == [Eq |-> <<"eq", "ne">>, Ne |-> <<"ne", "eq">>, Lt |-> <<"lt", "ge">>,
              Ge |-> <<"ge", "lt">>, Ltu |-> <<"lo", "hs">>, Geu |-> <<"hs", "lo">>]
    IN c[op][IF invert THEN 2 ELSE 1]

OpStr == [Add |-> "add", Sub |-> "sub", And |-> "and", Or |-> "orr", Xor |-> "eor", Mul |-> "mul",
          Sll |-> "lsl", Srl |-> "lsr", Sra |-> "asr", SllW |-> "lsl", SrlW |-> "lsr", SraW |-> "asr",
          AddW |-> "add", SubW |-> "sub", MulW |-> "mul",
          Div |-> "sdiv", Rem |-> "sdiv", DivU |-> "udiv", RemU |-> "udiv",
          DivW |-> "sdiv", RemW |-> "sdiv", DivUW |-> "udiv", RemUW |-> "udiv"]
Basic == {"Add", "Sub", "And", "Or", "Xor", "Mul"}

(* add or sub of an immediate: the sign moves into the operation. *)
AddSub(l, op, dest, v) ==
    Ret(Out(l, <<<<IF (op = "Add") = (v >= 0) THEN "add" ELSE "sub", dest, l.ret, Imm(Abs(v))>>>>), dest)

(* An operation of a register and an immediate the host can encode. *)
ImmForm(e, op, right, dest, left) ==
    LET v == right[2]
    IN IF op \in {"Add", "Sub"} /\ addsub_imm_parts(signed_imm(v))
       THEN AddSub(Ret(e, left), op, dest, signed_imm(v))
       ELSE IF op \in {"And", "Or", "Xor"} /\ is_logical_imm(v, W)
       THEN Ret(Out(e, <<<<OpStr[op], dest, left, Imm(v)>>>>), dest)
       ELSE Ret(e, None)

emit_cpop(d) ==
    LET n == IF d[1] = "x" THEN Host ELSE W32
        t == <<d[1], 2>>
        stripes(k) == Imm(OfBits(LAMBDA i : (i \div k) % 2 = 0, n))
        tail[k \in {8, 16, 32, 64}] == IF k >= n THEN <<>>
                                       ELSE <<<<"lsr", t, d, Imm(k)>>, <<"add", d, d, t>>>> \o tail[2 * k]
    IN <<<<"lsr", t, d, Imm(1)>>, <<"and", t, t, stripes(1)>>, <<"sub", d, d, t>>,
         <<"lsr", t, d, Imm(2)>>, <<"and", t, t, stripes(2)>>, <<"and", d, d, stripes(2)>>, <<"add", d, d, t>>,
         <<"lsr", t, d, Imm(4)>>, <<"add", d, d, t>>, <<"and", d, d, stripes(4)>>>>
       \o tail[8] \o <<<<"and", d, d, Imm(2 * n - 1)>>>>

emit_orc8(d) ==
    LET t == temp3
        gather[k \in {1, 2, 4, 8}] == IF k >= Byte THEN <<>>
                                      ELSE <<<<"lsr", t, d, Imm(k)>>, <<"orr", d, d, t>>>> \o gather[2 * k]
    IN gather[1] \o <<<<"and", d, d, Imm(ByteLowBits)>>, <<"mov", t, Imm(2^Byte - 1)>>, <<"mul", d, d, t>>>>

(* What emit_unary_op does to the operand in d; an operation it does not    *)
(* know leaves it as it is.                                                 *)
UnaryCode(op, d) ==
    LET d32 == reg_32(d)
        d64 == reg_64(d)
    IN CASE op = "Neg" -> <<<<"neg", d, d>>>>
         [] op = "Not" -> <<<<"mvn", d, d>>>>
         [] op = "Sext8" -> <<<<"sxtb", d, d32>>>>
         [] op = "Sext16" -> <<<<"sxth", d, d32>>>>
         [] op = "Sext32" -> <<<<"sxtw", d64, d32>>>>
         [] op = "Zext8" -> <<<<"uxtb", d32, d32>>>>
         [] op = "Zext16" -> <<<<"uxth", d32, d32>>>>
         [] op = "Zext32" -> <<<<"mov", d32, d32>>>>
         [] op = "Clz" -> <<<<"clz", d, d>>>>
         [] op = "Ctz" -> <<<<"rbit", d, d>>, <<"clz", d, d>>>>
         [] op = "Cpop" -> emit_cpop(d)
         [] op = "Clz32" -> <<<<"clz", d32, d32>>>>
         [] op = "Ctz32" -> <<<<"rbit", d32, d32>>, <<"clz", d32, d32>>>>
         [] op = "Cpop32" -> emit_cpop(d32)
         [] op = "Orc8" -> emit_orc8(d)
         [] op = "Rev8" -> <<<<"rev", d, d>>>>
         [] OTHER -> <<>>

---------------------------------------------------------------------------------
(* Expressions.  emit_expr leaves the value in dest, or in the register the *)
(* guest register lives in, and returns that register.                      *)

RECURSIVE emit_expr(_, _, _)

MoveToX0(r) == Ret(Move(r, X(0), reg_64(r.ret)), X(0))
emit_expr_as_addr(e, x) ==
    CASE x[1] = "reg" -> load_rv_as_addr(e, x[2])
      [] x[1] = "imm" -> Ret(Out(e, <<<<"mov", X(0), Imm(x[2])>>>>), X(0))
      [] OTHER -> MoveToX0(emit_expr(e, x, temp1))

(* The guest address base + offset, in x0. *)
AddOffset(a, offset) == IF offset # 0 THEN emit_add_offset(a, a.ret, offset) ELSE Move(a, X(0), a.ret)
AddressInX0(e, base, offset) == AddOffset(emit_expr_as_addr(e, base), offset)

emit_expr_read_mem(e, base, offset, width, signed, dest) ==
    LET into == IF width = 8 \/ (signed /\ Rv64) THEN dest ELSE reg_32(dest)
    IN Ret(emit_trace_mem_access(Out(apply_address_mode(AddressInX0(e, base, offset), X(0)),
                                     <<<<"load", into, width, signed>>>>), X(0), dest, width, FALSE), dest)

emit_expr_read_csr(e, n, dest) ==
    CASE n \in CounterLow -> Out(e, IF Counts(e) THEN <<<<"mov", dest, R(18)>>>>
                                    ELSE <<<<"ldr", dest, <<"instret">>>>>>)
      [] n \in CounterHigh /\ ~Rv64 -> Out(e, IF Counts(e) THEN <<<<"lsr", reg_64(dest), INSTRET, Imm(W32)>>>>
                                              ELSE <<<<"ldr", dest, <<"instreth">>>>>>)
      [] OTHER -> Out(e, <<<<"mov", dest, Imm(0)>>>>)

emit_expr_read_temp(e, idx, dest) == Ret(Out(e, <<<<"ldr", dest, <<"sp", idx>>>>>>), dest)
emit_expr_read_res_addr(e, dest) == Ret(Out(e, <<<<"ldr", dest, <<"res_addr">>>>>>), dest)
emit_expr_read_res_valid(e, dest) == Ret(Out(e, <<<<"ldr", reg_32(dest), <<"res_valid">>>>>>), dest)

emit_expr_read(e, x, dest) ==
    CASE x[1] = "reg" -> load_rv_to_temp(e, x[2], dest)
      [] x[1] = "mem" -> emit_expr_read_mem(e, x[2], x[3], x[4], x[5], dest)
      [] x[1] = "csr" -> Ret(IF e.cfg.perf THEN Out(e, <<<<"mov", dest, Imm(0)>>>>)
                             ELSE emit_expr_read_csr(e, x[2], dest), dest)
      [] x[1] = "tmp" -> emit_expr_read_temp(e, x[2], dest)
      [] x[1] = "res_addr" -> emit_expr_read_res_addr(e, dest)
      [] x[1] = "res_valid" -> emit_expr_read_res_valid(e, dest)

emit_unary_op(e, op, inner, dest) == Out(MoveRet(emit_expr(e, inner, dest), dest), UnaryCode(op, dest))

(* The selected values wait in the temp slots 0 and 1. *)
SelectOn(c, dest) ==
    Ret(Out(c, <<<<"ldr", R(1), <<"sp", 0>>>>, <<"ldr", R(2), <<"sp", 1>>>>,
                 <<"cmp", c.ret, Imm(0)>>, <<"csel", dest, R(1), R(2), "ne">>>>), dest)
emit_expr_select(e, cond, then, else, dest) ==
    SelectOn(emit_expr(StoreRet(emit_expr(StoreRet(emit_expr(e, then, temp1), <<"sp", 0>>),
                                          else, temp1), <<"sp", 1>>),
                       cond, temp1), dest)

(* Arguments are loaded from the last to the first; the state is argument 0.*)
Argument(e, a, r) ==
    CASE a[1] = "reg" -> load_rv_to_temp(e, a[2], r)
      [] a[1] = "imm" -> Ret(Out(e, <<<<"mov", r, Imm(a[2])>>>>), r)
      [] OTHER -> emit_expr(e, a, temp1)
emit_extern_call(e, name, args) ==
    LET load[k \in 0 .. Len(args)] ==
            IF k = Len(args) THEN save_hot_regs_to_state(e)
            ELSE MoveRet(Argument(load[k + 1], args[k + 1], R(k + 1)), R(k + 1))
    IN Ret(restore_hot_regs_from_state(Out(load[0], <<<<"bl", name, Len(args)>>>>)), R(0))

---------------------------------------------------------------------------------
(* Binary operations.  The fast paths return None where they do not apply.  *)

Value(e, left, dest) == MoveRet(emit_expr(e, left, dest), dest)

emit_binary_imm_early(e, op, left, right, dest) ==
    LET v == right[2]
        neutral == \/ op \in {"Add", "Sub", "Or", "Xor"} /\ v = 0
                   \/ op = "And" /\ v = 2^W - 1
                   \/ op = "Mul" /\ v = 1
    IN CASE IsImm(right) /\ neutral -> Value(e, left, dest)
         [] IsImm(right) /\ op \in {"And", "Mul"} /\ v = 0 -> Ret(Out(e, <<<<"mov", dest, Imm(0)>>>>), dest)
         [] OTHER -> Ret(e, None)

(* The operation on left and the register the right operand is in. *)
Apply2(r, op, dest, left) == Ret(Out(r, <<<<OpStr[op], dest, left, r.ret>>>>), dest)

(* The left operand is the register the result goes to. *)
emit_binary_inplace_hot(e, op, left, right, dest) ==
    IF ~(op \in Basic /\ left[1] = "reg" /\ IsHot(e, left[2]) /\ HotReg(e, left[2]) = dest)
    THEN Ret(e, None)
    ELSE OrElse(IF IsImm(right) THEN ImmForm(e, op, right, dest, dest) ELSE Ret(e, None),
                Apply2(emit_expr(e, right, temp2), op, dest, dest))

emit_binary_hot_regs(e, op, left, right, dest) ==
    IF ~(op \in Basic /\ left[1] = "reg" /\ IsHot(e, left[2])) THEN Ret(e, None)
    ELSE IF right[1] = "reg" /\ IsHot(e, right[2])
    THEN Ret(Out(e, <<<<OpStr[op], dest, HotReg(e, left[2]), HotReg(e, right[2])>>>>), dest)
    ELSE IF IsImm(right) THEN ImmForm(e, op, right, dest, HotReg(e, left[2]))
    ELSE Ret(e, None)

emit_addsub_imm(e, op, left, right, dest) ==
    IF ~(op \in {"Add", "Sub"} /\ IsImm(right)) THEN Ret(e, None)
    ELSE IF ~addsub_imm_parts(signed_imm(right[2])) THEN Ret(e, None)
    ELSE AddSub(emit_expr(e, left, temp1), op, dest, signed_imm(right[2]))

(* The right operand, with the left one in temp1 spilled around it where    *)
(* evaluating it may use temp1.                                             *)
\* Mutated form: the left operand stays in temp1.
maybe_spill_leftNever(e, right) == Ret(e, None)

maybe_spill_left(e, right) == IF expr_needs_temp1(right) THEN Spill(e, temp1) ELSE Ret(e, None)
AfterSpill(r, slot, left) == Ret(restore_spilled_left(r, slot, left), r.ret)
RightOver(s, right, left) == AfterSpill(emit_expr(s, right, temp2), s.ret, left)
RightOperand(e, right) == RightOver(maybe_spill_left(e, right), right, temp1)

WordResult(r, op, k, dest) ==
    Ret(Out(r, <<<<OpStr[op], Wr(0), Wr(0), k>>, <<"sxtw", reg_64(dest), Wr(0)>>>>), dest)
WordArith(r, op, dest) == WordResult(r, op, reg_32(r.ret), dest)
emit_word_arith(e, op, right, dest) == WordArith(RightOperand(e, right), op, dest)

emit_shift_op(e, op, right, dest) ==
    Apply2(IF IsImm(right) THEN Ret(e, Imm(right[2] % W)) ELSE RightOver(Spill(e, temp1), right, temp1),
           op, dest, temp1)

emit_shift_word_op(e, op, right, dest) ==
    IF IsImm(right) THEN WordResult(e, op, Imm(right[2] % W32), dest)
    ELSE WordArith(RightOver(Spill(e, Wr(0)), right, Wr(0)), op, dest)

(* Division: a zero divisor and the signed overflow are branched around.    *)
DivCode(d, op, dest) ==
    LET r == d.ret
        ok == L(d, 1)
        done == L(d, 2)
        no_ov == L(d, 3)
        overflow == <<<<"mov", R(2), Imm(2^(W - 1))>>, <<"cmp", temp1, R(2)>>, <<"b.", "ne", no_ov>>,
                      <<"cmn", r, Imm(1)>>, <<"b.", "ne", no_ov>>,
                      <<"mov", dest, IF op = "Div" THEN R(2) ELSE Imm(0)>>, <<"b", done>>, <<"label", no_ov>>>>
        quotient == IF op \in {"Div", "DivU"} THEN <<<<OpStr[op], dest, temp1, r>>>>
                    ELSE <<<<OpStr[op], R(2), temp1, r>>, <<"msub", dest, R(2), r, temp1>>>>
    IN Ret(Out(Labels(d, 3),
               <<<<"cbnz", r, ok>>, <<"mov", dest, IF op \in {"Div", "DivU"} THEN Imm(-1) ELSE temp1>>,
                 <<"b", done>>, <<"label", ok>>>>
               \o (IF op \in {"Div", "Rem"} THEN overflow ELSE <<>>) \o quotient \o <<<<"label", done>>>>), dest)
emit_div_op(e, op, right, dest) == DivCode(RightOperand(e, right), op, dest)

DivWordCode(d, op, dest) ==
    LET r == reg_32(d.ret)
        ok == L(d, 1)
        done == L(d, 2)
        isDiv == op \in {"DivW", "DivUW"}
    IN Ret(Out(Labels(d, 2),
               <<<<"cbnz", r, ok>>,
                 IF isDiv THEN <<"mov", dest, Imm(-1)>> ELSE <<"sxtw", reg_64(dest), Wr(0)>>,
                 <<"b", done>>, <<"label", ok>>, <<OpStr[op], Wr(2), Wr(0), r>>>>
               \o (IF isDiv THEN <<>> ELSE <<<<"msub", Wr(2), Wr(2), r, Wr(0)>>>>)
               \o <<<<"sxtw", reg_64(dest), Wr(2)>>, <<"label", done>>>>), dest)
emit_div_word_op(e, op, right, dest) == DivWordCode(RightOperand(e, right), op, dest)

MulhWide(op, dest, r) ==
    CASE op = "MulH" -> <<<<"smulh", dest, temp1, r>>>>
      [] op = "MulHU" -> <<<<"umulh", dest, temp1, r>>>>
      [] op = "MulHSU" -> <<<<"umulh", dest, temp1, r>>, <<"cmp", temp1, Imm(0)>>,
                            <<"csel", X(2), r, X(31), "lt">>, <<"sub", dest, dest, X(2)>>>>
MulhNarrow(op, d, r) ==
    CASE op = "MulH" -> <<<<"smull", d, Wr(0), r>>, <<"asr", d, d, Imm(W32)>>>>
      [] op = "MulHU" -> <<<<"umull", d, Wr(0), r>>, <<"lsr", d, d, Imm(W32)>>>>
      [] op = "MulHSU" ->
            <<<<"mov", Wr(2), Wr(0)>>, <<"smull", d, Wr(0), r>>, <<"asr", d, d, Imm(W32)>>,
              <<"cmp", r, Imm(0)>>, <<"csel", Wr(2), Wr(2), Wr(31), "lt">>, <<"add_sxtw", d, d, Wr(2)>>>>
MulhCode(d, op, dest) ==
    Ret(Out(d, IF Rv64 THEN MulhWide(op, dest, d.ret) ELSE MulhNarrow(op, reg_64(dest), reg_32(d.ret))), dest)
emit_mulh_op(e, op, right, dest) == MulhCode(RightOperand(e, right), op, dest)

Special == {"Sll", "Srl", "Sra", "SllW", "SrlW", "SraW", "AddW", "SubW", "MulW", "Div", "DivU", "Rem", "RemU",
            "DivW", "DivUW", "RemW", "RemUW", "MulH", "MulHU", "MulHSU"}
emit_binary_special(e, op, right, dest) ==
    CASE op \in {"Sll", "Srl", "Sra"} -> emit_shift_op(e, op, right, dest)
      [] op \in {"SllW", "SrlW", "SraW"} -> emit_shift_word_op(e, op, right, dest)
      [] op \in {"AddW", "SubW", "MulW"} -> emit_word_arith(e, op, right, dest)
      [] op \in {"Div", "DivU", "Rem", "RemU"} -> emit_div_op(e, op, right, dest)
      [] op \in {"DivW", "DivUW", "RemW", "RemUW"} -> emit_div_word_op(e, op, right, dest)
      [] op \in {"MulH", "MulHU", "MulHSU"} -> emit_mulh_op(e, op, right, dest)

(* A pack is not implemented: dest keeps what it held. *)
emit_binary_basic(e, op, right, dest) ==
    LET v == e.ret
        logic == op \in {"And", "Or", "Xor"}
        encodes == v[1] = "#" /\ is_logical_imm(right[2], W)
    IN CASE op \in {"Add", "Sub"} \/ (logic /\ encodes) -> Apply2(e, op, dest, temp1)
         [] op = "Mul" \/ (logic /\ ~encodes) ->
               Apply2(IF v[1] = "#" THEN emit_expr(e, right, temp2) ELSE e, op, dest, temp1)
         [] IsComparison(op) -> Ret(Out(e, <<<<"cmp", temp1, v>>, <<"cset", dest, CondCode(op, FALSE)>>>>), dest)
         [] OTHER -> Ret(e, dest)

WithLeft(l, op, right, dest) ==
    IF Emitted(l) /\ op \in Special THEN emit_binary_special(l, op, right, dest)
    ELSE emit_binary_basic(IF IsImm(right) /\ right[2] <= ImmMax THEN Ret(l, Imm(right[2]))
                           ELSE RightOperand(l, right), op, right, dest)
emit_binary_general(e, op, left, right, dest) == WithLeft(Value(e, left, temp1), op, right, dest)

FirstOf(early, inplace, hot, addsub, general) ==
    CASE early.ret # None -> early
      [] early.ret = None /\ inplace.ret # None -> inplace
      [] early.ret = None /\ inplace.ret = None /\ hot.ret # None -> hot
      [] early.ret = None /\ inplace.ret = None /\ hot.ret = None /\ addsub.ret # None -> addsub
      [] OTHER -> general
emit_binary_op(e, op, left, right, dest) ==
    FirstOf(emit_binary_imm_early(e, op, left, right, dest),
            emit_binary_inplace_hot(e, op, left, right, dest),
            emit_binary_hot_regs(e, op, left, right, dest),
            emit_addsub_imm(e, op, left, right, dest),
            emit_binary_general(e, op, left, right, dest))

emit_expr(e, x, dest) ==
    CASE Emitted(e) /\ x[1] = "imm" -> Ret(Out(e, <<<<"mov", dest, Imm(x[2])>>>>), dest)
      [] x[1] = "un" -> emit_unary_op(e, x[2], x[3], dest)
      [] x[1] = "bin" -> emit_binary_op(e, x[2], x[3], x[4], dest)
      [] x[1] = "sel" -> emit_expr_select(e, x[2], x[3], x[4], dest)
      [] x[1] = "call" -> MoveRet(emit_extern_call(e, x[2], x[3]), dest)
      [] OTHER -> emit_expr_read(e, x, dest)

---------------------------------------------------------------------------------
(* A comparison fused with the branch on it, taken when it is true (false   *)
(* if invert).  Ret is None when the condition is no comparison.            *)

CompareRegs(r, left) == Out(r, <<<<"cmp", left, r.ret>>>>)
CompareWith(s, left, right) ==
    restore_spilled_left(IF IsImm(right) THEN emit_cmp_with_imm(s, left, signed_imm(right[2]))
                         ELSE CompareRegs(emit_expr(s, right, temp2), left), s.ret, left)
CompareLeft(l, right) ==
    CompareWith(IF l.ret = temp1 /\ expr_needs_temp1(right) THEN Spill(l, temp1) ELSE Ret(l, None), l.ret, right)
BranchOnLeft(l, op, right, label, code) ==
    IF op \in {"Eq", "Ne"} /\ is_zero(right)
    THEN Out(l, <<<<IF code = "eq" THEN "cbz" ELSE "cbnz", l.ret, label>>>>)
    ELSE Out(CompareLeft(l, right), <<<<"b.", code, label>>>>)
CompareBranch(e, cond, label, invert) ==
    BranchOnLeft(emit_expr(e, cond[3], temp1), cond[2], cond[4], label, CondCode(cond[2], invert))

(* Both operands of the logical operation are comparisons: two branches,    *)
(* p = [to, inv of each, and the code after them].                          *)
BranchTwice(e, left, right, p) ==
    Out(CompareBranch(CompareBranch(e, left, p[1], p[2]), right, p[3], p[4]), p[5])
try_emit_compare_logic(e, op, left, right, label, invert) ==
    LET skip == L(e, 1)
    IN BranchTwice(Labels(e, 1), left, right,
           CASE op = "Or" /\ ~invert -> <<label, FALSE, label, FALSE, <<>>>>
             [] op = "Or" /\ invert -> <<skip, FALSE, skip, FALSE, <<<<"b", label>>, <<"label", skip>>>>>>
             [] op = "And" /\ ~invert -> <<skip, TRUE, label, FALSE, <<<<"label", skip>>>>>>
             [] op = "And" /\ invert -> <<label, TRUE, label, TRUE, <<>>>>)

try_emit_compare_branch(e, cond, label, invert) ==
    IF is_cmp_expr(cond) THEN Ret(CompareBranch(e, cond, label, invert), label)
    ELSE IF cond[1] = "bin" /\ cond[2] \in {"And", "Or"} /\ is_cmp_expr(cond[3]) /\ is_cmp_expr(cond[4])
    THEN Ret(try_emit_compare_logic(e, cond[2], cond[3], cond[4], label, invert), label)
    ELSE Ret(e, None)

(* The branch to label on cond, fused or on its value. *)
BranchOnValue(v, label, invert) == Out(v, <<<<IF invert THEN "cbz" ELSE "cbnz", v.ret, label>>>>)
BranchIf(e, cond, label, invert) ==
    OrElse(try_emit_compare_branch(e, cond, label, invert), BranchOnValue(emit_expr(e, cond, temp1), label, invert))

---------------------------------------------------------------------------------
(* Statements (ir/stmt.rs, htif.rs). *)

WriteRet(v, rd) == cold_cache_invalidate(emit_trace_reg_write(store_to_rv(v, rd, v.ret), rd, v.ret), rd)
emit_write_reg(e, rd, x) ==
    IF rd = 0 THEN e ELSE WriteRet(emit_expr(e, x, IF IsHot(e, rd) THEN HotReg(e, rd) ELSE temp1), rd)

(* A store to TOHOST is a command: an odd value exits, an even one is a     *)
(* call of the handler, and neither is stored.                              *)
emit_htif_check(e, done) ==
    LET not_tohost == L(e, 1)
        not_exit == L(e, 2)
        exit == Out(Labels(e, 2),
                    <<<<"mov", Wr(2), Imm(TOHOST)>>, <<"cmp", Wr(0), Wr(2)>>, <<"b.", "ne", not_tohost>>,
                      <<"tst", X(1), Imm(1)>>, <<"b.", "eq", not_exit>>,
                      <<"lsr", X(2), X(1), Imm(1)>>, <<"mov", Wr(0), Imm(1)>>, <<"str", Wr(0), <<"exited">>>>,
                      <<"str", Wr(2), <<"exit_code">>>>, <<"b", <<"exit">>>>, <<"label", not_exit>>>>)
        call == Out(save_hot_regs_to_state(apply_address_mode(exit, X(1))),
                    <<<<"bl", "handle_tohost_write", 1>>>>)
    IN Out(restore_hot_regs_from_state(call),
           <<<<"ldr", Wr(0), <<"exited">>>>, <<"cbnz", Wr(0), <<"exit">>>>, <<"b", done>>, <<"label", not_tohost>>>>)

(* The value is held where evaluating the address leaves it; then it is     *)
(* stored at the address in x0.                                             *)
ChecksHtif(e, width) == e.cfg.htif /\ width \in {4, 8}
Hold(v, width) ==
    IF v.ret \in {temp1, temp2} THEN MoveRet(v, temp2)
    ELSE IF ChecksHtif(v, width) THEN Ret(Move(v, X(1), reg_64(v.ret)), X(1)) ELSE v
StoreAtX0(e, store, width) ==
    Out(emit_trace_mem_access(apply_address_mode(e, X(0)), X(0), store, width, TRUE),
        <<<<"store", IF width = 8 THEN reg_64(store) ELSE reg_32(store), width>>>>)
StoreOrCommand(e, store, width) ==
    IF ChecksHtif(e, width)
    THEN Out(StoreAtX0(emit_htif_check(Labels(e, 1), L(e, 1)), store, width), <<<<"label", L(e, 1)>>>>)
    ELSE StoreAtX0(e, store, width)
StoreHeld(v, base, offset, width) == StoreOrCommand(AddressInX0(v, base, offset), v.ret, width)
emit_write_mem(e, base, offset, width, x) == StoreHeld(Hold(emit_expr(e, x, temp2), width), base, offset, width)

StoreRet32(v, place) == Out(v, <<<<"str", reg_32(v.ret), place>>>>)
emit_write_temp(e, idx, x) == StoreRet(emit_expr(e, x, temp1), <<"sp", idx>>)
emit_write_res_addr(e, x) == StoreRet(emit_expr(e, x, temp1), <<"res_addr">>)
emit_write_res_valid(e, x) == StoreRet32(emit_expr(e, x, temp1), <<"res_valid">>)
emit_write_exit_code(e, x) == StoreRet32(emit_expr(e, x, temp1), <<"exit_code">>)
emit_write_exited(e) == Out(e, <<<<"mov", Wr(0), Imm(1)>>, <<"str", Wr(0), <<"exited">>>>>>)

(* Whatever the value, a write of the exit flag stores one; a csr write is  *)
(* not implemented.                                                         *)
RECURSIVE emit_stmts(_, _)
ElseBranch(t, else, else_label, end_label) ==
    IF Emitted(t) /\ else = <<>> THEN Out(t, <<<<"label", else_label>>>>)
    ELSE Out(emit_stmts(Out(t, <<<<"b", end_label>>, <<"label", else_label>>>>), else), <<<<"label", end_label>>>>)
emit_if_stmt(e, cond, then, else) ==
    ElseBranch(emit_stmts(BranchIf(Labels(e, 2), cond, L(e, 1), TRUE), then), else, L(e, 1), L(e, 2))

emit_stmt(e, s) ==
    CASE Emitted(e) /\ s[1] = "reg" -> emit_write_reg(e, s[2], s[3])
      [] s[1] = "mem" -> emit_write_mem(e, s[2], s[3], s[4], s[5])
      [] s[1] = "exited" -> emit_write_exited(e)
      [] s[1] = "exit_code" -> emit_write_exit_code(e, s[2])
      [] s[1] = "tmp" -> emit_write_temp(e, s[2], s[3])
      [] s[1] = "res_addr" -> emit_write_res_addr(e, s[2])
      [] s[1] = "res_valid" -> emit_write_res_valid(e, s[2])
      [] s[1] = "if" -> emit_if_stmt(e, s[2], s[3], s[4])
      [] s[1] = "csr" -> e
emit_stmts(e, ss) == IF ss = <<>> THEN e ELSE emit_stmts(emit_stmt(e, Head(ss)), Tail(ss))

RECURSIVE stmt_writes_to_exited(_)
stmt_writes_to_exited(s) ==
    \/ s[1] = "exited"
    \/ s[1] = "if" /\ \E b \in {3, 4} : \E k \in DOMAIN s[b] : stmt_writes_to_exited(s[b][k])

---------------------------------------------------------------------------------
(* Terminators (ir/terminator.rs, dispatch.rs). *)

is_valid_address(e, pc) == pc \in e.cfg.valid
Target(e, pc) == IF is_valid_address(e, pc) THEN <<"pc", pc>> ELSE <<"trap">>

ClearBit0(a) == Out(Move(a, X(0), a.ret), <<<<"and", X(0), X(0), Imm(-2)>>>>)
DynTarget(e, addr) == ClearBit0(emit_expr_as_addr(e, addr))

(* The table has one slot for every two bytes from text_start to pc_end.    *)
emit_dispatch_jump(e) ==
    LET r == R(0)
        t == R(2)
        ok == L(e, 1)
        slot == <<<<"mov", t, Imm(e.cfg.text_start)>>, <<"sub", r, r, t>>>>
        check == <<<<"mov", t, Imm(e.cfg.pc_end - e.cfg.text_start)>>, <<"cmp", r, t>>, <<"b.", "lo", ok>>,
                   <<"b", <<"trap">>>>, <<"label", ok>>>>
    IN Out(Labels(e, 1), slot \o (IF e.cfg.mode = "Bounds" THEN check ELSE <<>>)
                         \o <<<<"lsr", r, r, Imm(1)>>, <<"br", Wr(0)>>>>)

(* A fall-through that names no pc goes on with the next instruction of the *)
(* stream, at fall_pc.                                                      *)
FallPc(term, fall_pc) == IF term[3] THEN term[2] ELSE fall_pc

(* What suspending instead of the terminator stores as the next pc.  The    *)
(* terminators that end the program are left to themselves.                 *)
SuspendAt(e, term, fall_pc, current_pc) ==
    LET exit == <<<<"b", <<"exit">>>>>>
    IN CASE term[1] = "fall" ->
              Out(emit_store_next_pc_imm(e, IF FallPc(term, fall_pc) = current_pc THEN fall_pc ELSE FallPc(term, fall_pc)), exit)
         [] term[1] = "jump" -> Out(emit_store_next_pc_imm(e, term[2]), exit)
         [] term[1] = "dyn" -> Out(DynTarget(e, term[2]), <<<<"str", R(0), <<"pc">>>>>> \o exit)
         [] term[1] = "branch" ->
              Out(emit_store_next_pc_imm(
                     Out(emit_store_next_pc_imm(BranchIf(Labels(e, 2), term[2], L(e, 1), FALSE), fall_pc),
                         <<<<"b", L(e, 2)>>, <<"label", L(e, 1)>>>>), term[3]),
                  <<<<"label", L(e, 2)>>>> \o exit)
         [] OTHER -> e
SuspendIfDue(e, term, fall_pc, current_pc) ==
    Out(SuspendAt(Out(Labels(e, 1), <<<<"ldr", X(2), <<"target_instret">>>>, <<"cmp", INSTRET, X(2)>>,
                                      <<"b.", "lo", L(e, 1)>>>>), term, fall_pc, current_pc),
        <<<<"label", L(e, 1)>>>>)

\* Mutated form: the target is compared before the instruction is counted.
emit_instret_post_checkLate(e, term, fall_pc, pc) ==
    emit_instret_increment(IF Suspends(e) THEN SuspendIfDue(e, term, fall_pc, pc) ELSE e)

emit_instret_post_check(e, term, fall_pc, pc) ==
    IF Suspends(e) THEN SuspendIfDue(emit_instret_increment(e), term, fall_pc, pc) ELSE emit_instret_increment(e)
emit_instret_suspend_check(e, term, fall_pc, pc) ==
    IF Suspends(e) /\ ~PerInstruction(e) THEN SuspendIfDue(e, term, fall_pc, pc) ELSE e

(* No branch where the next instruction follows, nor to the instruction     *)
(* itself (a jump to itself falls through).  Only a pc that a fall-through  *)
(* names is looked up.                                                      *)
FallTo(e, term, fall_pc, current_pc) ==
    IF term[3] /\ ~is_valid_address(e, term[2]) THEN Out(e, <<<<"b", <<"trap">>>>>>)
    ELSE IF FallPc(term, fall_pc) \notin {fall_pc, current_pc} THEN Out(e, <<<<"b", <<"pc", term[2]>>>>>>) ELSE e
ExitWith(c) == Out(c, <<<<"mov", Wr(0), Imm(1)>>, <<"str", Wr(0), <<"exited">>>>,
                        <<"str", reg_32(c.ret), <<"exit_code">>>>, <<"b", <<"exit">>>>>>)
emit_terminator(e, term, fall_pc, current_pc) ==
    CASE term[1] = "fall" -> FallTo(e, term, fall_pc, current_pc)
      [] term[1] = "jump" -> IF term[2] = current_pc /\ is_valid_address(e, term[2]) THEN e
                             ELSE Out(e, <<<<"b", Target(e, term[2])>>>>)
      [] term[1] = "dyn" -> emit_dispatch_jump(DynTarget(e, term[2]))
      [] term[1] = "branch" -> BranchIf(e, term[2], Target(e, term[3]), FALSE)
      [] term[1] = "exit" -> ExitWith(emit_expr(e, term[2], temp1))
      [] term[1] = "trap" -> Out(e, <<<<"b", <<"trap">>>>>>)

(* A branch on the temp the last statement computes becomes a branch on the *)
(* comparison, and that statement is dropped.                               *)
cmp_from_temp_branch(stmts, cond) ==
    /\ cond[1] = "tmp" /\ stmts # <<>>
    /\ LET last == stmts[Len(stmts)] IN last[1] = "tmp" /\ last[2] = cond[2] /\ is_cmp_expr(last[3])

Fuses(e, ir) == /\ ~PerInstruction(e)
                /\ ir.term[1] = "branch" /\ cmp_from_temp_branch(ir.stmts, ir.term[2])
FusedTerm(ir) == [ir.term EXCEPT ![2] = ir.stmts[Len(ir.stmts)][3]]
emit_body(e, ir) == emit_stmts(e, IF Fuses(e, ir) THEN SubSeq(ir.stmts, 1, Len(ir.stmts) - 1) ELSE ir.stmts)
TestExit(e, ir) ==
    IF \E k \in DOMAIN ir.stmts : stmt_writes_to_exited(ir.stmts[k])
    THEN Out(e, <<<<"ldr", Wr(0), <<"exited">>>>, <<"cbnz", Wr(0), <<"exit">>>>>>) ELSE e
CountBefore(e) == IF PerInstruction(e) THEN e ELSE emit_instret_increment(e)
CountAfter(e, term, fall_pc, pc) == IF PerInstruction(e) THEN emit_instret_post_check(e, term, fall_pc, pc) ELSE e

emit_instruction(e, i, ir, fall_pc) ==
    emit_terminator(
        emit_instret_suspend_check(
            CountAfter(TestExit(emit_body(CountBefore(emit_trace_pc(e, i.pc)), ir), ir), ir.term, fall_pc, i.pc),
            ir.term, fall_pc, i.pc),
        IF Fuses(e, ir) THEN FusedTerm(ir) ELSE ir.term, fall_pc, i.pc)

(* emit_instructions, for one instruction of the stream: each has a label,  *)
(* and the next one emitted is the next that decodes, wherever it is.       *)
NextInStream(cfg, i) ==
    LET after == {pc \in cfg.valid : pc > i.pc}
    IN IF after = {} THEN i.pc + i.size ELSE CHOOSE pc \in after : \A q \in after : pc <= q
emit_instructions(cfg, i, ir) == emit_instruction(emit_pc_label(New(cfg)), i, ir, NextInStream(cfg, i))
=================================================================================
