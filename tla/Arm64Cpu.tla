-------------------------------- MODULE Arm64Cpu --------------------------------
(***************************************************************************)
(* The host: what the AArch64 instructions the backend emits do (Arm       *)
(* Architecture Reference Manual), and the frame of asm_run around them    *)
(* (arm64/prologue.rs).  A host state is                                   *)
(*   [x: the registers, cmp: the operands last compared, slot: the temp    *)
(*    slots at sp, st: the RvState, target: target_instret, trace: the     *)
(*    diff record, line: of the code, at: where control left it]           *)
(***************************************************************************)
EXTENDS Arm64

Bits(r) == IF r[1] = "w" THEN W32 ELSE Host
Val(h, r) == IF r[1] = "#" THEN r[2] ELSE IF r[2] = 31 THEN 0 ELSE h.x[r[2]] % 2^Bits(r)
Put(h, d, v) == [h EXCEPT !.x[d[2]] = v % 2^Bits(d)]

(* Products by halves of the second operand; n bits. *)
MulLow(a, b, n) == LET k == 2^(n \div 2) IN (a * (b % k) + k * ((a * (b \div k)) % k)) % 2^n
MulHigh(a, b, n) == LET k == 2^(n \div 2) IN (a * (b \div k) + (a * (b % k)) \div k) \div k
Reverse(x, n) == OfBits(LAMBDA i : BitOf(x, n - 1 - i) = 1, n)
LeadingZeros(x, n) == n - Cardinality({k \in 0 .. n - 1 : x \div 2^k > 0})
SwapBytes(x, n) == OfBits(LAMBDA i : BitOf(x, n - Byte - (i - (i % Byte)) + (i % Byte)) = 1, n)

(* Three-operand arithmetic on n-bit operands. *)
Arith == {"add", "sub", "and", "orr", "eor", "mul", "lsl", "lsr", "asr", "sdiv", "udiv", "smulh", "umulh"}
Alu(op, a, b, n) ==
    CASE op = "add" -> a + b
      [] op = "sub" -> a - b
      [] op = "and" -> AndOf(a, b % 2^n, Host)
      [] op = "orr" -> a + (b % 2^n) - AndOf(a, b % 2^n, Host)
      [] op = "eor" -> a + (b % 2^n) - 2 * AndOf(a, b % 2^n, Host)
      [] op = "mul" -> MulLow(a, b, n)
      [] op = "lsl" -> a * 2^(b % n)
      [] op = "lsr" -> a \div 2^(b % n)
      [] op = "asr" -> Signed(a, n) \div 2^(b % n)
      [] op = "sdiv" -> IF b = 0 THEN 0 ELSE CDiv(Signed(a, n), Signed(b, n))
      [] op = "udiv" -> IF b = 0 THEN 0 ELSE a \div b
      [] op = "smulh" -> (Signed(a, n) * Signed(b, n)) \div 2^n
      [] op = "umulh" -> MulHigh(a, b, n)

Holds(h, cond) ==
    LET a == h.cmp[1]
        b == h.cmp[2]
        n == h.cmp[3]
    IN CASE cond = "eq" -> a = b   [] cond = "ne" -> a # b
         [] cond = "lo" -> a < b   [] cond = "hs" -> a >= b
         [] cond = "lt" -> Signed(a, n) < Signed(b, n)
         [] cond = "ge" -> Signed(a, n) >= Signed(b, n)

(* Fields of the state and of the frame. *)
Field(h, f) ==
    CASE f[1] = "reg" -> h.st.regs[f[2]]
      [] f[1] = "sp" -> h.slot[f[2]]
      [] f[1] = "instret" -> h.st.instret
      [] f[1] = "instreth" -> h.st.instret \div 2^W32
      [] f[1] = "target_instret" -> h.target
      [] f[1] = "exited" -> h.st.exited
      [] f[1] = "res_addr" -> h.st.res_addr
      [] f[1] = "res_valid" -> h.st.res_valid
SetField(h, f, v, n) ==
    CASE f[1] = "reg" -> [h EXCEPT !.st.regs[f[2]] = v]
      [] f[1] = "sp" -> [h EXCEPT !.slot[f[2]] = v + (IF n = Host THEN 0 ELSE @ - (@ % 2^n))]
      [] f[1] = "trace" -> [h EXCEPT !.trace[f[2]] = v]
      [] f[1] = "pc" -> [h EXCEPT !.st.pc = v]
      [] f[1] = "exited" -> [h EXCEPT !.st.exited = v % 2^Byte]
      [] f[1] = "exit_code" -> [h EXCEPT !.st.exit_code = v % 2^Byte]
      [] f[1] = "res_addr" -> [h EXCEPT !.st.res_addr = v]
      [] f[1] = "res_valid" -> [h EXCEPT !.st.res_valid = v % 2^Byte]

---------------------------------------------------------------------------------
(* prologue.rs and the save/restore around calls: the hot registers and     *)
(* instret move between the state and the host registers.                   *)

Hot(cfg) == {rv \in DOMAIN cfg.hot : TRUE}
Saved(cfg, h) ==
    [h EXCEPT !.st.regs = [rv \in DOMAIN @ |-> IF rv \in Hot(cfg) THEN Val(h, R(cfg.hot[rv])) ELSE @[rv]],
              !.st.instret = IF cfg.instret = "Off" THEN @ ELSE h.x[18]]
Restored(cfg, h) ==
    [h EXCEPT !.x = [n \in DOMAIN @ |->
        IF \E rv \in Hot(cfg) \cap DOMAIN h.st.regs : cfg.hot[rv] = n
        THEN h.st.regs[CHOOSE rv \in Hot(cfg) \cap DOMAIN h.st.regs : cfg.hot[rv] = n]
        ELSE IF n = 18 /\ cfg.instret # "Off" THEN h.st.instret ELSE @[n]]]

(* A call leaves its result in x0 and the caller-saved registers undefined; *)
(* one that traps or touches what is not memory does not come back.         *)
Scratch(n) == (2^Host - 977 + 13 * n) % 2^Host
Called(cfg, h, name, nargs) ==
    IF name = "handle_tohost_write" THEN [state |-> handle_tohost_write(h.st, from_u64(h.x[1])), value |-> 0]
    ELSE render_extern_call(cfg.mode, h.st, name, [k \in 1 .. nargs |-> Val(h, R(k))])
Back(h, r) ==
    IF r.state.status \notin {"run", "exit"} THEN [h EXCEPT !.st = r.state, !.at = <<"fault">>]
    ELSE [h EXCEPT !.st = r.state,
                   !.x = [n \in DOMAIN @ |-> IF n = 0 THEN r.value ELSE IF n < 18 THEN Scratch(n) ELSE @[n]]]
Call(cfg, h, name, nargs) == Back(h, Called(cfg, h, name, nargs))

(* The jump table: a label or asm_trap for each slot; beyond it is other    *)
(* read-only data.                                                          *)
emit_jump_table(cfg, slot) ==
    LET pc == cfg.text_start + 2 * slot
    IN IF pc >= cfg.pc_end THEN <<"ub">> ELSE IF pc \in cfg.valid THEN <<"pc", pc>> ELSE <<"trap">>

Access8(h, width) == h.x[0] + width <= 2^MemBits

(* One instruction that does not branch. *)
Exec(cfg, h, op) ==
    LET d == op[2]
        n == Bits(d)
        a == Val(h, op[3])
    IN CASE op[1] \in Arith -> Put(h, d, Alu(op[1], a, Val(h, op[4]), n))
         [] op[1] \in {"mov", "uxtw"} -> Put(h, d, a)
         [] op[1] = "neg" -> Put(h, d, -a)
         [] op[1] = "mvn" -> Put(h, d, 2^n - 1 - a)
         [] op[1] = "sxtb" -> Put(h, d, Signed(a, Byte))
         [] op[1] = "sxth" -> Put(h, d, Signed(a, 2 * Byte))
         [] op[1] = "sxtw" -> Put(h, d, Signed(a, W32))
         [] op[1] = "uxtb" -> Put(h, d, a % 2^Byte)
         [] op[1] = "uxth" -> Put(h, d, a % 2^(2 * Byte))
         [] op[1] = "clz" -> Put(h, d, LeadingZeros(a, n))
         [] op[1] = "rbit" -> Put(h, d, Reverse(a, n))
         [] op[1] = "rev" -> Put(h, d, SwapBytes(a, n))
         [] op[1] = "msub" -> Put(h, d, Val(h, op[5]) - MulLow(a, Val(h, op[4]), n))
         [] op[1] = "smull" -> Put(h, d, Signed(a, W32) * Signed(Val(h, op[4]), W32))
         [] op[1] = "umull" -> Put(h, d, a * Val(h, op[4]))
         [] op[1] = "add_sxtw" -> Put(h, d, a + Signed(Val(h, op[4]), W32))
         [] op[1] = "csel" -> Put(h, d, IF Holds(h, op[5]) THEN a ELSE Val(h, op[4]))
         [] op[1] = "cset" -> Put(h, d, IF Holds(h, op[3]) THEN 1 ELSE 0)
         [] op[1] = "cmp" -> [h EXCEPT !.cmp = <<Val(h, d), a % 2^n, n>>]
         [] op[1] = "cmn" -> [h EXCEPT !.cmp = <<Val(h, d), (-a) % 2^n, n>>]
         [] op[1] = "tst" -> [h EXCEPT !.cmp = <<AndOf(Val(h, d), a, Host), 0, n>>]
         [] op[1] = "ldr" -> Put(h, d, Field(h, op[3]))
         [] op[1] = "str" -> SetField(h, op[3], Val(h, d), n)
         [] op[1] \in {"load", "store"} /\ ~Access8(h, op[3]) -> [h EXCEPT !.at = <<"fault">>]
         [] op[1] = "load" /\ Access8(h, op[3]) ->
               LET v == LoadBytes(h.st.mem, h.x[0], op[3])
               IN Put(h, d, IF op[4] THEN Signed(v, Byte * op[3]) ELSE v)
         [] op[1] = "store" /\ Access8(h, op[3]) ->
               [h EXCEPT !.st.mem = StoreBytes(@, h.x[0], op[3], Val(h, d))]
         [] op[1] = "bl" -> Call(cfg, h, op[2], op[3])
         [] op[1] = "save" -> Saved(cfg, h)
         [] op[1] = "restore" -> Restored(cfg, h)
         [] op[1] = "br" -> [h EXCEPT !.at = emit_jump_table(cfg, Val(h, d))]
         [] op[1] = "label" -> h

Taken(h, op) ==
    CASE op[1] = "b" -> TRUE
      [] op[1] = "b." -> Holds(h, op[2])
      [] op[1] = "cbz" -> Val(h, op[2]) = 0
      [] op[1] = "cbnz" -> Val(h, op[2]) # 0
Branches == {"b", "b.", "cbz", "cbnz"}

(* The line the host is at. *)
Line(cfg, code, h, op, to) ==
    IF op[1] \notin Branches THEN [Exec(cfg, h, op) EXCEPT !.line = @ + 1]
    ELSE IF ~Taken(h, op) THEN [h EXCEPT !.line = @ + 1]
    ELSE IF to[1] = "L" THEN [h EXCEPT !.line = CHOOSE j \in @ .. Len(code) : code[j] = <<"label", to>>]
    ELSE [h EXCEPT !.at = to]
ThisLine(cfg, code, h, op) == Line(cfg, code, h, op, op[Len(op)])

(* n lines, or until control leaves the code.  Branches go forward, so Run  *)
(* takes at most one step for each line; the halves keep TLC's stack short. *)
RECURSIVE Lines(_, _, _, _)
Lines(cfg, code, h, n) ==
    CASE h.at # <<>> -> h
      [] h.at = <<>> /\ h.line > Len(code) -> [h EXCEPT !.at = <<"fall">>]
      [] h.at = <<>> /\ h.line <= Len(code) /\ n = 1 -> ThisLine(cfg, code, h, code[h.line])
      [] OTHER -> Lines(cfg, code, Lines(cfg, code, h, n \div 2), n - n \div 2)
Run(cfg, code, h) == Lines(cfg, code, h, Len(code) + 1)

(* asm_run up to the label of the instruction, and its epilogue: asm_trap   *)
(* sets has_exited and goes to asm_exit, which saves the registers.         *)
emit_prologue(cfg, h) == Restored(cfg, h)
emit_epilogue(cfg, h) ==
    CASE h.at = <<"exit">> -> Saved(cfg, h)
      [] h.at = <<"trap">> -> Saved(cfg, [h EXCEPT !.st.exited = 1])
      [] OTHER -> h

---------------------------------------------------------------------------------
(* The assembler takes an operation only if its immediates have an encoding:*)
(* an add or sub holds ImmBits bits, shifted by ImmBits or not; a logical   *)
(* instruction holds a run of ones, repeated in every element of the word.  *)
LogicalEncodes(v, n) ==
    \E size \in {s \in {2, 4, 8, 16, 32, 64} : s <= n} : \E ones \in 1 .. size - 1, rot \in 0 .. size - 1 :
        \A i \in 0 .. n - 1 : (BitOf(v, i) = 1) = ((i - rot) % size < ones)
AssemblerTakes(op) ==
    LET v == op[Len(op)]
        arith == {"add", "sub", "cmp", "cmn"}
    IN CASE op[1] \in arith /\ v[1] = "#" -> v[2] \in 0 .. ImmMax \cup {k * 2^ImmBits : k \in 0 .. ImmMax}
         [] op[1] \in {"and", "orr", "eor", "tst"} /\ v[1] = "#" -> LogicalEncodes(v[2] % 2^Bits(op[2]), Bits(op[2]))
         [] op[1] \in {"lsl", "lsr", "asr"} /\ v[1] = "#" -> v[2] \in 0 .. Bits(op[2]) - 1
         [] OTHER -> TRUE
=================================================================================
