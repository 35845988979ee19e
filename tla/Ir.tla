----------------------------------- MODULE Ir -----------------------------------
(***************************************************************************)
(* The intermediate representation of one instruction: expressions with    *)
(* the constant folding of rvr-ir/src/expr/mod.rs, statements (stmt.rs)    *)
(* and terminators as the builder (builder.rs) assembles them.             *)
(*                                                                         *)
(* An expression is a tuple headed by its constructor.  The reads of pc,   *)
(* trace_idx, exited, ... are built by no lift and are left out.           *)
(***************************************************************************)
EXTENDS Word

imm(v) == <<"imm", from_u64(v)>>
reg(n) == <<"reg", n>>
mem(base, offset, width, signed) == <<"mem", base, offset, width, signed>>
mem_addr(addr, width, signed) == mem(addr, 0, width, signed)
mem_u(addr, width) == mem_addr(addr, width, FALSE)
mem_s(addr, width) == mem_addr(addr, width, TRUE)
csr(n) == <<"csr", n>>
temp(i) == <<"tmp", i>>
res_addr == <<"res_addr">>
res_valid == <<"res_valid">>

extern_call(name, args) == <<"call", name, args>>

unary(op, e) == <<"un", op, e>>
binary(op, l, r) == <<"bin", op, l, r>>

IsImm(e) == e[1] = "imm"
is_zero(e) == e = imm(0) \/ e = reg(0)

(* Constant folding and the identities of zero. *)
add(l, r) == IF IsImm(l) /\ IsImm(r) THEN imm(l[2] + r[2])
             ELSE IF is_zero(r) THEN l
             ELSE IF is_zero(l) THEN r ELSE binary("Add", l, r)
neg(e) == unary("Neg", e)
sub(l, r) == IF IsImm(l) /\ IsImm(r) THEN imm(l[2] - r[2])
             ELSE IF is_zero(r) THEN l
             ELSE IF is_zero(l) THEN neg(r) ELSE binary("Sub", l, r)
and(l, r) == IF IsImm(l) /\ IsImm(r) THEN imm(And(l[2], r[2])) ELSE binary("And", l, r)
or(l, r) == IF IsImm(l) /\ IsImm(r) THEN imm(Or(l[2], r[2]))
            ELSE IF is_zero(r) THEN l
            ELSE IF is_zero(l) THEN r ELSE binary("Or", l, r)
xor(l, r) == IF IsImm(l) /\ IsImm(r) THEN imm(Xor(l[2], r[2]))
             ELSE IF is_zero(r) THEN l
             ELSE IF is_zero(l) THEN r ELSE binary("Xor", l, r)
sll(l, r) == IF is_zero(r) THEN l ELSE binary("Sll", l, r)
srl(l, r) == IF is_zero(r) THEN l ELSE binary("Srl", l, r)
sra(l, r) == IF is_zero(r) THEN l ELSE binary("Sra", l, r)
mul(l, r) == binary("Mul", l, r)
not(e) == unary("Not", e)

eq(l, r) == binary("Eq", l, r)
ne(l, r) == binary("Ne", l, r)
lt(l, r) == binary("Lt", l, r)
ge(l, r) == binary("Ge", l, r)
ltu(l, r) == IF is_zero(l) THEN ne(r, imm(0)) ELSE binary("Ltu", l, r)
geu(l, r) == binary("Geu", l, r)
select(c, t, e) == <<"sel", c, t, e>>

div(l, r) == binary("Div", l, r)
divu(l, r) == binary("DivU", l, r)
rem(l, r) == binary("Rem", l, r)
remu(l, r) == binary("RemU", l, r)
mulh(l, r) == binary("MulH", l, r)
mulhsu(l, r) == binary("MulHSU", l, r)
mulhu(l, r) == binary("MulHU", l, r)

sext8(e) == IF IsImm(e) THEN imm(Signed(e[2], Byte)) ELSE unary("Sext8", e)
sext16(e) == IF IsImm(e) THEN imm(Signed(e[2], 2 * Byte)) ELSE unary("Sext16", e)
sext32(e) == IF IsImm(e) THEN imm(Signed(e[2], W32)) ELSE unary("Sext32", e)
zext8(e) == IF IsImm(e) THEN imm(Low(e[2], Byte)) ELSE unary("Zext8", e)
zext16(e) == IF IsImm(e) THEN imm(Low(e[2], 2 * Byte)) ELSE unary("Zext16", e)
zext32(e) == IF IsImm(e) THEN imm(Low(e[2], W32)) ELSE unary("Zext32", e)

(* The word operations of RV64. *)
addw(l, r) == IF is_zero(r) THEN sext32(l)
              ELSE IF is_zero(l) THEN sext32(r) ELSE binary("AddW", l, r)
subw(l, r) == IF is_zero(r) THEN sext32(l)
              ELSE IF is_zero(l) THEN sext32(neg(r)) ELSE binary("SubW", l, r)
sllw(l, r) == IF is_zero(r) THEN sext32(l) ELSE binary("SllW", l, r)
srlw(l, r) == IF is_zero(r) THEN sext32(l) ELSE binary("SrlW", l, r)
sraw(l, r) == IF is_zero(r) THEN sext32(l) ELSE binary("SraW", l, r)
mulw(l, r) == binary("MulW", l, r)
divw(l, r) == binary("DivW", l, r)
divuw(l, r) == binary("DivUW", l, r)
remw(l, r) == binary("RemW", l, r)
remuw(l, r) == binary("RemUW", l, r)

clz(e) == unary("Clz", e)
ctz(e) == unary("Ctz", e)
cpop(e) == unary("Cpop", e)
clz32(e) == unary("Clz32", e)
ctz32(e) == unary("Ctz32", e)
cpop32(e) == unary("Cpop32", e)
orc8(e) == unary("Orc8", e)
rev8(e) == unary("Rev8", e)
brev8(e) == unary("Brev8", e)
zip(e) == unary("Zip", e)
unzip(e) == unary("Unzip", e)
pack(l, r) == binary("Pack", l, r)
pack8(l, r) == binary("Pack8", l, r)
pack16(l, r) == binary("Pack16", l, r)

(* Minimum and maximum as selections; the 32-bit forms compare the low     *)
(* words and select the operands as they are.                              *)
min(l, r) == select(lt(l, r), l, r)
max(l, r) == select(lt(l, r), r, l)
minu(l, r) == select(ltu(l, r), l, r)
maxu(l, r) == select(ltu(l, r), r, l)
min32(l, r) == select(lt(sext32(l), sext32(r)), l, r)
max32(l, r) == select(lt(sext32(l), sext32(r)), r, l)
minu32(l, r) == select(ltu(zext32(l), zext32(r)), l, r)
maxu32(l, r) == select(ltu(zext32(l), zext32(r)), r, l)

---------------------------------------------------------------------------------
(* Statements. *)

WriteReg(rd, e) == <<"reg", rd, e>>
write_mem(base, offset, e, width) == <<"mem", base, offset, width, e>>
write_mem_addr(addr, e, width) == write_mem(addr, 0, e, width)
write_csr(n, e) == <<"csr", n, e>>
write_temp(i, e) == <<"tmp", i, e>>
write_res_addr(e) == <<"res_addr", e>>
write_res_valid(e) == <<"res_valid", e>>
write_exited(e) == <<"exited", e>>
write_exit_code(e) == <<"exit_code", e>>
if_then(cond, then) == <<"if", cond, then, <<>>>>
if_then_else(cond, then, else) == <<"if", cond, then, else>>

(* The builder's write_reg: nothing for x0. *)
write_reg(rd, e) == IF rd = 0 THEN <<>> ELSE <<WriteReg(rd, e)>>

(* The build_* methods: the statements and the terminator.  A fall-through  *)
(* goes to the next pc, which it names (the last field) or leaves to the    *)
(* backend; a branch leaves it to the backend.                              *)
Falls(i, stmts, named) == [stmts |-> stmts, term |-> <<"fall", from_u64(i.pc + i.size), named>>]
build_fall(i, stmts) == Falls(i, stmts, TRUE)
build_fall_no_target(i, stmts) == Falls(i, stmts, FALSE)
build_jump(i, stmts, target) == [stmts |-> stmts, term |-> <<"jump", from_u64(target)>>]
build_jump_dyn(i, stmts, addr) == [stmts |-> stmts, term |-> <<"dyn", addr>>]
build_branch(i, stmts, cond, target) ==
    [stmts |-> stmts, term |-> <<"branch", cond, from_u64(target), from_u64(i.pc + i.size)>>]
build_exit(i, stmts, code) == [stmts |-> stmts, term |-> <<"exit", code>>]
build_trap(i, stmts) == [stmts |-> stmts, term |-> <<"trap">>]
=================================================================================
