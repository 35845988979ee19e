----------------------------- MODULE ValueFlow -----------------------------
(***************************************************************************)
(* The value propagation of the control-flow analysis                      *)
(* (crates/rvr-cfg/src/analysis): which constants a register may hold at   *)
(* each address, and which addresses a computed jump may therefore reach,  *)
(* run beside the guest program it is about.                               *)
(*                                                                         *)
(* The analysis computes in u64 whatever the guest's register width; a     *)
(* byte has Byte bits, so that 2^(8*Byte) stands for 2^64.  An executable  *)
(* segment is a sequence of two-byte slots; a slot holds the instruction   *)
(* that decoding there yields, or Undecodable.                             *)
(*                                                                         *)
(* The worklist is a queue that is filled in hash order.  It is a set      *)
(* here, taken from in any order.  Once it is empty, or has been given up, *)
(* the guest runs for at most MaxSteps instructions.  What the guest loads *)
(* from writable memory, and what an instruction the analysis does not     *)
(* follow writes, is one of the values Wild.  A jump through a register of *)
(* unknown value is left to the heuristics of get_successors; the guest    *)
(* takes it where they say it goes.                                        *)
(***************************************************************************)
EXTENDS Integers, Sequences, FiniteSets, FiniteSetsExt

CONSTANTS Byte, NUM_REGS, MAX_VALUES, MAX_ITERATIONS_MULTIPLIER, MAX_JUMP_TABLE_SCAN,
          Images, Wild, MaxSteps

VARIABLES
  image,      \* the ELF image: xlen, executable and read-only segments, entry points
  scan,       \* the instruction table and what the linear pass found in it
  states,     \* address -> RegisterState
  worklist,   \* the addresses in_worklist
  idx,        \* iterations done
  successors, \* address -> outgoing edges
  unresolved_dynamic_jumps,
  guest       \* the guest's pc and registers, and the steps it has taken

vars == <<image, scan, states, worklist, idx, successors, unresolved_dynamic_jumps, guest>>

analysis == <<states, worklist, idx, successors, unresolved_dynamic_jumps>>

Regs == 0 .. NUM_REGS - 1

NoReg == -1

U64 == 2 ^ (8 * Byte)

Undecodable == [size |-> 0]

NotStarted == [pc |-> NoReg, steps |-> 0]

\* The immediate of an instruction is an i32.
Instruction ==
  [opid : STRING, args : STRING, rd : Regs \cup {NoReg}, rs1 : Regs, rs2 : Regs, size : {2, 4},
   imm : {i \in Int : -(2 ^ (4 * Byte)) <= 2 * i /\ 2 * i < 2 ^ (4 * Byte)}]

ASSUME ConstantsAssumption ==
  Byte \in Nat \ {0} /\ NUM_REGS \in Nat \ {0} /\ Wild \subseteq Int

\* Arithmetic that the provers do not do.
ASSUME PowersAssumption ==
  /\ \A k \in 0 .. 8 * Byte : 2 ^ k \in Nat \ {0}
  /\ U64 = 2 ^ (4 * Byte) * 2 ^ (4 * Byte)

\* Code and read-only data lie in the address space; RV32 code lies below the
\* sign bit.
ASSUME ImagesAssumption ==
  \A im \in Images :
    /\ im.xlen \in {4, 8}
    /\ \A seg \in im.exec :
         /\ seg.start \in Nat /\ seg.code \in Seq(Instruction \cup {Undecodable})
         /\ seg.start + 2 * Len(seg.code) < U64
         /\ im.xlen = 4 => 2 * (seg.start + 2 * Len(seg.code)) <= 2 ^ (4 * Byte)
    /\ \A seg \in im.ro :
         /\ seg.start \in Nat /\ seg.data \in Seq(Int)
         /\ seg.start + Len(seg.data) <= 2 ^ (im.xlen * Byte)

-----------------------------------------------------------------------------
(* The instruction table. *)

\* Whether the bytes from slot k of a segment on decode.
DecodesAt(code, k) == code[k].size > 0 /\ k + code[k].size \div 2 - 1 <= Len(code)

\* The instructions of a segment: decoding resumes after each instruction, and
\* two bytes on where nothing decodes.
decode_segment(seg) ==
  LET code == seg.code
      step(k) == IF DecodesAt(code, k) THEN code[k].size \div 2 ELSE 1
      reached[k \in 1 .. Len(code)] ==
        \/ k = 1
        \/ reached[k - 1] /\ step(k - 1) = 1
        \/ k > 2 /\ reached[k - 2] /\ step(k - 2) = 2
      starts == {k \in 1 .. Len(code) : reached[k] /\ DecodesAt(code, k)}
  IN  [pc \in {seg.start + 2 * (k - 1) : k \in starts} |-> code[1 + (pc - seg.start) \div 2]]

\* InstructionTable::new and populate_segment, for segments that do not overlap.
Table(im) ==
  LET parts == {decode_segment(seg) : seg \in im.exec}
      holder(pc) == CHOOSE f \in parts : pc \in DOMAIN f
  IN  [pc \in UNION {DOMAIN f : f \in parts} |-> holder(pc)[pc]]

base_address(im) == Min({seg.start : seg \in im.exec})
end_address(im) == Max({seg.start + 2 * Len(seg.code) : seg \in im.exec})

is_valid_pc(table, pc) == pc \in DOMAIN table

\* At most eight bytes, little-endian.
Value(bytes) ==
  LET part(i) == IF i <= Len(bytes) THEN bytes[i] * 2 ^ (Byte * (i - 1)) ELSE 0
  IN  part(1) + part(2) + part(3) + part(4) + part(5) + part(6) + part(7) + part(8)

\* RoSegment::read, as a set of at most one value.
Read(seg, addr, size) ==
  LET at == addr - seg.start
  IN  IF 0 <= at /\ at + size <= Len(seg.data) THEN {Value(SubSeq(seg.data, at + 1, at + size))}
      ELSE {}

read_readonly(im, addr, size) == UNION {Read(seg, addr, size) : seg \in im.ro}

-----------------------------------------------------------------------------
(* Instructions as the analysis sees them. *)

add_signed(base, imm) == (base + imm) % U64

\* & !1
Even(a) == (a \div 2) * 2

sign_extend_i32(imm) == imm % U64

extend_loaded_value(value, width, is_unsigned) ==
  LET range == 2 ^ (Byte * width)
      masked == value % range
  IN  IF width < 8 /\ ~is_unsigned /\ masked >= range \div 2 THEN (masked - range) % U64 ELSE masked

Loads == [LB |-> <<1, FALSE>>, LBU |-> <<1, TRUE>>, LH |-> <<2, FALSE>>, LHU |-> <<2, TRUE>>,
          LW |-> <<4, FALSE>>, C_LW |-> <<4, FALSE>>, C_LWSP |-> <<4, FALSE>>, LWU |-> <<4, TRUE>>,
          LD |-> <<8, FALSE>>, C_LD |-> <<8, FALSE>>, C_LDSP |-> <<8, FALSE>>]

extract_written_reg(i) ==
  IF i.args \in {"R", "R4", "I", "U", "J", "Csr", "CsrI", "Amo"} /\ i.rd # 0 THEN i.rd ELSE NoReg

InstrKind(opid) ==
  CASE opid \in {"LUI", "C_LUI"} -> "Lui"
    [] opid = "AUIPC" -> "Auipc"
    [] opid \in {"ADDI", "C_ADDI", "C_ADDI16SP", "C_ADDI4SPN", "C_LI"} -> "Addi"
    [] opid \in {"ADD", "C_ADD"} -> "Add"
    [] opid = "C_MV" -> "Move"
    [] opid \in {"JAL", "C_J", "C_JAL"} -> "Jal"
    [] opid \in {"JALR", "C_JR", "C_JALR"} -> "Jalr"
    [] opid \in DOMAIN Loads -> "Load"
    [] opid \in {"BEQ", "BNE", "BLT", "BGE", "BLTU", "BGEU", "C_BEQZ", "C_BNEZ"} -> "Branch"
    [] OTHER -> "Unknown"

\* A move reads its second source operand.
from_instr(i) ==
  LET kind == InstrKind(i.opid)
  IN  [kind |-> kind, imm |-> i.imm, size |-> i.size,
       rd |-> CASE kind = "Unknown" -> extract_written_reg(i)
                [] kind = "Branch" -> NoReg
                [] OTHER -> i.rd,
       rs1 |-> IF kind = "Move" THEN i.rs2 ELSE i.rs1, rs2 |-> i.rs2,
       width |-> IF kind = "Load" THEN Loads[i.opid][1] ELSE 0,
       is_unsigned |-> kind = "Load" /\ Loads[i.opid][2]]

is_control_flow(d) == d.kind \in {"Jal", "Jalr", "Branch"}
is_call(d) == d.kind \in {"Jal", "Jalr"} /\ d.rd # 0
is_return(d) == d.kind = "Jalr" /\ d.rd = 0 /\ d.rs1 = 1
is_indirect_jump(d) == d.kind = "Jalr" /\ d.rd = 0 /\ d.rs1 # 1

-----------------------------------------------------------------------------
(* The linear pass: one register file, walked through all addresses in order. *)

Nothing == [known |-> FALSE, value |-> 0]
Some(v) == [known |-> TRUE, value |-> v]

\* The absolute code pointers in read-only data: four bytes at every fourth
\* offset, on RV64 also eight at every eighth where they need more than 32 bits.
scan_ro_segments_for_code_pointers(im, table) ==
  LET words(n) == UNION {{Value(SubSeq(seg.data, n * k + 1, n * k + n)) :
                            k \in {k \in 0 .. Len(seg.data) : n * k + n <= Len(seg.data)}} : seg \in im.ro}
      wide == IF im.xlen = 8 THEN {v \in words(8) : v >= 2 ^ (4 * Byte)} ELSE {}
  IN  {v \in words(4) \cup wide : is_valid_pc(table, v)}

\* A written x0 keeps what was written: only handle_unknown leaves it alone.
Written(im, table, regs, pc, d) ==
  LET a == regs[d.rs1]
      b == regs[d.rs2]
      raw == read_readonly(im, add_signed(a.value, d.imm), d.width)
  IN  CASE d.kind = "Lui" -> Some(sign_extend_i32(d.imm))
        [] d.kind = "Auipc" -> Some(add_signed(pc, d.imm))
        [] d.kind = "Addi" -> IF a.known THEN Some(add_signed(a.value, d.imm)) ELSE Nothing
        [] d.kind = "Add" -> IF a.known /\ b.known THEN Some((a.value + b.value) % U64) ELSE Nothing
        [] d.kind = "Move" -> a
        [] d.kind = "Load" -> IF a.known /\ raw # {}
                              THEN Some(extend_loaded_value(CHOOSE v \in raw : TRUE, d.width, d.is_unsigned))
                              ELSE Nothing
        [] d.kind \in {"Jal", "Jalr"} -> Some(pc + d.size)
        [] OTHER -> Nothing

\* The targets the instruction at pc adds, from the register file before it.
update_targets_for_decoded(im, table, regs, pc) ==
  LET d == from_instr(table[pc])
      new == Written(im, table, regs, pc, d)
      made == {v \in {new.value} : new.known /\ is_valid_pc(table, v)}
      direct == {t \in {add_signed(pc, d.imm)} : is_valid_pc(table, t)}
      through == {t \in {Even(add_signed(regs[d.rs1].value, d.imm))} :
                    regs[d.rs1].known /\ is_valid_pc(table, t)}
  IN  [function_entries |-> CASE d.kind \in {"Addi", "Add"} -> made
                              [] d.kind = "Jal" /\ is_call(d) -> direct
                              [] d.kind = "Jalr" -> through
                              [] OTHER -> {},
       internal_targets |-> CASE d.kind = "Load" -> made
                              [] d.kind = "Jal" /\ ~is_call(d) -> direct
                              [] d.kind = "Branch" -> direct \cup {pc + d.size}
                              [] OTHER -> {},
       return_sites |-> IF is_call(d) /\ (d.kind = "Jal" => direct # {}) THEN {pc + d.size} ELSE {}]

\* The register file before each slot.
LinearRegs(im, table) ==
  LET regs[k \in 0 .. (end_address(im) - base_address(im)) \div 2] ==
        IF k = 0 THEN [r \in Regs |-> IF r = 0 THEN Some(0) ELSE Nothing]
        ELSE LET pc == base_address(im) + 2 * (k - 1)
                 before == regs[k - 1]
                 d == from_instr(table[pc])
             IN  IF is_valid_pc(table, pc) /\ d.rd # NoReg
                 THEN [before EXCEPT ![d.rd] = Written(im, table, before, pc, d)] ELSE before
  IN  [pc \in DOMAIN table |-> regs[(pc - base_address(im)) \div 2]]

collect_potential_targets(im, table) ==
  LET regs == LinearRegs(im, table)
      found == {update_targets_for_decoded(im, table, regs[pc], pc) : pc \in DOMAIN table}
  IN  [function_entries |-> im.entry_points \cup UNION {f.function_entries : f \in found},
       internal_targets |-> scan_ro_segments_for_code_pointers(im, table)
                              \cup UNION {f.internal_targets : f \in found},
       return_sites |-> UNION {f.return_sites : f \in found}]

\* callee -> the return sites of its static callers.
build_call_return_map(table) ==
  LET d == [pc \in DOMAIN table |-> from_instr(table[pc])]
      calls == {pc \in DOMAIN table : d[pc].kind = "Jal" /\ d[pc].rd # 0}
      callee(pc) == add_signed(pc, d[pc].imm)
  IN  [f \in {callee(pc) : pc \in calls} \cap DOMAIN table |->
         {pc + d[pc].size : pc \in {pc \in calls : callee(pc) = f}}]

Scan(im) ==
  LET table == Table(im)
      found == collect_potential_targets(im, table)
  IN  [table |-> table, function_entries |-> found.function_entries,
       internal_targets |-> found.internal_targets, return_sites |-> found.return_sites,
       call_return_map |-> build_call_return_map(table)]

-----------------------------------------------------------------------------
(* Abstract values and the worklist. *)

\* RegisterValue: unknown, or one of at least one constants.
Unknown == {}

is_constant(v) == v # Unknown

\* Mutated form: what does not fit is dropped.
CappedDrops(values) ==
  {v \in values : Cardinality({w \in values : w < v}) < MAX_VALUES}

\* add_value and merge: a set that outgrows MAX_VALUES is given up.
Capped(values) == IF Cardinality(values) > MAX_VALUES THEN Unknown ELSE values

RegisterValue_merge(v, w) ==
  IF is_constant(v) /\ is_constant(w) THEN Capped(v \cup w) ELSE Unknown

RegisterState_new == [r \in Regs |-> IF r = 0 THEN {0} ELSE Unknown]

RegisterState_merge(s, t) == [r \in Regs |-> IF r = 0 THEN s[r] ELSE RegisterValue_merge(s[r], t[r])]

\* The state after the instruction.  A load is followed through the least of
\* its base addresses, and not when that is the stack pointer.
transfer(im, s, pc, d) ==
  LET a == s[d.rs1]
      b == s[d.rs2]
      raw == read_readonly(im, add_signed(Min(a), d.imm), d.width)
      out == CASE d.kind = "Lui" -> {sign_extend_i32(d.imm)}
               [] d.kind = "Auipc" -> {add_signed(pc, d.imm)}
               [] d.kind = "Addi" -> Capped({add_signed(v, d.imm) : v \in a})
               [] d.kind = "Add" -> Capped({(v + w) % U64 : v \in a, w \in b})
               [] d.kind = "Move" -> a
               [] d.kind = "Load" -> IF d.rs1 # 2 /\ is_constant(a)
                                     THEN {extend_loaded_value(v, d.width, d.is_unsigned) : v \in raw}
                                     ELSE Unknown
               [] d.kind \in {"Jal", "Jalr"} -> {pc + d.size}
               [] OTHER -> Unknown
  IN  IF d.rd \in {NoReg, 0} THEN s ELSE [s EXCEPT ![d.rd] = out]

\* The last function entry at or before pc, as a set of at most one.
binary_search_le(entries, pc) ==
  LET before == {f \in entries : f <= pc} IN IF before = {} THEN {} ELSE {Max(before)}

func_internal_targets(f) ==
  {t \in scan.internal_targets : f \in binary_search_le(scan.function_entries, t)}

\* The instructions from start_pc on up to a return, jump or computed jump.
scan_jump_table_targets(table, start_pc) ==
  LET d(pc) == from_instr(table[pc])
      jumps(pc) == d(pc).kind = "Jal" /\ d(pc).rd = 0
      stops(pc) == is_return(d(pc)) \/ jumps(pc) \/ is_indirect_jump(d(pc))
      nth[n \in 0 .. MAX_JUMP_TABLE_SCAN] ==
        IF n = 0 THEN start_pc
        ELSE LET pc == nth[n - 1]
             IN  IF is_valid_pc(table, pc) /\ ~stops(pc) THEN pc + d(pc).size ELSE U64
      seen == {nth[n] : n \in 0 .. MAX_JUMP_TABLE_SCAN - 1} \cap DOMAIN table
  IN  seen \cup ({add_signed(pc, d(pc).imm) : pc \in {pc \in seen : jumps(pc)}} \cap DOMAIN table)

return_targets(pc) ==
  LET known == binary_search_le(scan.function_entries, pc) \cap DOMAIN scan.call_return_map
  IN  IF known = {} THEN scan.return_sites ELSE UNION {scan.call_return_map[f] : f \in known}

\* What get_successors falls back on when the register is unknown; a call adds
\* its return site.
jump_targets(pc, d) ==
  scan_jump_table_targets(scan.table, pc + d.size)
    \cup UNION {func_internal_targets(f) : f \in binary_search_le(scan.function_entries, pc)}

get_successors(pc, d, s) ==
  LET direct == {add_signed(pc, d.imm)} \cap DOMAIN scan.table
      next == IF is_call(d) THEN {pc + d.size} ELSE {}
  IN  CASE d.kind = "Jal" -> direct \cup next
        [] d.kind = "Jalr" /\ is_constant(s[d.rs1]) ->
             ({Even(add_signed(v, d.imm)) : v \in s[d.rs1]} \cap DOMAIN scan.table) \cup next
        [] d.kind = "Jalr" /\ ~is_constant(s[d.rs1]) ->
             (CASE is_return(d) -> return_targets(pc)
                [] is_call(d) -> scan.function_entries \cup next
                [] OTHER -> IF jump_targets(pc, d) # {} THEN jump_targets(pc, d)
                            ELSE scan.function_entries)
        [] d.kind = "Branch" -> direct \cup {pc + d.size}
        [] OTHER -> {pc + d.size}

unresolved(pc, d, s) == is_indirect_jump(d) /\ ~is_constant(s[d.rs1]) /\ jump_targets(pc, d) = {}

max_iterations == (end_address(image) - base_address(image)) * MAX_ITERATIONS_MULTIPLIER

Analyzed == worklist = {} \/ idx > max_iterations

\* Mutated form: those whose state is not the incoming one.
RequeuedUnequal(succs, out, after) ==
  {t \in succs : t \notin DOMAIN states \/ after[t] # out}

\* The successors to look at again: the new ones and those whose state changed.
Requeued(succs, out, after) ==
  {t \in succs : t \notin DOMAIN states \/ after[t] # states[t]}

\* One iteration of worklist.
Visit(pc) ==
  /\ pc \in worklist /\ ~Analyzed
  /\ idx' = idx + 1
  /\ IF ~is_valid_pc(scan.table, pc)
     THEN worklist' = worklist \ {pc} /\ UNCHANGED <<states, successors, unresolved_dynamic_jumps>>
     ELSE LET d == from_instr(scan.table[pc])
              s == states[pc]
              succs == get_successors(pc, d, s)
              out == transfer(image, s, pc, d)
              after == [t \in DOMAIN states \cup succs |->
                          IF t \notin succs THEN states[t]
                          ELSE IF t \in DOMAIN states THEN RegisterState_merge(states[t], out)
                          ELSE out]
          IN  /\ states' = after
              /\ worklist' = (worklist \ {pc}) \cup Requeued(succs, out, after)
              /\ successors' = [c \in DOMAIN successors \cup {pc} |->
                                  (IF c \in DOMAIN successors THEN successors[c] ELSE {})
                                    \cup (IF c = pc THEN succs ELSE {})]
              /\ unresolved_dynamic_jumps' =
                   unresolved_dynamic_jumps \cup (IF unresolved(pc, d, s) THEN {pc} ELSE {})
  /\ UNCHANGED <<image, scan, guest>>

\* Mutated form: without what the register values say.
compute_leadersStatic ==
  scan.function_entries \cup scan.internal_targets \cup scan.return_sites

compute_leaders ==
  LET flow == {pc \in DOMAIN successors : is_control_flow(from_instr(scan.table[pc]))}
  IN  scan.function_entries \cup scan.internal_targets \cup scan.return_sites
        \cup UNION {successors[pc] : pc \in flow}
        \cup ({pc + scan.table[pc].size : pc \in flow} \cap DOMAIN scan.table)

Init ==
  /\ image \in Images
  /\ scan = Scan(image)
  /\ states = [pc \in scan.function_entries \cup scan.internal_targets |-> RegisterState_new]
  /\ worklist = scan.function_entries \cup scan.internal_targets
  /\ idx = 0 /\ successors = <<>> /\ unresolved_dynamic_jumps = {}
  /\ guest = NotStarted

-----------------------------------------------------------------------------
(* The guest program. *)

Start ==
  /\ Analyzed /\ guest = NotStarted
  /\ \E pc \in image.entry_points : \E r \in [Regs \ {0} -> Wild] :
       guest' = [pc |-> pc, regs |-> [x \in Regs |-> IF x = 0 THEN 0 ELSE r[x]], steps |-> 0]
  /\ UNCHANGED <<image, scan, analysis>>

Width == 2 ^ (image.xlen * Byte)

\* The values the instruction may leave in its destination.
Results(pc, d, r) ==
  LET raw == read_readonly(image, (r[d.rs1] + d.imm) % Width, d.width)
  IN  CASE d.kind = "Lui" -> {d.imm % Width}
        [] d.kind = "Auipc" -> {(pc + d.imm) % Width}
        [] d.kind = "Addi" -> {(r[d.rs1] + d.imm) % Width}
        [] d.kind = "Add" -> {(r[d.rs1] + r[d.rs2]) % Width}
        [] d.kind = "Move" -> {r[d.rs1]}
        [] d.kind = "Load" -> IF raw = {} THEN Wild
                              ELSE {extend_loaded_value(v, d.width, d.is_unsigned) % Width : v \in raw}
        [] d.kind \in {"Jal", "Jalr"} -> {pc + d.size}
        [] OTHER -> Wild

\* Where the guest goes next.
Targets(pc, d, r) ==
  LET direct == (pc + d.imm) % Width
      through == Even((r[d.rs1] + d.imm) % Width)
  IN  CASE d.kind = "Jal" -> {direct}
        [] d.kind = "Jalr" -> {t \in {through} : is_constant(states[pc][d.rs1]) \/ t \in successors[pc]}
        [] d.kind = "Branch" -> {direct, pc + d.size}
        [] OTHER -> {pc + d.size}

Running == guest # NotStarted /\ is_valid_pc(scan.table, guest.pc)

Step ==
  /\ Running /\ guest.steps < MaxSteps
  /\ LET d == from_instr(scan.table[guest.pc])
     IN  \E t \in Targets(guest.pc, d, guest.regs), v \in Results(guest.pc, d, guest.regs) :
           guest' = [pc |-> t, steps |-> guest.steps + 1,
                     regs |-> IF d.rd \in {NoReg, 0} THEN guest.regs ELSE [guest.regs EXCEPT ![d.rd] = v]]
  /\ UNCHANGED <<image, scan, analysis>>

Next == (\E pc \in worklist : Visit(pc)) \/ Start \/ Step

Spec == Init /\ [][Next]_vars

-----------------------------------------------------------------------------
(* Properties. *)

\* What the analysis takes for granted of an instruction: a load has one base
\* address; a computed jump of an RV32 guest does not wrap around to code; and a
\* jump that was resolved when first visited, and given up later, reaches none
\* of its first targets unless the heuristics name them too.
Granted(pc) ==
  LET d == from_instr(scan.table[pc])
      a == states[pc][d.rs1]
  IN  /\ d.kind = "Load" => \A v, w \in a : v = w
      /\ d.kind = "Jalr" => \A v \in a :
           is_valid_pc(scan.table, Even((v + d.imm) % Width)) => add_signed(v, d.imm) < Width
      /\ d.kind = "Jalr" /\ ~is_constant(a) => successors[pc] \subseteq get_successors(pc, d, states[pc])

\* The worklist ran empty, and nothing taken for granted fails.
Followed == worklist = {} /\ \A pc \in DOMAIN states \cap DOMAIN scan.table : Granted(pc)

\* A register of which worklist says that it holds one of some constants at an
\* address holds one of them whenever the guest gets there, and the guest gets
\* nowhere that worklist has not visited (data.rs merge and transfer).
ValuesCovered ==
  Running /\ Followed =>
    /\ guest.pc \in DOMAIN states
    /\ \A r \in Regs : is_constant(states[guest.pc][r]) =>
         guest.regs[r] \in {v % Width : v \in states[guest.pc][r]}

\* A jump or branch of the guest lands on a block leader, or where no
\* instruction is (compute_leaders).
JumpsLandOnLeaders ==
  [][(Followed /\ Step /\ is_control_flow(from_instr(scan.table[guest.pc]))
        /\ is_valid_pc(scan.table, guest'.pc))
       => guest'.pc \in compute_leaders]_vars

\* The iteration limit of worklist is never what ends it.
ReachesFixpoint == idx <= max_iterations
=============================================================================
