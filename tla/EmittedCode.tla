---------------------------- MODULE EmittedCode ----------------------------
(***************************************************************************)
(* Execution of the C code the emitter writes.                             *)
(*                                                                         *)
(* An image is what emit_c hands to the C project: one function B_pc per   *)
(* block (code[b] is the sequence of guest addresses rendered in B_b), the *)
(* absorbed_to_merged map, the taken_inlines map and the InstretMode it    *)
(* was compiled for.  Functions tail-call each other; the host enters      *)
(* through rv_execute_from and the dispatch table, and gets control back   *)
(* when the guest exits or is suspended.                                   *)
(*                                                                         *)
(* where     "host", or the point of the generated code being executed:    *)
(*           "entry" before the check at the top of B_blk, "body" at       *)
(*           instruction idx of B_blk, "inline" at instruction idx of the  *)
(*           taken path inlined into B_blk                                 *)
(* acc       the C parameter instret threaded through the tail calls       *)
(* pc, instret, has_exited, target_instret  the fields of RvState          *)
(* cond      the value of the condition at the guest's instruction         *)
(* stack     the guest's return addresses (link register and frames)       *)
(* retired   ghost: guest instructions executed since the run began        *)
(* launch    ghost: RvState.instret when rv_execute_from was last called   *)
(***************************************************************************)
EXTENDS Program

CONSTANTS Images,      \* the images to execute: records of the image variables
          MaxDepth,    \* bound on the call depth
          MaxTarget,   \* bound on the targets the host sets
          MaxRetired   \* bound on the length of a run

ASSUME BoundsAssumption ==
  /\ MaxDepth \in Nat /\ MaxTarget \in Nat /\ MaxRetired \in Nat

VARIABLES prog, code, absorbed_to_merged, taken_inlines, instret_mode,
          where, blk, idx, acc,
          pc, instret, has_exited, target_instret,
          cond, stack, retired, launch

image == <<prog, code, absorbed_to_merged, taken_inlines, instret_mode>>
control == <<where, blk, idx, acc>>
rvstate == <<pc, instret, has_exited>>
vars == <<image, control, rvstate, target_instret, cond, stack, retired, launch>>

counts == instret_mode # "off"
suspends == instret_mode \in {"suspend", "per_instruction"}
per_instruction == instret_mode = "per_instruction"

-----------------------------------------------------------------------------
(* Address resolution. *)

is_valid_address(a) ==
  a \in DOMAIN code \/ a \in DOMAIN absorbed_to_merged

\* Static jumps and branches: the absorbed map is consulted first.
resolve_address(a) ==
  IF a \in DOMAIN absorbed_to_merged THEN absorbed_to_merged[a] ELSE a

\* The dispatch table: block starts first, then the absorbed map, rv_trap
\* (NoPc here) everywhere else.
dispatch_table(a) ==
  IF a \in DOMAIN code THEN a
  ELSE IF a \in DOMAIN absorbed_to_merged THEN absorbed_to_merged[a]
  ELSE NoPc

-----------------------------------------------------------------------------
(* The instruction being executed. *)

LastPc(b) == code[b][Len(code[b])]

\* write_partition renders the taken path inside B_b when b ends in a branch
\* with an entry in taken_inlines.
HasInline(b) == prog[LastPc(b)].op = "branch" /\ LastPc(b) \in DOMAIN taken_inlines

\* The inlined path is empty when its block is no longer emitted.
InlinePath(b) ==
  LET s == taken_inlines[LastPc(b)] IN IF s \in DOMAIN code THEN code[s] ELSE <<>>

Here == IF where = "inline" THEN InlinePath(blk) ELSE code[blk]

current_pc == Here[idx]

instr == prog[current_pc]

\* Mutated form: one instruction too many.
is_last_late == idx = Len(Here) + 1

is_last == idx = Len(Here)

\* Mutated form: the instruction itself is not counted.
instr_idx_before == (IF where = "inline" THEN Len(code[blk]) - 1 ELSE 0) + idx - 1

\* The emitter's instruction counter after this instruction.  The branch that
\* opens an inlined path is rendered without advancing it.
instr_idx == (IF where = "inline" THEN Len(code[blk]) - 1 ELSE 0) + idx

\* The instret argument once this instruction has been accounted for.
Counted ==
  IF ~counts THEN acc
  ELSE IF per_instruction THEN acc + 1
  ELSE acc + instr_idx

-----------------------------------------------------------------------------
(* Leaving a function. *)

\* A return to rv_execute_from: the arguments are saved to RvState.
SaveAndReturn(a, n) ==
  /\ where' = "host"
  /\ blk' = NoPc
  /\ idx' = 0
  /\ acc' = 0
  /\ pc' = a
  /\ instret' = n

Enter(b, n) ==
  /\ where' = "entry"
  /\ blk' = b
  /\ idx' = 0
  /\ acc' = n
  /\ UNCHANGED rvstate

\* render_instret_check and its variants: give control back at address a.
Suspend(a, n) ==
  /\ SaveAndReturn(a, n)
  /\ UNCHANGED has_exited

ExitAt(a, n) ==
  /\ SaveAndReturn(a, n)
  /\ has_exited' = TRUE

\* Mutated forms: the target itself does not suspend; the saved count is
\* compared instead of the argument.
MustSuspendLate(n) == suspends /\ target_instret < n

MustSuspendStale(n) == suspends /\ target_instret <= instret

MustSuspend(n) == suspends /\ target_instret <= n

\* Mutated form: the check saves the address of the jump, not its target.
JumpStaticAtSource(a, n) ==
  IF MustSuspend(n) THEN Suspend(current_pc, n)
  ELSE IF is_valid_address(a) THEN Enter(resolve_address(a), n)
  ELSE ExitAt(current_pc, n)

\* render_jump_static: an invalid target is reported at the jump itself.
JumpStatic(a, n) ==
  IF MustSuspend(n) THEN Suspend(a, n)
  ELSE IF is_valid_address(a) THEN Enter(resolve_address(a), n)
  ELSE ExitAt(current_pc, n)

\* render_branch, either side: an invalid target is reported at the target,
\* and before the suspension check.
BranchTo(a, n) ==
  IF ~is_valid_address(a) THEN ExitAt(a, n)
  ELSE IF MustSuspend(n) THEN Suspend(a, n)
  ELSE Enter(resolve_address(a), n)

\* render_jump_dynamic; rv_trap leaves RvState.pc as it was.
JumpDynamic(a, n) ==
  IF MustSuspend(n) THEN Suspend(a, n)
  ELSE IF dispatch_table(a) # NoPc THEN Enter(dispatch_table(a), n)
  ELSE ExitAt(pc, n)

\* render_side_exit: no suspension check, the target's entry has one.
SideExit(a, n) ==
  IF is_valid_address(a) THEN Enter(resolve_address(a), n) ELSE ExitAt(a, n)

-----------------------------------------------------------------------------
(* The host. *)

\* InstretSuspender::set_target.
SetTarget ==
  /\ where = "host" /\ ~has_exited
  /\ suspends
  /\ target_instret' \in 0 .. MaxTarget
  /\ UNCHANGED <<image, control, rvstate, cond, stack, retired, launch>>

\* rv_execute_from(state, state->pc).
rv_execute_from ==
  /\ where = "host" /\ ~has_exited
  /\ IF dispatch_table(pc) # NoPc
       THEN Enter(dispatch_table(pc), instret)
       ELSE ExitAt(pc, instret)
  /\ launch' = instret
  /\ UNCHANGED <<image, target_instret, cond, stack, retired>>

-----------------------------------------------------------------------------
(* The generated code. *)

\* The check at the top of every block function.
BlockEntry ==
  /\ where = "entry"
  /\ IF MustSuspend(acc)
       THEN Suspend(blk, acc)
       ELSE /\ where' = "body"
            /\ idx' = 1
            /\ UNCHANGED <<blk, acc, rvstate>>
  /\ UNCHANGED <<image, target_instret, cond, stack, retired, launch>>

\* What every executed instruction does to the variables that are not its own;
\* the next instruction's condition is whatever the guest's data make it.
Executes ==
  /\ where \in {"body", "inline"}
  /\ retired < MaxRetired
  /\ retired' = retired + 1
  /\ cond' \in BOOLEAN
  /\ UNCHANGED <<image, target_instret, launch>>

\* On to the next instruction of the same function.
NextInstr ==
  /\ idx' = idx + 1
  /\ UNCHANGED <<where, blk, acc, rvstate>>

\* A statement sets has_exited.  After an ecall render_exit_check returns
\* before the block's count is added; a tohost store adds its own count.
ExitStatement ==
  /\ Executes
  /\ instr.op \in ExitingOps
  /\ ExitAt(current_pc,
            IF counts /\ instr.op = "store" THEN acc + instr_idx ELSE acc)
  /\ UNCHANGED stack

\* An instruction that is not the last one rendered: only a branch leaves the
\* function, every other terminator runs on into the next instruction.
MidInstr ==
  /\ Executes
  /\ ~is_last
  /\ ~(instr.op = "branch" /\ cond)
  /\ NextInstr
  /\ \/ instr.op # "call" /\ UNCHANGED stack
     \/ /\ instr.op = "call"
        /\ Len(stack) < MaxDepth
        /\ stack' = Append(stack, current_pc + 1)

MidBranchTaken ==
  /\ Executes
  /\ ~is_last
  /\ instr.op = "branch" /\ cond
  /\ SideExit(instr.target, IF counts THEN acc + instr_idx ELSE acc)
  /\ UNCHANGED stack

LastFall ==
  /\ Executes
  /\ is_last
  /\ instr.op \in FallOps
  /\ JumpStatic(current_pc + 1, Counted)
  /\ UNCHANGED stack

LastJump ==
  /\ Executes
  /\ is_last
  /\ instr.op \in JumpOps
  /\ JumpStatic(instr.target, Counted)
  /\ \/ instr.op = "jump" /\ UNCHANGED stack
     \/ /\ instr.op = "call"
        /\ Len(stack) < MaxDepth
        /\ stack' = Append(stack, current_pc + 1)

\* Mutated form: the sides of the branch are exchanged.
LastBranchInverted ==
  /\ Executes
  /\ is_last
  /\ instr.op = "branch"
  /\ where = "body" => ~HasInline(blk)
  /\ BranchTo(IF cond THEN current_pc + 1 ELSE instr.target, Counted)
  /\ UNCHANGED stack

LastBranch ==
  /\ Executes
  /\ is_last
  /\ instr.op = "branch"
  /\ where = "body" => ~HasInline(blk)
  /\ BranchTo(IF cond THEN instr.target ELSE current_pc + 1, Counted)
  /\ UNCHANGED stack

\* A branch that opens an inlined taken path: neither side adds the count.
\* (An invalid fall-through is reported at whatever instruction the emitter
\* rendered last; no property reads that address.)
OpenInline ==
  /\ Executes
  /\ where = "body"
  /\ is_last
  /\ HasInline(blk)
  /\ IF cond /\ InlinePath(blk) # <<>>
       THEN /\ where' = "inline"
            /\ idx' = 1
            /\ UNCHANGED <<blk, acc, rvstate>>
       ELSE JumpStatic(current_pc + 1, acc)
  /\ UNCHANGED stack

LastRet ==
  /\ Executes
  /\ is_last
  /\ instr.op = "ret"
  /\ stack # <<>>
  /\ JumpDynamic(stack[Len(stack)], Counted)
  /\ stack' = SubSeq(stack, 1, Len(stack) - 1)

LastExit ==
  /\ Executes
  /\ is_last
  /\ instr.op = "exit"
  /\ ExitAt(current_pc, Counted)
  /\ UNCHANGED stack

-----------------------------------------------------------------------------
(* What an image has to satisfy for its code to mean what the program means. *)

ImageType ==
  /\ prog \in [Pcs -> Instr]
  /\ DOMAIN code \subseteq Pcs
  /\ DOMAIN absorbed_to_merged \subseteq Pcs
  /\ absorbed_to_merged \in [DOMAIN absorbed_to_merged -> Pcs]
  /\ DOMAIN taken_inlines \subseteq Pcs
  /\ taken_inlines \in [DOMAIN taken_inlines -> Pcs]
  /\ instret_mode \in {"off", "count", "suspend", "per_instruction"}

\* Control may come to address a from another function: when there is an
\* instruction at a, it begins one of the functions F, and no map leads elsewhere.
Reachable(F, a) ==
  a \in Pcs => a \in F /\ a \notin DOMAIN absorbed_to_merged

\* Instruction k of B_b runs on into instruction k + 1 of B_b.
RunsOn(F, b, k) ==
  LET cur == code[b][k]
      nxt == code[b][k + 1]
      ins == prog[cur]
  IN  \/ ins.op \in FallOps /\ nxt = cur + 1
      \/ ins.op \in JumpOps /\ nxt = ins.target
      \/ ins.op = "branch" /\ nxt = cur + 1 /\ Reachable(F, ins.target)

\* Where the last instruction of B_b may go.
LeavesFor(F, b) ==
  LET ins == prog[LastPc(b)]
  IN  /\ ins.op \in FallOps \cup {"branch"} => Reachable(F, LastPc(b) + 1)
      /\ ins.op \in JumpOps \cup {"branch"} => Reachable(F, ins.target)

\* Every call's return address is a place to come back to.
ReturnsTo(F, b) ==
  \A k \in 1 .. Len(code[b]) :
    prog[code[b][k]].op = "call" => Reachable(F, code[b][k] + 1)

\* The path inlined into B_b is the function at the branch's target.
InlinesTarget(b) ==
  HasInline(b) => taken_inlines[LastPc(b)] = prog[LastPc(b)].target

\* The functions F mean what the program means, and lead to each other only.
WellFormedOn(F) ==
  /\ ImageType
  /\ F \subseteq DOMAIN code
  /\ \A b \in F :
       /\ code[b] \in Seq(Pcs)
       /\ code[b] # <<>>
       /\ code[b][1] = b
       /\ \A k \in 1 .. Len(code[b]) - 1 : RunsOn(F, b, k)
       /\ LeavesFor(F, b)
       /\ ReturnsTo(F, b)
       /\ InlinesTarget(b)
       /\ per_instruction => Len(code[b]) = 1

WellFormed == WellFormedOn(DOMAIN code)

-----------------------------------------------------------------------------
\* The runner: load_segments and reset, pc at an entry point.
ExecInit ==
  /\ where = "host" /\ blk = NoPc /\ idx = 0 /\ acc = 0
  /\ instret = 0 /\ has_exited = FALSE /\ target_instret = 0
  /\ cond \in BOOLEAN /\ stack = <<>> /\ retired = 0 /\ launch = 0

\* The images that are executed here are the well-formed ones.
Init ==
  /\ \E i \in Images :
       /\ prog = i.prog
       /\ code = i.code
       /\ absorbed_to_merged = i.absorbed_to_merged
       /\ taken_inlines = i.taken_inlines
       /\ instret_mode = i.instret_mode
  /\ WellFormed
  /\ pc \in DOMAIN code
  /\ ExecInit

Host == SetTarget \/ rv_execute_from

Guest ==
  \/ BlockEntry
  \/ ExitStatement
  \/ MidInstr
  \/ MidBranchTaken
  \/ LastFall
  \/ LastJump
  \/ LastBranch
  \/ OpenInline
  \/ LastRet
  \/ LastExit

Next == Host \/ Guest

Spec == Init /\ [][Next]_vars

\* The host processor runs the code it was given until it returns.
FairSpec == Spec /\ WF_vars(Guest)

-----------------------------------------------------------------------------
(* Properties. *)

TypeOK ==
  /\ where \in {"host", "entry", "body", "inline"}
  /\ where = "host" => blk = NoPc /\ idx = 0
  /\ where # "host" => blk \in DOMAIN code
  /\ where \in {"body", "inline"} => idx \in 1 .. Len(Here)
  /\ acc \in Nat /\ instret \in Nat /\ target_instret \in Nat
  /\ retired \in Nat /\ launch \in Nat
  /\ pc \in Addresses
  /\ has_exited \in BOOLEAN
  /\ cond \in BOOLEAN
  /\ stack \in Seq(Addresses)

\* The guest address the generated code stands at.
GuestPc ==
  CASE where = "host" -> pc
    [] where = "entry" -> blk
    [] OTHER -> current_pc

Halted == has_exited \/ GuestPc \notin Pcs

Ref == INSTANCE Interpreter WITH
         pc <- IF Halted THEN NoPc ELSE GuestPc,
         halted <- Halted

\* The generated code executes the guest program: every step of every
\* function is a step of the interpreter or none, across tail calls, side
\* exits, inlined paths, suspension, and re-entry through the dispatch table.
ImplementsInterpreter == Ref!Spec

\* Whenever the host has control, RvState.instret is the number of
\* instructions the guest has executed (InstretMode other than Off).
InstretExact == where = "host" /\ counts => instret = retired

\* The images in which no path drops its count: no statement of an ecall exits
\* and no taken path is inlined.
Countable ==
  /\ \A c \in Pcs : prog[c].op # "ecall"
  /\ \A b \in DOMAIN code : ~HasInline(b)

\* The count is exact in every image that drops none: an ecall that exits and a
\* branch with an inlined path are the only places that lose instructions.
CountableExact == Countable => InstretExact

\* The instructions function B_b executes between two checks, at most.
PathLength(b) ==
  Len(code[b]) + (IF HasInline(b) THEN Len(InlinePath(b)) ELSE 0)

\* rv_execute_from comes back from a guest that has not exited only at the
\* target, and overshoots it by less than a block (not at all when every
\* instruction is a block of its own).
SuspendsOnTime ==
  [][where # "host" /\ where' = "host" /\ ~has_exited' =>
       /\ suspends
       /\ target_instret <= instret'
       /\ launch < target_instret =>
            \E b \in DOMAIN code : instret' < target_instret + PathLength(b)]_vars

\* A suspended guest can be resumed where it stopped: dispatch re-enters it at
\* RvState.pc, not at the head of a block that pc was absorbed into.
ResumesInPlace ==
  where = "host" /\ ~has_exited /\ pc \in Pcs => dispatch_table(pc) = pc

\* Programs that never wait for a caller, and no bound on the depth cuts off.
CallFree == \A c \in Pcs : prog[c].op \notin {"call", "ret"}

\* In the suspending modes every call of rv_execute_from returns, whatever loop
\* the guest is in.
AlwaysReturns == where # "host" /\ suspends /\ CallFree ~> where = "host"
=============================================================================
