---------------------------- MODULE ControlFlow ----------------------------
(***************************************************************************)
(* The control-flow analysis (crates/rvr-cfg/src/analysis/mod.rs): the     *)
(* successor and predecessor maps and the block leaders of a program.      *)
(*                                                                         *)
(* A JALR is a return here: its register is never a known constant where   *)
(* it executes, because the return address was reloaded from the stack     *)
(* frame.  Constant propagation through registers is not part of this      *)
(* module; a program's other indirect jumps are not in its language.       *)
(***************************************************************************)
EXTENDS Program

CONSTANT EntryPoints   \* InstructionTable.entry_points

ASSUME EntryPointsAssumption == EntryPoints # {} /\ EntryPoints \subseteq Pcs

\* The targets the instructions with operation op name, valid ones only.
ValidTargets(p, op) ==
  {p[c].target : c \in {c \in Pcs : p[c].op = op}} \cap Pcs

StaticCalls(p) == {c \in Pcs : p[c].op = "call" /\ p[c].target \in Pcs}

function_entries(p) == EntryPoints \cup ValidTargets(p, "call")

\* The address after a branch is recorded even when nothing is there.
internal_targets(p) ==
  ValidTargets(p, "jump") \cup ValidTargets(p, "branch")
    \cup {c + 1 : c \in {c \in Pcs : p[c].op = "branch"}}

return_sites(p) == {c + 1 : c \in StaticCalls(p)}

\* call_return_map[callee]: where its static callers want it to return.
call_return_map(p, callee) ==
  {c + 1 : c \in {c \in StaticCalls(p) : p[c].target = callee}}

\* binary_search_le(sorted_function_entries, pc): the nearest entry at or
\* before pc, as a set of at most one element.
enclosing_function(p, pc) ==
  {f \in function_entries(p) :
     f <= pc /\ \A g \in function_entries(p) : g <= pc => g <= f}

\* A return goes back to the static callers of the function it stands in,
\* to every return site when that function has none.
return_targets(p, pc) ==
  LET known == UNION {call_return_map(p, f) : f \in enclosing_function(p, pc)}
  IN  IF known # {} THEN known ELSE return_sites(p)

get_successors(p, pc) ==
  LET i == p[pc]
      target == {i.target} \cap Pcs
  IN  CASE i.op = "jump" -> target
        [] i.op = "call" -> target \cup {pc + 1}
        [] i.op = "branch" -> target \cup {pc + 1}
        [] i.op = "ret" -> return_targets(p, pc)
        [] OTHER -> {pc + 1}

\* The addresses the worklist visits: the least set with every function entry
\* and internal target that is closed under get_successors.
visited(p) ==
  LET seeds == (function_entries(p) \cup internal_targets(p)) \cap Pcs
      reach[n \in 0 .. N] ==
        IF n = 0 THEN seeds
        ELSE reach[n - 1]
               \cup (UNION {get_successors(p, c) : c \in reach[n - 1]} \cap Pcs)
  IN  reach[N]

\* DecodedInstruction::is_control_flow; an ecall is not one, whatever its IR
\* terminator.
is_jump_or_branch(i) == i.op \in JumpOps \cup {"branch", "ret"}

compute_leaders(p) ==
  LET flow == {c \in visited(p) : is_jump_or_branch(p[c])}
  IN  function_entries(p) \cup internal_targets(p) \cup return_sites(p)
        \cup UNION {get_successors(p, c) : c \in flow}
        \cup ({c + 1 : c \in flow} \cap Pcs)

build_predecessors(p) ==
  LET seen == visited(p)
  IN  [a \in Addresses |-> {c \in seen : a \in get_successors(p, c)}]
=============================================================================
