---------------------------- MODULE Interpreter ----------------------------
(***************************************************************************)
(* The guest machine: what a program means, one instruction at a time.     *)
(* This is the abstract specification that the emitted C code implements.  *)
(*                                                                         *)
(* Data is abstracted to what control depends on.  cond is the value of    *)
(* the condition at the current instruction, which only a branch reads; an *)
(* ecall or a store may end the run.  The link register and the stack      *)
(* frames that save it are one sequence of return addresses: a call pushes *)
(* the address after it, a return pops it.  A return with no frame left is *)
(* outside the model (the host never gave the program a return address).   *)
(***************************************************************************)
EXTENDS Program

CONSTANT MaxDepth   \* bound on the call depth

VARIABLES prog, pc, cond, stack, halted

vars == <<prog, pc, cond, stack, halted>>

\* Control reaches an address: the run goes on there when it holds an
\* instruction and ends when it does not.
Goto(a) ==
  /\ halted' = (a \notin Pcs)
  /\ pc' = IF a \in Pcs THEN a ELSE NoPc

Halt ==
  /\ halted' = TRUE
  /\ pc' = NoPc

FallThrough ==
  /\ prog[pc].op \in FallOps
  /\ Goto(pc + 1)
  /\ UNCHANGED stack

ExitRequest ==
  /\ prog[pc].op \in ExitingOps \cup {"exit"}
  /\ Halt
  /\ UNCHANGED stack

TakeJump ==
  /\ prog[pc].op = "jump"
  /\ Goto(prog[pc].target)
  /\ UNCHANGED stack

TakeCall ==
  /\ prog[pc].op = "call"
  /\ Len(stack) < MaxDepth
  /\ Goto(prog[pc].target)
  /\ stack' = Append(stack, pc + 1)

TakeBranch ==
  /\ prog[pc].op = "branch"
  /\ Goto(IF cond THEN prog[pc].target ELSE pc + 1)
  /\ UNCHANGED stack

Return ==
  /\ prog[pc].op = "ret"
  /\ stack # <<>>
  /\ Goto(stack[Len(stack)])
  /\ stack' = SubSeq(stack, 1, Len(stack) - 1)

Step ==
  /\ ~halted
  /\ \/ FallThrough
     \/ ExitRequest
     \/ TakeJump
     \/ TakeCall
     \/ TakeBranch
     \/ Return
  /\ cond' \in BOOLEAN
  /\ UNCHANGED prog

\* A run starts at any instruction, with no frame on the stack.
Init ==
  /\ prog \in [Pcs -> Instr]
  /\ pc \in Pcs
  /\ cond \in BOOLEAN
  /\ stack = <<>>
  /\ halted = FALSE

Spec == Init /\ [][Step]_vars
=============================================================================
