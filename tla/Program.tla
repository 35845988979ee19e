------------------------------ MODULE Program ------------------------------
(***************************************************************************)
(* Guest programs as the recompiler sees them after decoding.              *)
(*                                                                         *)
(* The instruction table (crates/rvr-cfg/src/instruction_table.rs) is an   *)
(* array of decoded instructions indexed by address.  Sizes play no part   *)
(* in control flow beyond "the next address", so here instructions have    *)
(* size 1 and live at 1..N.  Every other address has no valid instruction; *)
(* 0 and N + 1 are the two such addresses a program can name.              *)
(*                                                                         *)
(* An instruction keeps what its IR terminator and its exit statements     *)
(* tell apart:                                                             *)
(*   plain   Terminator::Fall, no exit statement                           *)
(*   ecall   Terminator::Fall, may set has_exited (Linux exit syscalls)    *)
(*   store   Terminator::Fall, may set has_exited (HTIF tohost write)      *)
(*   jump    Terminator::Jump, rd = x0                                     *)
(*   call    Terminator::Jump, rd = ra                                     *)
(*   branch  Terminator::Branch                                            *)
(*   ret     Terminator::JumpDyn through ra                                *)
(*   exit    Terminator::Exit (the bare-metal ecall)                       *)
(***************************************************************************)
EXTENDS Naturals, Sequences, FiniteSets

CONSTANT N

ASSUME NAssumption == N \in Nat \ {0}

Pcs == 1 .. N

\* Every address an instruction of the program can name.
Addresses == 0 .. N + 1

NoPc == 0

FallOps == {"plain", "ecall", "store"}

JumpOps == {"jump", "call"}

\* Instructions whose statements may set has_exited.
ExitingOps == {"ecall", "store"}

Ops == FallOps \cup JumpOps \cup {"branch", "ret", "exit"}

Instr == [op : Ops, target : Addresses]

\* Terminator::is_control_flow: everything but Fall.
is_control_flow(i) == i.op \notin FallOps

Plain == [op |-> "plain", target |-> NoPc]
Ecall == [op |-> "ecall", target |-> NoPc]
Store == [op |-> "store", target |-> NoPc]
Ret == [op |-> "ret", target |-> NoPc]
Exit == [op |-> "exit", target |-> NoPc]
Jump(t) == [op |-> "jump", target |-> t]
Call(t) == [op |-> "call", target |-> t]
Branch(t) == [op |-> "branch", target |-> t]
=============================================================================
