-------------------------- MODULE MCDebugSession --------------------------
(***************************************************************************)
(* Instances of DebugSession: programs with a loop, a call, stores and     *)
(* ecalls that may exit, emitted one instruction at a time or as blocks.   *)
(***************************************************************************)
EXTENDS DebugSession, TLC

NoMap == [a \in {} |-> NoPc]

MkImage(p, c, mode) ==
  [prog |-> p, code |-> c, absorbed_to_merged |-> NoMap, taken_inlines |-> NoMap,
   instret_mode |-> mode]

Stepped(p) == MkImage(p, [c \in Pcs |-> <<c>>], "per_instruction")

SteppedImages ==
  {Stepped(<<Plain, Branch(1), Exit, Exit>>),
   Stepped(<<Call(3), Exit, Store, Ret>>),
   Stepped(<<Plain, Ecall, Jump(1), Exit>>),
   Stepped(<<Branch(0), Plain, Jump(1), Exit>>)}

\* Blocks, suspended at their ends or not at all.
BlockImages ==
  {MkImage(<<Plain, Branch(1), Plain, Exit>>, (1 :> <<1, 2>>) @@ (3 :> <<3, 4>>), m) :
     m \in {"suspend", "count"}}

\* A branch with its taken path inlined, as superblock formation leaves it.
InlinedImages ==
  {[Stepped(<<Plain, Branch(4), Exit, Store>>) EXCEPT !.taken_inlines = 2 :> 4]}

AllImages == SteppedImages \cup BlockImages \cup InlinedImages
=============================================================================
