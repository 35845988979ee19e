-------------------------- MODULE MCEmittedCode ---------------------------
(***************************************************************************)
(* Instances of EmittedCode: a few images with every kind of function the  *)
(* emitter produces, and, for the per-instruction mode, all programs of    *)
(* three instructions over a small alphabet.                               *)
(***************************************************************************)
EXTENDS EmittedCode, TLC

NoMap == [a \in {} |-> NoPc]

MkImage(p, c, absorbed, inlines) ==
  [prog |-> p, code |-> c, absorbed_to_merged |-> absorbed,
   taken_inlines |-> inlines]

\* Images with their InstretMode.
In(images, modes) ==
  {[prog |-> i.prog, code |-> i.code, absorbed_to_merged |-> i.absorbed_to_merged,
    taken_inlines |-> i.taken_inlines, instret_mode |-> m] : i \in images, m \in modes}

\* A loop whose exit branch is a side exit of a superblock.
SideExitLoop ==
  MkImage(<<Store, Branch(5), Plain, Jump(1), Exit>>,
          (1 :> <<1, 2, 3, 4>>) @@ (5 :> <<5>>), 3 :> 1, NoMap)

\* A function merged into its only caller, and a return through dispatch.
MergedCall ==
  MkImage(<<Call(4), Branch(1), Exit, Plain, Ret>>,
          (1 :> <<1, 4, 5>>) @@ (2 :> <<2>>) @@ (3 :> <<3>>), 4 :> 1, NoMap)

\* A function called from two places, calling on from inside a block.
TwoCallers ==
  MkImage(<<Call(4), Call(4), Jump(1), Branch(5), Ret>>,
          (1 :> <<1>>) @@ (2 :> <<2>>) @@ (3 :> <<3>>) @@ (4 :> <<4>>) @@ (5 :> <<5>>),
          NoMap, NoMap)

\* A branch to nowhere, a side exit to nowhere and a jump to nowhere.
BadTargets ==
  MkImage(<<Branch(0), Plain, Branch(6), Plain, Jump(0)>>,
          (1 :> <<1, 2, 3>>) @@ (4 :> <<4, 5>>), 2 :> 1, NoMap)

\* A branch with its taken path inlined.
TakenInline ==
  MkImage(<<Plain, Branch(4), Plain, Plain, Jump(1)>>,
          (1 :> <<1, 2>>) @@ (3 :> <<3>>) @@ (4 :> <<4, 5>>), NoMap, 2 :> 4)

\* An ecall that may exit from inside a block.
ExitingEcall ==
  MkImage(<<Plain, Ecall, Branch(1), Plain, Exit>>,
          (1 :> <<1, 2, 3>>) @@ (4 :> <<4, 5>>), NoMap, NoMap)

\* Single-instruction images of every program over a small alphabet.
SingleImages ==
  {MkImage(p @@ (4 :> Exit) @@ (5 :> Exit), [c \in Pcs |-> <<c>>], NoMap, NoMap) :
     p \in [1 .. 3 -> {Plain, Store, Ret, Exit, Jump(1), Call(3), Branch(1), Branch(3)}]}

AllImages ==
  In({SideExitLoop, MergedCall, TwoCallers, BadTargets, TakenInline, ExitingEcall},
     {"off", "count", "suspend"})
    \cup In(SingleImages, {"per_instruction"})
=============================================================================
