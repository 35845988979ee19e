--------------------------- MODULE MCRecompiler ----------------------------
(***************************************************************************)
(* Instances of Recompiler: all programs of a few instructions over a      *)
(* small alphabet, entered at address 1.                                   *)
(*                                                                         *)
(* The programs of the last section have the shapes the block transforms   *)
(* are known to get wrong (see Regular in Recompiler).                     *)
(***************************************************************************)
EXTENDS Recompiler

Setting(analysis, superblock, mode) ==
  [analysis_mode |-> analysis, enable_superblock |-> superblock, instret_mode |-> mode]

With(programs, settings) == [prog : programs, config : settings]

To(f(_), targets) == {f(t) : t \in targets}

\* Programs that run on from the entry point and not past the end.
Delimited(last, alphabet) ==
  {p \in [Pcs -> alphabet \cup {Exit}] :
     /\ p[1].op \in {"plain", "branch", "call"}
     /\ p[last].op \in {"exit", "jump", "ret"}
     /\ \A c \in last + 1 .. N : p[c] = Exit}

\* Jumps, branches and loops, without calls.
LoopPrograms ==
  Delimited(5, {Plain} \cup To(Jump, 2 .. 5) \cup To(Branch, {1, 3, 4, 5}))

\* Calls and returns as well.
CallPrograms ==
  Delimited(4, {Plain, Ret} \cup To(Jump, 1 .. 4) \cup To(Call, 1 .. 4)
                 \cup To(Branch, 1 .. 4))

CompileJobs ==
  With(LoopPrograms \cup CallPrograms,
       {Setting("full_cfg", TRUE, "suspend"), Setting("full_cfg", FALSE, "count")})
    \cup With(CallPrograms, {Setting("basic", TRUE, "suspend")})

\* A function with two callers, merged, duplicated and superblocked code, and
\* statements that may end the run.
ExecutedPrograms ==
  {<<Branch(4), Plain, Jump(1), Store, Exit>>,
   <<Plain, Branch(5), Plain, Jump(1), Ecall>>,
   <<Call(4), Branch(1), Exit, Plain, Ret>>,
   <<Branch(4), Store, Jump(5), Jump(5), Plain>>,
   <<Plain, Branch(4), Ecall, Plain, Jump(1)>>,
   <<Call(5), Call(5), Jump(4), Exit, Ret>>,
   <<Jump(3), Jump(3), Jump(5), Jump(2), Plain>>}

\* Every program of three instructions over a small alphabet, the last one
\* running off the end included.
SteppedPrograms ==
  {p \in [Pcs -> {Plain, Store, Ret, Jump(2), Call(3), Branch(1), Branch(2), Branch(0), Exit}] :
     \A c \in 4 .. N : p[c] = Exit}

ExecuteJobs ==
  With(ExecutedPrograms, {Setting("full_cfg", TRUE, "suspend")})
    \cup With(SteppedPrograms, {Setting("basic", TRUE, "per_instruction")})

-----------------------------------------------------------------------------
(* The shapes the transforms get wrong. *)

\* The return site 3 is also the target of the callee's jump.
ReturnSiteJobs ==
  With({<<Plain, Call(4), Plain, Jump(3)>>}, {Setting("full_cfg", TRUE, "count")})
=============================================================================
