-------------------------- MODULE RecompilerProofs --------------------------
(***************************************************************************)
(* From the instruction table to execution.  Under AnalysisMode::Basic     *)
(* every program is recompiled into a well-formed image and behaves as the *)
(* interpreter says; under the other modes it does whenever the image it   *)
(* was recompiled into is well formed, on the functions it executes.        *)
(***************************************************************************)
EXTENDS Recompiler, TLAPS

-----------------------------------------------------------------------------
(* The pipeline and the image. *)

\* While the host waits, the interpreter stands at the entry point.
LEMMA WaitsAtEntry ==
  ASSUME Exec!ExecInit
  PROVE  Exec!GuestPc = pc /\ where = "host" /\ has_exited = FALSE
BY DEF Exec!ExecInit, Exec!GuestPc

\* Recompilation is no step of the interpreter.
LEMMA CompileStutters ==
  ASSUME Exec!ExecInit, UNCHANGED <<prog, execution>>
  PROVE  UNCHANGED Exec!Ref!vars
<1>1. /\ where = "host" /\ where' = "host"
      /\ UNCHANGED <<pc, has_exited, cond, stack>>
  BY DEF Exec!ExecInit, execution
<1>2. Exec!GuestPc = pc /\ Exec!GuestPc' = pc
  BY <1>1 DEF Exec!GuestPc
<1>3. Exec!Halted' = Exec!Halted
  BY <1>1, <1>2, Zenon DEF Exec!Halted
<1> QED
  BY <1>1, <1>2, <1>3, Zenon DEF Exec!Ref!vars

\* Executing an image does not change it.
LEMMA ImageStays ==
  ASSUME Exec!Next
  PROVE  UNCHANGED Exec!image
BY DEF Exec!Next, Exec!Host, Exec!Guest, Exec!SetTarget, Exec!rv_execute_from, Exec!BlockEntry,
   Exec!ExitStatement, Exec!MidInstr, Exec!MidBranchTaken, Exec!LastFall, Exec!LastJump,
   Exec!LastBranch, Exec!OpenInline, Exec!LastRet, Exec!LastExit, Exec!Executes

-----------------------------------------------------------------------------
(* Linear blocks. *)

\* One sequence, concatenated.
LEMMA FlattenOne ==
  ASSUME NEW s
  PROVE  FlattenSeq(<<s>>) = s
<1> DEFINE f(g) == [i \in 1 .. Len(<<s>>) |-> IF i = 1 THEN <<s>>[i] ELSE g[i - 1] \o <<s>>[i]]
           g1 == [i \in 1 .. 1 |-> s]
           h == CHOOSE g : g = f(g)
<1>1. g1 = f(g1)
  OBVIOUS
<1>2. h = f(h)
  <2> HIDE DEF f, g1
  <2> QED
    BY <1>1, Zenon
<1>3. Len(<<s>>) = 1 /\ Len(<<s>>) # 0
  OBVIOUS
<1>4. FlattenSeq(<<s>>) = h[1]
  BY <1>3, Zenon DEF FlattenSeq
<1>5. h[1] = s
  <2> HIDE DEF h
  <2> QED
    BY <1>2
<1> QED
  BY <1>4, <1>5, Zenon

\* A range of one instruction is lifted to that instruction.
LEMMA LiftOne ==
  ASSUME NEW p, NEW b \in Nat, NEW is_last_range
  PROVE  lift_range(p, <<b, b + 1>>, is_last_range) = <<b>>
<1> DEFINE terminators == {c \in b .. b : is_control_flow(p[c])}
           end == IF is_last_range /\ terminators # {} THEN Min(terminators) + 1 ELSE b + 1
<1>1. b + 1 - 1 = b
  OBVIOUS
<1>2. end = b + 1
  <2>1. CASE terminators = {}
    BY <2>1
  <2>2. CASE terminators # {}
    <3>1. terminators = {b}
      BY <2>2
    <3>2. Min({b}) = b
      BY DEF Min
    <3> QED
      BY <3>1, <3>2
  <2> QED
    BY <2>1, <2>2
<1>3. lift_range(p, <<b, b + 1>>, is_last_range) = [j \in 1 .. end - b |-> b + j - 1]
  BY <1>1 DEF lift_range
<1> HIDE DEF end
<1>4. [j \in 1 .. end - b |-> b + j - 1] = <<b>>
  BY <1>2
<1> QED
  BY ZenonT(30), <1>3, <1>4


\* The table AnalysisMode::Basic builds is lifted to one function per
\* instruction.
LEMMA LiftLinear ==
  lift_to_ir(prog, TableOf(build_linear_blocks)) = lift_to_ir_as_single_blocks
<1> DEFINE T == TableOf(build_linear_blocks)
<1>1. DOMAIN T.blocks = Pcs /\ T.block_continuations = Empty /\ DOMAIN Empty = {}
  BY DEF TableOf, build_linear_blocks, Empty
<1>2. ASSUME NEW b \in Pcs PROVE lift_block(prog, T, b) = <<b>>
  <2>1. T.blocks[b].end = b + 1 /\ b \in Nat
    BY <1>2 DEF TableOf, build_linear_blocks, Pcs
  <2> DEFINE ranges == <<<<b, b + 1>>>>
             lifted == [k \in 1 .. Len(ranges) |-> lift_range(prog, ranges[k], k = Len(ranges))]
  <2>2. lift_block(prog, T, b) = FlattenSeq(lifted)
    <3>1. <<<<b, b + 1>>>> \o <<>> = <<<<b, b + 1>>>>
      OBVIOUS
    <3>2. b \notin DOMAIN T.block_continuations
      BY <1>1
    <3> HIDE DEF T
    <3> QED
      BY <2>1, <3>1, <3>2, Zenon DEF lift_block
  <2>3. lifted = <<<<b>>>>
    <3>1. Len(ranges) = 1 /\ ranges[1] = <<b, b + 1>>
      OBVIOUS
    <3>2. lift_range(prog, ranges[1], 1 = 1) = <<b>>
      BY SMTT(30), <2>1, <3>1, LiftOne
    <3> HIDE DEF ranges
    <3> QED
      BY SMTT(30), <3>1, <3>2
  <2> QED
    BY <2>2, <2>3, FlattenOne, Zenon
<1>3. lift_to_ir(prog, T) = lift_to_ir_as_single_blocks
  <2> HIDE DEF T
  <2> QED
    BY ZenonT(30), <1>1, <1>2 DEF lift_to_ir, lift_to_ir_as_single_blocks
<1> QED
  BY <1>3

\* An image of one function per instruction, without maps, is well formed.
LEMMA SingleBlocksWellFormed ==
  ASSUME prog \in [Pcs -> Instr], code = lift_to_ir_as_single_blocks,
         absorbed_to_merged = Empty, taken_inlines = Empty,
         config.instret_mode \in {"off", "count", "suspend", "per_instruction"}
  PROVE  Exec!WellFormed /\ EntryPoints \subseteq DOMAIN code
<1>1. /\ DOMAIN code = Pcs /\ \A c \in Pcs : code[c] = <<c>>
      /\ DOMAIN absorbed_to_merged = {} /\ DOMAIN taken_inlines = {}
  BY DEF lift_to_ir_as_single_blocks, Empty
<1>2. Exec!ImageType
  <2>2. /\ absorbed_to_merged \in [{} -> Pcs]
        /\ taken_inlines \in [{} -> Pcs]
    BY DEF Empty
  <2> QED
    BY <1>1, <2>2 DEF Exec!ImageType, Exec!Pcs, Pcs, Exec!Instr, Instr, Exec!Ops, Ops,
       Exec!FallOps, FallOps, Exec!JumpOps, JumpOps, Exec!Addresses, Addresses
<1>3. \A a : Exec!Reachable(DOMAIN code, a)
  BY <1>1 DEF Exec!Reachable, Exec!Pcs, Pcs
<1>4. ASSUME NEW b \in DOMAIN code
      PROVE  /\ code[b] \in Seq(Exec!Pcs) /\ code[b] # <<>> /\ code[b][1] = b
             /\ Len(code[b]) = 1 /\ Exec!LeavesFor(DOMAIN code, b)
             /\ Exec!ReturnsTo(DOMAIN code, b) /\ Exec!InlinesTarget(b)
  <2>1. code[b] = <<b>>
    BY ZenonT(30), <1>1, <1>4
  <2>2. /\ code[b] # <<>> /\ code[b][1] = b /\ Len(code[b]) = 1
        /\ code[b] \in Seq(Exec!Pcs)
    BY SMTT(30), <1>1, <1>4, <2>1 DEF Exec!Pcs, Pcs
  <2>3. Exec!LeavesFor(DOMAIN code, b) /\ Exec!ReturnsTo(DOMAIN code, b)
    BY <1>3, Zenon DEF Exec!LeavesFor, Exec!ReturnsTo
  <2>4. Exec!InlinesTarget(b)
    BY <1>1 DEF Exec!InlinesTarget, Exec!HasInline
  <2> QED
    BY ZenonT(30), <2>2, <2>3, <2>4
<1>5. \A b \in DOMAIN code : 1 .. Len(code[b]) - 1 = {}
  <2>1. 1 .. 1 - 1 = {}
    OBVIOUS
  <2> QED
    BY <1>4, <2>1, Zenon
<1> QED
  BY ZenonT(30), <1>1, <1>2, <1>4, <1>5, EntryPointsAssumption
     DEF Exec!WellFormed, Exec!WellFormedOn

\* What the pipeline has made of a program that is not analysed: no transform is
\* applied and no mapping is stale.
LinearInv ==
  /\ prog \in [Pcs -> Instr] /\ config \in EmitConfig
  /\ config.analysis_mode = "basic" =>
       /\ stale = Empty
       /\ phase \in {"decoded", "fixing", "emitted"}
       /\ phase = "fixing" => table = TableOf(build_linear_blocks)
       /\ phase = "emitted" => Exec!WellFormed /\ EntryPoints \subseteq DOMAIN code

\* Single blocks without maps are well formed in the next state, too.
LEMMA SingleBlocks ==
  /\ prog \in [Pcs -> Instr] /\ code = lift_to_ir_as_single_blocks
  /\ absorbed_to_merged = Empty /\ taken_inlines = Empty
  /\ config.instret_mode \in {"off", "count", "suspend", "per_instruction"}
  => Exec!WellFormed /\ EntryPoints \subseteq DOMAIN code
BY ZenonT(30), SingleBlocksWellFormed

\* Well-formedness is a matter of the image.
LEMMA WellFormedKept ==
  ASSUME UNCHANGED <<prog, config, code, absorbed_to_merged, taken_inlines>>
  PROVE  Exec!WellFormed' <=> Exec!WellFormed
<1>1. /\ prog' = prog /\ config' = config /\ code' = code
      /\ absorbed_to_merged' = absorbed_to_merged /\ taken_inlines' = taken_inlines
  OBVIOUS
<1> QED
  BY <1>1 DEF Exec!WellFormed, Exec!WellFormedOn, Exec!ImageType, Exec!Reachable,
     Exec!RunsOn, Exec!LeavesFor, Exec!ReturnsTo, Exec!InlinesTarget, Exec!HasInline,
     Exec!LastPc, Exec!per_instruction

\* The program and its configuration are given.
LEMMA JobKept ==
  ASSUME [Next]_vars
  PROVE  UNCHANGED <<prog, config>>
BY DEF Next, Compile, Pipeline, Emit, Execute, PipelineNext, BuildLinearBlocks, BuildBlocks,
   MergeBlocks, TailDuplicate, FormSuperblocks, CollectStale, ApplyStale, pipeline, vars

\* Every step keeps what is known of linear blocks.
LEMMA LinearStep ==
  ASSUME LinearInv, [Next]_vars
  PROVE  LinearInv'
<1>1. UNCHANGED <<prog, config>>
  BY JobKept
<1> SUFFICES ASSUME config.analysis_mode = "basic"
             PROVE  /\ stale' = Empty
                    /\ phase' \in {"decoded", "fixing", "emitted"}
                    /\ phase' = "fixing" => table' = TableOf(build_linear_blocks)
                    /\ phase' = "emitted" => Exec!WellFormed' /\ EntryPoints \subseteq DOMAIN code'
  BY <1>1 DEF LinearInv
<1>2. /\ stale = Empty /\ phase \in {"decoded", "fixing", "emitted"}
      /\ phase = "fixing" => table = TableOf(build_linear_blocks)
      /\ phase = "emitted" => Exec!WellFormed /\ EntryPoints \subseteq DOMAIN code
  BY DEF LinearInv
<1>3. CASE Pipeline
  <2>1. DOMAIN stale = {}
    BY <1>2 DEF Empty
  <2>2. BuildLinearBlocks
    BY ZenonT(30), <1>2, <1>3, <2>1 DEF Pipeline, PipelineNext, BuildBlocks, MergeBlocks, TailDuplicate,
       FormSuperblocks, CollectStale, ApplyStale
  <2> QED
    BY ZenonT(30), <1>2, <2>2 DEF BuildLinearBlocks
<1>4. CASE Emit
  <2>1. table = TableOf(build_linear_blocks) /\ phase' = "emitted" /\ stale' = Empty
    BY ZenonT(30), <1>2, <1>4 DEF Emit, Optimized
  <2>2. table.absorbed_to_merged = Empty /\ table.taken_inlines = Empty
    BY <2>1 DEF TableOf
  <2>3. code' = lift_to_ir_as_single_blocks
    BY ZenonT(30), <1>4, <2>1, LiftLinear DEF Emit
  <2>4. absorbed_to_merged' = Empty /\ taken_inlines' = Empty
    BY ZenonT(30), <1>4, <2>2 DEF Emit
  <2>5. prog' \in [Pcs -> Instr]
        /\ config'.instret_mode \in {"off", "count", "suspend", "per_instruction"}
    BY <1>1 DEF LinearInv, EmitConfig
  <2>6. (/\ prog \in [Pcs -> Instr] /\ code = lift_to_ir_as_single_blocks
         /\ absorbed_to_merged = Empty /\ taken_inlines = Empty
         /\ config.instret_mode \in {"off", "count", "suspend", "per_instruction"}
         => Exec!WellFormed /\ EntryPoints \subseteq DOMAIN code)'
    BY SingleBlocks, PTL
  <2>7. Exec!WellFormed' /\ EntryPoints \subseteq DOMAIN code'
    BY <2>3, <2>4, <2>5, <2>6, Zenon
  <2> QED
    BY ZenonT(30), <2>1, <2>7
<1>5. CASE Execute \/ UNCHANGED vars
  <2>1. UNCHANGED <<phase, table, stale>>
    BY <1>5 DEF Execute, vars, pipeline
  <2>2. CASE phase = "emitted"
    <3>1. UNCHANGED <<code, absorbed_to_merged, taken_inlines>>
      <4>1. CASE Execute
        BY ZenonT(30), <4>1, ImageStays DEF Execute, Exec!image
      <4>2. CASE UNCHANGED vars
        BY <4>2 DEF vars, emitted
      <4> QED
        BY ZenonT(30), <1>5, <4>1, <4>2
    <3> QED
      BY ZenonT(30), <1>1, <1>2, <2>1, <2>2, <3>1, WellFormedKept
  <2>3. CASE phase # "emitted"
    BY ZenonT(30), <1>2, <2>1, <2>3
  <2> QED
    BY ZenonT(30), <2>2, <2>3
<1> QED
  BY ZenonT(30), <1>3, <1>4, <1>5 DEF Next, Compile

-----------------------------------------------------------------------------
\* The emitted code, with what is proved of it.
Code == INSTANCE EmittedCodeProofs WITH Images <- {}, instret_mode <- config.instret_mode

(* The recompiler's instance of the emitted code is the one the proofs are   *)
(* about.                                                                    *)

\* They take the same steps.
LEMMA SameSteps == (Exec!Next <=> Code!Next) /\ Exec!vars = Code!vars
BY Zenon DEF Exec!Next, Code!Next, Exec!Host, Code!Host, Exec!Guest, Code!Guest,
       Exec!SetTarget, Code!SetTarget, Exec!rv_execute_from, Code!rv_execute_from,
       Exec!BlockEntry, Code!BlockEntry, Exec!ExitStatement, Code!ExitStatement,
       Exec!MidInstr, Code!MidInstr, Exec!MidBranchTaken, Code!MidBranchTaken,
       Exec!LastFall, Code!LastFall, Exec!LastJump, Code!LastJump, Exec!LastBranch,
       Code!LastBranch, Exec!OpenInline, Code!OpenInline, Exec!LastRet, Code!LastRet,
       Exec!LastExit, Code!LastExit, Exec!counts, Code!counts, Exec!suspends,
       Code!suspends, Exec!per_instruction, Code!per_instruction, Exec!is_valid_address,
       Code!is_valid_address, Exec!resolve_address, Code!resolve_address,
       Exec!dispatch_table, Code!dispatch_table, Exec!LastPc, Code!LastPc,
       Exec!HasInline, Code!HasInline, Exec!InlinePath, Code!InlinePath, Exec!Here,
       Code!Here, Exec!current_pc, Code!current_pc, Exec!instr, Code!instr,
       Exec!is_last, Code!is_last, Exec!instr_idx, Code!instr_idx, Exec!Counted,
       Code!Counted, Exec!SaveAndReturn, Code!SaveAndReturn, Exec!Enter, Code!Enter,
       Exec!Suspend, Code!Suspend, Exec!ExitAt, Code!ExitAt, Exec!MustSuspend,
       Code!MustSuspend, Exec!JumpStatic, Code!JumpStatic, Exec!BranchTo, Code!BranchTo,
       Exec!JumpDynamic, Code!JumpDynamic, Exec!SideExit, Code!SideExit, Exec!Executes,
       Code!Executes, Exec!NextInstr, Code!NextInstr, Exec!image, Code!image,
       Exec!control, Code!control, Exec!rvstate, Code!rvstate, Exec!vars, Code!vars,
       Exec!NoPc, Code!NoPc, Exec!FallOps, Code!FallOps, Exec!JumpOps, Code!JumpOps,
       Exec!ExitingOps, Code!ExitingOps

\* They ask the same of an image.
LEMMA SameImages == \A F : Exec!WellFormedOn(F) <=> Code!WellFormedOn(F)
BY Zenon DEF Exec!WellFormedOn, Code!WellFormedOn, Exec!ImageType, Code!ImageType,
       Exec!Reachable, Code!Reachable, Exec!RunsOn, Code!RunsOn, Exec!LeavesFor,
       Code!LeavesFor, Exec!ReturnsTo, Code!ReturnsTo, Exec!InlinesTarget,
       Code!InlinesTarget, Exec!HasInline, Code!HasInline, Exec!LastPc, Code!LastPc,
       Exec!per_instruction, Code!per_instruction, Exec!Pcs, Code!Pcs, Exec!Instr,
       Code!Instr, Exec!Ops, Code!Ops, Exec!Addresses, Code!Addresses, Exec!FallOps,
       Code!FallOps, Exec!JumpOps, Code!JumpOps

\* They begin in the same states.
LEMMA SameStart == Exec!ExecInit <=> Code!ExecInit
BY Zenon DEF Exec!ExecInit, Code!ExecInit, Exec!NoPc, Code!NoPc

\* They implement the same interpreter.
LEMMA SameInterpreter ==
  /\ Exec!Ref!Init <=> Code!Ref!Init
  /\ [Exec!Ref!Step]_(Exec!Ref!vars) <=> [Code!Ref!Step]_(Code!Ref!vars)
BY Zenon DEF Exec!Halted, Code!Halted, Exec!GuestPc, Code!GuestPc, Exec!current_pc,
       Code!current_pc, Exec!Here, Code!Here, Exec!InlinePath, Code!InlinePath,
       Exec!LastPc, Code!LastPc, Exec!Pcs, Code!Pcs, Exec!NoPc, Code!NoPc,
       Exec!Ref!Init, Code!Ref!Init, Exec!Ref!Step, Code!Ref!Step, Exec!Ref!vars,
       Code!Ref!vars, Exec!Ref!Goto, Code!Ref!Goto, Exec!Ref!Halt, Code!Ref!Halt,
       Exec!Ref!FallThrough, Code!Ref!FallThrough, Exec!Ref!ExitRequest,
       Code!Ref!ExitRequest, Exec!Ref!TakeJump, Code!Ref!TakeJump, Exec!Ref!TakeCall,
       Code!Ref!TakeCall, Exec!Ref!TakeBranch, Code!Ref!TakeBranch, Exec!Ref!Return,
       Code!Ref!Return, Exec!Ref!Pcs, Code!Ref!Pcs, Exec!Ref!NoPc, Code!Ref!NoPc,
       Exec!Ref!Instr, Code!Ref!Instr, Exec!Ref!Ops, Code!Ref!Ops, Exec!Ref!Addresses,
       Code!Ref!Addresses, Exec!Ref!FallOps, Code!Ref!FallOps, Exec!Ref!JumpOps,
       Code!Ref!JumpOps, Exec!Ref!ExitingOps, Code!Ref!ExitingOps

-----------------------------------------------------------------------------
(* Execution after recompilation. *)

\* The image that was emitted is well formed on a set of functions that the
\* entry points are among.
EmittedWell ==
  phase = "emitted" => \E F : EntryPoints \subseteq F /\ Exec!WellFormedOn(F)

\* Nothing is executed before the image is emitted; from then on the invariant
\* of the emitted code holds, of those functions.
ExecutionInv ==
  /\ prog \in [Pcs -> Instr]
  /\ phase # "emitted" => Exec!ExecInit /\ pc \in EntryPoints
  /\ phase = "emitted" => \E F : Code!IInv(F)

\* The first state of the execution satisfies that invariant.
LEMMA Starts ==
  \A F : Exec!WellFormedOn(F) /\ pc \in F /\ Exec!ExecInit => Code!IInv(F)
BY ZenonT(30), SameImages, SameStart, NAssumption, RunBoundsAssumption, Code!StartIInv

\* Every step keeps the invariant, and is a step of the interpreter or none.
LEMMA ExecutionStep ==
  ASSUME ExecutionInv, EmittedWell', [Next]_vars
  PROVE  ExecutionInv' /\ [Exec!Ref!Step]_(Exec!Ref!vars)
<1>1. CASE Compile
  <2>1. phase # "emitted" /\ UNCHANGED <<prog, execution>>
    BY ZenonT(30), <1>1 DEF Compile, Pipeline, Emit, Optimized, PipelineNext, BuildLinearBlocks,
       BuildBlocks, MergeBlocks, TailDuplicate, FormSuperblocks, CollectStale, ApplyStale
  <2>2. Exec!ExecInit /\ pc \in EntryPoints
    BY ZenonT(30), <2>1 DEF ExecutionInv
  <2>3. Exec!ExecInit' /\ pc' \in EntryPoints
    BY ZenonT(30), <2>1, <2>2 DEF Exec!ExecInit, execution, Exec!NoPc
  <2>4. phase' = "emitted" => \E F : Code!IInv(F)'
    <3>1. (\A F : Exec!WellFormedOn(F) /\ pc \in F /\ Exec!ExecInit => Code!IInv(F))'
      BY Starts, PTL
    <3> QED
      BY ZenonT(30), <2>3, <3>1 DEF EmittedWell
  <2>5. UNCHANGED Exec!Ref!vars
    BY ZenonT(30), <2>1, <2>2, CompileStutters
  <2> QED
    BY ZenonT(30), <2>1, <2>3, <2>4, <2>5 DEF ExecutionInv
<1>2. CASE Execute \/ UNCHANGED vars
  <2>1. UNCHANGED <<prog, config, phase>> /\ [Code!Next]_(Code!vars)
    <3>1. CASE Execute
      BY ZenonT(30), <3>1, SameSteps DEF Execute, pipeline
    <3>2. CASE UNCHANGED vars
      <4>1. UNCHANGED <<pipeline, emitted, execution>>
        BY ZenonT(30), <3>2 DEF vars
      <4> QED
        BY ZenonT(30), <4>1 DEF pipeline, emitted, execution, Code!vars, Code!image, Code!control,
           Code!rvstate
    <3> QED
      BY ZenonT(30), <1>2, <3>1, <3>2
  <2>2. CASE phase = "emitted"
    <3>1. PICK F : Code!IInv(F)
      BY ZenonT(30), <2>2 DEF ExecutionInv
    <3>2. Code!IInv(F)' /\ [Code!Ref!Step]_(Code!Ref!vars)
      BY ZenonT(30), <2>1, <3>1, NAssumption, RunBoundsAssumption, Code!StepKeeps
    <3> QED
      BY ZenonT(30), <2>1, <2>2, <3>2, SameInterpreter DEF ExecutionInv
  <2>3. CASE phase # "emitted"
    <3>1. UNCHANGED <<prog, execution>>
      BY ZenonT(30), <1>2, <2>3 DEF Execute, vars, pipeline
    <3>2. Exec!ExecInit /\ pc \in EntryPoints
      BY ZenonT(30), <2>3 DEF ExecutionInv
    <3>3. Exec!ExecInit' /\ pc' \in EntryPoints
      BY ZenonT(30), <3>1, <3>2 DEF Exec!ExecInit, execution, Exec!NoPc
    <3>4. UNCHANGED Exec!Ref!vars
      BY ZenonT(30), <3>1, <3>2, CompileStutters
    <3> QED
      BY ZenonT(30), <2>1, <2>3, <3>3, <3>4 DEF ExecutionInv
  <2> QED
    BY ZenonT(30), <2>2, <2>3
<1> QED
  BY ZenonT(30), <1>1, <1>2 DEF Next

\* The pipeline begins with a program and a configuration.
LEMMA Begins ==
  ASSUME Init
  PROVE  LinearInv /\ ExecutionInv /\ Exec!Ref!Init
<1>1. prog \in [Pcs -> Instr] /\ config \in EmitConfig /\ phase = "decoded" /\ stale = Empty
  BY ZenonT(30), LimitsAssumption DEF Init, PipelineInit
<1>2. Exec!ExecInit /\ pc \in EntryPoints
  BY DEF Init
<1>3. pc \in Pcs
  BY ZenonT(30), <1>2, EntryPointsAssumption
<1>4. Exec!Ref!Init
  <2>1. ~Exec!Halted /\ Exec!GuestPc = pc
    BY ZenonT(30), <1>2, <1>3, WaitsAtEntry DEF Exec!Halted, Exec!Pcs, Pcs
  <2>2. cond \in BOOLEAN /\ stack = <<>>
    BY ZenonT(30), <1>2 DEF Exec!ExecInit
  <2>3. Exec!Halted = FALSE
    BY <2>1, Zenon DEF Exec!Halted
  <2> QED
    BY ZenonT(30), <1>1, <1>3, <2>1, <2>2, <2>3
       DEF Exec!Ref!Init, Exec!Ref!Pcs, Exec!Ref!Instr, Exec!Ref!Ops, Exec!Ref!Addresses,
           Exec!Ref!FallOps, Exec!Ref!JumpOps, Pcs, Instr, Ops, Addresses, FallOps, JumpOps
<1> QED
  BY ZenonT(30), <1>1, <1>2, <1>4 DEF LinearInv, ExecutionInv

-----------------------------------------------------------------------------
\* Whatever transforms were applied: a program whose image is well formed, on
\* some set of functions that holds the entry points, is executed as the
\* interpreter says.
THEOREM WellFormedImagesRun == Spec /\ []EmittedWell => ImplementsInterpreter
<1>1. Init => ExecutionInv /\ Exec!Ref!Init
  BY ZenonT(30), Begins
<1>2. ExecutionInv /\ EmittedWell' /\ [Next]_vars =>
        ExecutionInv' /\ [Exec!Ref!Step]_(Exec!Ref!vars)
  BY ZenonT(30), ExecutionStep
<1> QED
  BY <1>1, <1>2, PTL DEF Spec, ImplementsInterpreter, Exec!ImplementsInterpreter, Exec!Ref!Spec

\* Under AnalysisMode::Basic every program is recompiled into a well-formed
\* image, in every instret mode (build_linear_blocks, lift_to_ir).
THEOREM LinearBlocksCorrect == Spec => []LinearBlocksWellFormed
<1>1. Init => LinearInv
  BY ZenonT(30), Begins
<1>2. LinearInv /\ [Next]_vars => LinearInv'
  BY ZenonT(30), LinearStep
<1>3. LinearInv => LinearBlocksWellFormed
  BY DEF LinearInv, LinearBlocksWellFormed
<1> QED
  BY <1>1, <1>2, <1>3, PTL DEF Spec

\* Under AnalysisMode::Basic every program, recompiled and executed under the
\* host's control, behaves as the interpreter says.
THEOREM BasicRefinement ==
  config.analysis_mode = "basic" /\ Spec => ImplementsInterpreter
<1>1. Init => LinearInv
  BY Begins
<1>2. LinearInv /\ [Next]_vars => LinearInv'
  BY LinearStep
<1>3. LinearInv /\ config.analysis_mode = "basic" => EmittedWell
  BY DEF LinearInv, EmittedWell, Exec!WellFormed
<1>4. config.analysis_mode = "basic" /\ [Next]_vars => (config.analysis_mode = "basic")'
  BY ZenonT(30), JobKept
<1> QED
  BY <1>1, <1>2, <1>3, <1>4, WellFormedImagesRun, PTL DEF Spec

\* Whatever transforms were applied: a program of none of the shapes they get
\* wrong is executed as the interpreter says, given that its live functions are
\* well formed, which is what the runs of the pipeline check.
THEOREM RegularRefinement ==
  (config.analysis_mode = "full_cfg" => Regular(prog)) /\ Spec /\ []EmitsWellFormed
    => ImplementsInterpreter
<1> DEFINE Shape == config.analysis_mode = "full_cfg" => Regular(prog)
<1>1. Shape /\ [Next]_vars => Shape'
  BY ZenonT(30), JobKept DEF Regular
<1>2. Shape /\ EmitsWellFormed => EmittedWell
  BY DEF EmitsWellFormed, EmittedWell
<1> QED
  <2> HIDE DEF Shape
  <2> QED
    BY <1>1, <1>2, WellFormedImagesRun, PTL DEF Shape, Spec
=============================================================================
