---------------------------- MODULE Recompiler -----------------------------
(***************************************************************************)
(* The whole path of a program: the block table is built and transformed,  *)
(* the blocks are lifted and emitted, and the emitted code is executed     *)
(* under the host's control.                                               *)
(***************************************************************************)
EXTENDS BlockTable

CONSTANTS MaxDepth, MaxTarget, MaxRetired

ASSUME RunBoundsAssumption ==
  /\ MaxDepth \in Nat /\ MaxTarget \in Nat /\ MaxRetired \in Nat

VARIABLES code, absorbed_to_merged, taken_inlines,
          where, blk, idx, acc,
          pc, instret, has_exited, target_instret,
          cond, stack, retired, launch

Exec == INSTANCE EmittedCode WITH Images <- {}, instret_mode <- config.instret_mode

emitted == <<code, absorbed_to_merged, taken_inlines>>

execution == <<where, blk, idx, acc, pc, instret, has_exited, target_instret,
               cond, stack, retired, launch>>

vars == <<pipeline, emitted, execution>>

Init ==
  /\ PipelineInit
  /\ code = Empty /\ absorbed_to_merged = Empty /\ taken_inlines = Empty
  /\ pc \in EntryPoints
  /\ Exec!ExecInit

Pipeline ==
  /\ PipelineNext
  /\ UNCHANGED <<emitted, execution>>

\* lift and emit_c.  The per-instruction mode of the C backend lifts single
\* instructions; the maps of the block table are passed on in every mode.
Emit ==
  /\ Optimized
  /\ phase' = "emitted"
  /\ code' = IF config.instret_mode = "per_instruction" THEN lift_to_ir_as_single_blocks
             ELSE lift_to_ir(prog, table)
  /\ absorbed_to_merged' = table.absorbed_to_merged
  /\ taken_inlines' = table.taken_inlines
  /\ UNCHANGED <<prog, config, table, stale, execution>>

Execute ==
  /\ phase = "emitted"
  /\ UNCHANGED pipeline
  /\ Exec!Next

Compile == Pipeline \/ Emit

Next == Compile \/ Execute

Spec == Init /\ [][Next]_vars

\* Recompilation alone; the guest's condition does not matter before it runs.
CompileInit == Init /\ ~cond

CompileSpec == CompileInit /\ [][Compile]_vars

-----------------------------------------------------------------------------
\* The instructions control can reach from the entry points.
reachable(p) ==
  LET reach[n \in 0 .. N] ==
        IF n = 0 THEN EntryPoints
        ELSE reach[n - 1]
               \cup (UNION {get_successors(p, c) : c \in reach[n - 1]} \cap Pcs)
  IN  reach[N]

\* The functions that are not dead code.
live == DOMAIN code \cap reachable(prog)

-----------------------------------------------------------------------------
(* The shapes of program that the block transforms get wrong. *)

Merged(p) == merge_blocks(p, NewTable(p))

Duplicated(p) == dup_candidates(p, build_predecessors(p), Merged(p))

AfterDuplication(p) == tail_duplicate(p, Merged(p), InOrder(Duplicated(p)))

\* A duplicated block has merged another one.
DuplicatesMergedHead(p) ==
  Duplicated(p) \cap DOMAIN Merged(p).block_continuations # {}

\* A duplicated block is the return site of a call to elsewhere.
DuplicatesReturnSite(p) ==
  \E s \in Duplicated(p) : \E c \in build_predecessors(p)[s] :
    p[c].op = "call" /\ p[c].target # s

\* A superblock absorbs a block that carries a duplicate.
AbsorbsDuplicate(p) ==
  LET before == AfterDuplication(p)
      after == form_superblocks(p, before)
  IN  (DOMAIN before.blocks \ DOMAIN after.blocks)
        \cap DOMAIN before.block_continuations # {}

\* An instruction with operation op names the address after it.
NamesNext(p, op) == \E c \in Pcs : p[c].op = op /\ p[c].target = c + 1

\* A branch the analysis never reaches.
DeadBranch(p) == \E c \in Pcs \ visited(p) : p[c].op = "branch"

Regular(p) ==
  /\ ~NamesNext(p, "call")
  /\ ~DuplicatesMergedHead(p)
  /\ ~DuplicatesReturnSite(p)
  /\ config.enable_superblock =>
       ~AbsorbsDuplicate(p) /\ ~DeadBranch(p) /\ ~NamesNext(p, "branch")

-----------------------------------------------------------------------------
\* The image emitted for a program of none of these shapes means what the
\* program means: the functions that control can reach run on and leave as the
\* guest would.
EmitsWellFormed ==
  phase = "emitted" =>
    \/ EntryPoints \subseteq live /\ Exec!WellFormedOn(live)
    \/ config.analysis_mode = "full_cfg" /\ ~Regular(prog)

\* Under AnalysisMode::Basic the whole image is well formed, dead functions
\* included: linear blocks need no analysis of what is reachable.
LinearBlocksWellFormed ==
  phase = "emitted" /\ config.analysis_mode = "basic" => Exec!WellFormed

\* The recompiled program, executed under the host's control, behaves as the
\* interpreter does; the phases of the pipeline before it are stuttering.
ImplementsInterpreter == Exec!ImplementsInterpreter

-----------------------------------------------------------------------------
(* What comments in the code say of the transforms. *)

\* lift_block_with_continuations: "Terminators in absorbed ranges are internal
\* jumps/falls", so an instruction that is not the last one of its function
\* falls into, or jumps to, the one rendered after it.
InternalTerminators ==
  phase = "emitted" =>
    \A b \in DOMAIN code : \A k \in 1 .. Len(code[b]) - 1 :
      code[b][k + 1] = IF prog[code[b][k]].op \in JumpOps
                         THEN prog[code[b][k]].target ELSE code[b][k] + 1
=============================================================================
