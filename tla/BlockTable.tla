---------------------------- MODULE BlockTable -----------------------------
(***************************************************************************)
(* The block table (crates/rvr-cfg/src/block_table.rs): basic blocks built *)
(* from the analysis' leaders and the transforms merge_blocks,             *)
(* tail_duplicate, form_superblocks and fix_stale_mappings, in the order   *)
(* the pipeline applies them, and the lifting of blocks with their         *)
(* continuations into the instruction sequences the emitter renders.       *)
(*                                                                         *)
(* The table is a record:                                                  *)
(*   blocks               start -> [end, last_pc, instruction_count]       *)
(*   absorbed_to_merged   address -> block start                           *)
(*   block_continuations  block start -> sequence of ranges <<start, end>> *)
(*   taken_inlines        branch address -> start of its taken block       *)
(* Blocks are visited in address order, as the sorted vector is.  Choices  *)
(* that depend on the iteration order of a hash map are nondeterministic.  *)
(***************************************************************************)
EXTENDS ControlFlow, SequencesExt

CONSTANTS Jobs,              \* the programs to recompile, with their EmitConfig
          TailDupSize,       \* DEFAULT_TAIL_DUP_SIZE
          SuperblockDepth,   \* DEFAULT_SUPERBLOCK_DEPTH
          TakenInlineSize    \* DEFAULT_TAKEN_INLINE_SIZE

EmitConfig ==
  [analysis_mode : {"full_cfg", "basic"}, enable_superblock : BOOLEAN,
   instret_mode : {"off", "count", "suspend", "per_instruction"}]

ASSUME LimitsAssumption ==
  /\ Jobs \subseteq [prog : [Pcs -> Instr], config : EmitConfig]
  /\ {TailDupSize, SuperblockDepth, TakenInlineSize} \subseteq Nat

Empty == [a \in {} |-> NoPc]

\* The elements of a set of addresses in ascending order.
InOrder(S) == SelectSeq([c \in 1 .. N |-> c], LAMBDA c : c \in S)

\* block_continuations.entry(b).or_default().push(range)
PushRange(conts, b, range) ==
  LET old == IF b \in DOMAIN conts THEN conts[b] ELSE <<>>
  IN  (b :> Append(old, range)) @@ conts

-----------------------------------------------------------------------------
(* create_blocks_from_leaders *)

create_blocks(p) ==
  LET leaders == compute_leaders(p)
      Ends(c) == is_control_flow(p[c]) \/ c + 1 \in leaders \/ c = N
      LastOf(s) == CHOOSE c \in s .. N :
                     Ends(c) /\ \A d \in s .. c - 1 : ~Ends(d)
  IN  [s \in leaders \cap Pcs |->
         [end |-> LastOf(s) + 1, last_pc |-> LastOf(s),
          instruction_count |-> LastOf(s) + 1 - s]]

\* Mutated form: the first slot is skipped.
build_linear_blocks_late ==
  [c \in 2 .. N |-> [end |-> c + 1, last_pc |-> c, instruction_count |-> 1]]

\* build_linear_blocks: one instruction per block.
build_linear_blocks ==
  [c \in Pcs |-> [end |-> c + 1, last_pc |-> c, instruction_count |-> 1]]

TableOf(blocks) ==
  [blocks |-> blocks, absorbed_to_merged |-> Empty,
   block_continuations |-> Empty, taken_inlines |-> Empty]

NewTable(p) == TableOf(create_blocks(p))

-----------------------------------------------------------------------------
(* merge_blocks *)

\* The address Terminator::Fall or Terminator::Jump names, NoPc for the rest.
\* Only an ecall's Fall carries its target.
named_target(i, pc) ==
  CASE i.op \in JumpOps -> i.target
    [] i.op = "ecall" -> pc + 1
    [] OTHER -> NoPc

\* Mutated form: other blocks may lead to the target as well.
get_merge_target_shared(p, preds, last) ==
  LET t == named_target(p[last], last)
  IN  IF t \notin EntryPoints /\ last \in preds[t] THEN t ELSE NoPc

\* The block that the block ending at last may absorb, NoPc if none.
get_merge_target(p, preds, last) ==
  LET t == named_target(p[last], last)
  IN  IF t \notin EntryPoints /\ preds[t] = {last} THEN t ELSE NoPc

absorbable(p, preds, T) ==
  LET Visit(absorbed, s) ==
        LET t == get_merge_target(p, preds, T.blocks[s].last_pc)
        IN  IF s \in absorbed \/ t = NoPc THEN absorbed ELSE absorbed \cup {t}
  IN  FoldLeft(Visit, {}, InOrder(DOMAIN T.blocks))

\* The blocks a head swallows one after the other.
merge_chain(p, preds, T, absorbed, head) ==
  LET Extend[n \in 0 .. N] ==
        IF n = 0 THEN <<head>>
        ELSE LET c == Extend[n - 1]
                 t == get_merge_target(p, preds, T.blocks[c[Len(c)]].last_pc)
             IN  IF Len(c) = n /\ t \in absorbed \cap DOMAIN T.blocks
                   THEN Append(c, t) ELSE c
  IN  Tail(Extend[N])

merge_blocks(p, T) ==
  LET preds == build_predecessors(p)
      absorbed == absorbable(p, preds, T)
      heads == DOMAIN T.blocks \ absorbed
      chain == [h \in heads |-> merge_chain(p, preds, T, absorbed, h)]
      Ranges(c) == [k \in 1 .. Len(c) |-> <<c[k], T.blocks[c[k]].end>>]
      Count(h) == MapThenSumSet(LAMBDA s : T.blocks[s].instruction_count,
                                {h} \cup ToSet(chain[h]))
      swallowed == UNION {ToSet(chain[h]) : h \in heads}
  IN  IF absorbed = {} THEN T
      ELSE [T EXCEPT
             !.blocks = [h \in heads |->
                [T.blocks[h] EXCEPT
                   !.last_pc = T.blocks[Last(<<h>> \o chain[h])].last_pc,
                   !.instruction_count = Count(h)]],
             !.absorbed_to_merged =
                [s \in swallowed |-> CHOOSE h \in heads : s \in ToSet(chain[h])],
             !.block_continuations =
                [h \in {h \in heads : chain[h] # <<>>} |-> Ranges(chain[h])]]

-----------------------------------------------------------------------------
(* tail_duplicate *)

\* Mutated form: blocks that are fallen or branched into are candidates too.
dup_candidates_any(p, preds, T) ==
  {s \in DOMAIN T.blocks :
     /\ s \notin EntryPoints
     /\ T.blocks[s].instruction_count <= TailDupSize
     /\ Cardinality(preds[s]) >= 2
     /\ p[T.blocks[s].last_pc].op \in FallOps}

\* collect_tail_duplicate_candidates: only the terminators of the predecessors
\* are examined, not where they lead.
dup_candidates(p, preds, T) ==
  {s \in DOMAIN T.blocks :
     /\ s \notin EntryPoints
     /\ T.blocks[s].instruction_count <= TailDupSize
     /\ Cardinality(preds[s]) >= 2
     /\ p[T.blocks[s].last_pc].op \in FallOps
     /\ \A c \in preds[s] : p[c].op \in JumpOps}

\* collect_tail_duplicate_predecessors: the blocks that end in a predecessor.
\* All of them jump explicitly, so the order is by address.
dup_predecessors(preds, T, s) ==
  InOrder({b \in DOMAIN T.blocks : T.blocks[b].last_pc \in preds[s]})

\* apply_tail_duplication: every predecessor gets the block's own range, the
\* first one becomes the place the block's address maps to.
apply_tail_duplication(preds, T, s) ==
  LET targets == dup_predecessors(preds, T, s)
      range == <<s, T.blocks[s].end>>
  IN  IF targets = <<>> THEN T
      ELSE [T EXCEPT
             !.block_continuations =
                FoldLeft(LAMBDA conts, b : PushRange(conts, b, range), @, targets),
             !.absorbed_to_merged = (s :> Head(targets)) @@ @]

\* order is the iteration order of the candidates' hash set.
tail_duplicate(p, T, order) ==
  LET preds == build_predecessors(p)
      duplicated == FoldLeft(LAMBDA t, s : apply_tail_duplication(preds, t, s), T, order)
  IN  [duplicated EXCEPT !.blocks = Restrict(@, DOMAIN @ \ ToSet(order))]

-----------------------------------------------------------------------------
(* form_superblocks *)

\* maybe_inline_taken_path
inlines_taken(p, preds, T, plan, merged, taken) ==
  /\ taken \notin EntryPoints \cup plan.absorbed \cup merged
  /\ taken \in DOMAIN T.blocks
  /\ Cardinality(preds[taken]) = 1
  /\ T.blocks[taken].instruction_count <= TakenInlineSize
  /\ p[T.blocks[taken].last_pc].op # "branch"

\* Mutated form: other blocks may lead to s as well.
joins_superblock_shared(preds, T, plan, merged, chain, s) ==
  /\ s \in DOMAIN T.blocks
  /\ s \notin plan.absorbed \cup ToSet(chain) \cup EntryPoints
  /\ s \notin merged \cup plan.heads

\* The conditions under which build_superblock_chain absorbs s.
joins_superblock(preds, T, plan, merged, chain, s) ==
  /\ s \in DOMAIN T.blocks
  /\ s \notin plan.absorbed \cup ToSet(chain) \cup EntryPoints
  /\ s \notin merged \cup plan.heads
  /\ Cardinality(preds[s]) <= 1

\* build_superblock_chain: the blocks absorbed from address a on.
superblock_chain(p, preds, T, plan, merged, a) ==
  LET After(s) ==
        LET i == p[T.blocks[s].last_pc]
        IN  CASE i.op \in JumpOps -> i.target
              [] i.op \in FallOps -> T.blocks[s].end
              [] OTHER -> NoPc
      Extend[n \in 0 .. SuperblockDepth] ==
        IF n = 0 THEN <<>>
        ELSE LET c == Extend[n - 1]
                 s == IF n = 1 THEN a ELSE After(c[n - 1])
             IN  IF Len(c) = n - 1 /\ joins_superblock(preds, T, plan, merged, c, s)
                   THEN Append(c, s) ELSE c
  IN  Extend[SuperblockDepth]

\* collect_superblock_chains: one step of the loop over the blocks.
plan_superblock(p, preds, T, merged, plan, s) ==
  LET b == T.blocks[s]
      taken == p[b.last_pc].target
      inlined == IF inlines_taken(p, preds, T, plan, merged, taken)
                   THEN [plan EXCEPT !.inlines = (b.last_pc :> taken) @@ @]
                   ELSE plan
      headed == [inlined EXCEPT !.heads = @ \cup {s}]
      chain == superblock_chain(p, preds, T, headed, merged, b.end)
  IN  IF s \in plan.absorbed \cup merged \/ p[b.last_pc].op # "branch" THEN plan
      ELSE IF b.end \in EntryPoints \/ b.end \notin DOMAIN T.blocks THEN inlined
      ELSE [headed EXCEPT !.absorbed = @ \cup ToSet(chain),
                          !.chains = (s :> chain) @@ @]

form_superblocks(p, T) ==
  LET preds == build_predecessors(p)
      merged == Range(T.absorbed_to_merged)
      plan == FoldLeft(LAMBDA q, s : plan_superblock(p, preds, T, merged, q, s),
                       [absorbed |-> {}, heads |-> {}, chains |-> Empty, inlines |-> Empty],
                       InOrder(DOMAIN T.blocks))
      Append1(conts, h) ==
        FoldLeft(LAMBDA q, s : PushRange(q, h, <<s, T.blocks[s].end>>),
                 conts, plan.chains[h])
      owner == [s \in plan.absorbed |->
                  CHOOSE h \in DOMAIN plan.chains : s \in ToSet(plan.chains[h])]
  IN  [blocks |-> Restrict(T.blocks, DOMAIN T.blocks \ plan.absorbed),
       absorbed_to_merged |-> owner @@ T.absorbed_to_merged,
       block_continuations |->
          FoldLeft(Append1, T.block_continuations, InOrder(DOMAIN plan.chains)),
       taken_inlines |-> plan.inlines @@ T.taken_inlines]

-----------------------------------------------------------------------------
(* fix_stale_mappings *)

\* Follow the absorbed map from pc to a block that is still there, NoPc when
\* the chain breaks or comes round.
final_target(T, pc) ==
  LET chase[n \in 0 .. N] ==
        IF n = 0 THEN T.absorbed_to_merged[pc]
        ELSE LET c == chase[n - 1]
             IN  IF c \in DOMAIN T.absorbed_to_merged \ DOMAIN T.blocks
                   THEN T.absorbed_to_merged[c] ELSE c
  IN  IF chase[N] \in DOMAIN T.blocks THEN chase[N] ELSE NoPc

stale_mappings(T) ==
  {a \in DOMAIN T.absorbed_to_merged : T.absorbed_to_merged[a] \notin DOMAIN T.blocks}

\* The blocks whose continuations hold a range that starts at pc.
range_owners(T, pc) ==
  {b \in DOMAIN T.block_continuations :
     \E k \in DOMAIN T.block_continuations[b] : T.block_continuations[b][k][1] = pc}

\* Move pc's range from the continuations of b to those of its final target.
move_range(T, b, pc, target) ==
  LET conts == T.block_continuations
      k == SelectInSeq(conts[b], LAMBDA r : r[1] = pc)
  IN  [T EXCEPT !.block_continuations =
         PushRange([conts EXCEPT ![b] = RemoveAt(@, k)], target, conts[b][k])]

-----------------------------------------------------------------------------
(* Lifting: the guest addresses rendered in each block function. *)

\* One range: every address of it, or up to the first terminator.
lift_range(p, range, is_last_range) ==
  LET terminators == {c \in range[1] .. range[2] - 1 : is_control_flow(p[c])}
      end == IF is_last_range /\ terminators # {} THEN Min(terminators) + 1 ELSE range[2]
  IN  [j \in 1 .. end - range[1] |-> range[1] + j - 1]

\* lift_block_with_continuations: the block's range, then its continuations;
\* a terminator ends the block only in the last range.
lift_block(p, T, b) ==
  LET conts == IF b \in DOMAIN T.block_continuations
                 THEN T.block_continuations[b] ELSE <<>>
      ranges == <<<<b, T.blocks[b].end>>>> \o conts
  IN  FlattenSeq([k \in 1 .. Len(ranges) |-> lift_range(p, ranges[k], k = Len(ranges))])

lift_to_ir(p, T) == [b \in DOMAIN T.blocks |-> lift_block(p, T, b)]

\* lift_to_ir_as_single_blocks: every instruction is a block.
lift_to_ir_as_single_blocks == [c \in Pcs |-> <<c>>]

-----------------------------------------------------------------------------
VARIABLES prog, config, phase, table,
          stale   \* fix_stale_mappings' to_update list: address -> new target

pipeline == <<prog, config, phase, table, stale>>

PipelineInit ==
  /\ \E job \in Jobs : prog = job.prog /\ config = job.config
  /\ phase = "decoded"
  /\ table = TableOf(Empty)
  /\ stale = Empty

\* AnalysisMode::Basic: linear blocks, and no transforms.
BuildLinearBlocks ==
  /\ phase = "decoded"
  /\ config.analysis_mode = "basic"
  /\ phase' = "fixing"
  /\ table' = TableOf(build_linear_blocks)
  /\ UNCHANGED <<prog, config, stale>>

BuildBlocks ==
  /\ phase = "decoded"
  /\ config.analysis_mode = "full_cfg"
  /\ phase' = "built"
  /\ table' = NewTable(prog)
  /\ UNCHANGED <<prog, config, stale>>

MergeBlocks ==
  /\ phase = "built"
  /\ phase' = "merged"
  /\ table' = merge_blocks(prog, table)
  /\ UNCHANGED <<prog, config, stale>>

TailDuplicate ==
  /\ phase = "merged"
  /\ phase' = "duplicated"
  /\ \E order \in SetToSeqs(dup_candidates(prog, build_predecessors(prog), table)) :
       table' = tail_duplicate(prog, table, order)
  /\ UNCHANGED <<prog, config, stale>>

FormSuperblocks ==
  /\ phase = "duplicated"
  /\ config.enable_superblock
  /\ phase' = "superblocked"
  /\ table' = form_superblocks(prog, table)
  /\ UNCHANGED <<prog, config, stale>>

\* The first half of fix_stale_mappings: collect the updates, drop the
\* mappings whose chain is broken.
CollectStale ==
  /\ phase = IF config.enable_superblock THEN "superblocked" ELSE "duplicated"
  /\ phase' = "fixing"
  /\ LET final == [a \in stale_mappings(table) |-> final_target(table, a)]
         broken == {a \in DOMAIN final : final[a] = NoPc}
     IN  /\ stale' = Restrict(final, DOMAIN final \ broken)
         /\ table' = [table EXCEPT !.absorbed_to_merged = Restrict(@, DOMAIN @ \ broken)]
  /\ UNCHANGED <<prog, config>>

\* The second half, one update at a time: hash maps decide which update comes
\* next and which of several copies of a range is moved.
ApplyStale ==
  /\ phase = "fixing"
  /\ \E a \in DOMAIN stale :
       LET mapped == [table EXCEPT !.absorbed_to_merged[a] = stale[a]]
           owners == range_owners(table, a)
       IN  /\ table' \in IF owners = {} THEN {mapped}
                         ELSE {move_range(mapped, b, a, stale[a]) : b \in owners}
           /\ stale' = Restrict(stale, DOMAIN stale \ {a})
  /\ UNCHANGED <<prog, config, phase>>

Optimized == phase = "fixing" /\ stale = Empty

PipelineNext ==
  \/ BuildLinearBlocks
  \/ BuildBlocks
  \/ MergeBlocks
  \/ TailDuplicate
  \/ FormSuperblocks
  \/ CollectStale
  \/ ApplyStale
=============================================================================
