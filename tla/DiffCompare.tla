---------------------------- MODULE DiffCompare ----------------------------
(***************************************************************************)
(* Differential testing: the executors of                                  *)
(* crates/rvr/src/test_support/diff/inprocess.rs and spike.rs and the      *)
(* comparisons of compare.rs, over two machines.                           *)
(*                                                                         *)
(* A machine is the sequence of what its instructions do, its exit code    *)
(* and its kind.  In checkpoint mode an element stands for the registers   *)
(* (rd) and the pc after the instruction.  An instruction that exits       *)
(* leaves the pc at itself, and is executed again when the machine is      *)
(* resumed; it writes no register.                                         *)
(*                                                                         *)
(* mode            "lockstep", "block" or "checkpoint"                     *)
(* phase           where the comparison is                                 *)
(* pos, exited     per machine: instructions executed, has_exited          *)
(* state           per machine: what step returned, <<>> for None          *)
(* attempts        alignment steps made by compare_lockstep                *)
(* index           the next entry of the ring to compare                   *)
(* low, high       the interval of the bisection                           *)
(* offset          ghost: per machine, instructions skipped by alignment   *)
(* overflowed      ghost: some block did not fit the ring                  *)
(***************************************************************************)
EXTENDS TraceRing

CONSTANTS Pairs,         \* the machines to compare: records [ref, test]
          Modes,         \* the comparisons to make
          Limit,         \* max_instrs
          Interval,      \* checkpoint_interval
          MaxAttempts    \* 256 in the code

Instruction == [pc : Values, rd : Values \cup {NoValue}]

Machine ==
  [trace : Seq(Instruction) \ {<<>>}, exit_code : Nat, kind : {"inprocess", "spike"}]

\* Spike is only ever the reference, and a batch has an instruction.
ASSUME DiffAssumption ==
  /\ Pairs \subseteq [ref : Machine, test : Machine]
  /\ \A p \in Pairs : p.test.kind = "inprocess"
  /\ Modes \subseteq {"lockstep", "block", "checkpoint"}
  /\ Limit \in Nat /\ Interval \in Nat \ {0} /\ MaxAttempts \in Nat

VARIABLES mode, phase, machine, pos, exited, state, attempts, matched, index,
          low, high, result, offset, overflowed

search == <<low, high>>
progress == <<pos, exited, state, attempts>>
compareVars == <<mode, phase, machine, progress, matched, index, search, result,
                 offset, overflowed>>
diffVars == <<ringVars, compareVars>>

Sides == {"ref", "test"}

Least(a, b) == IF a < b THEN a ELSE b

Length(s) == Len(machine[s].trace)

\* What the k-th instruction of machine s does, exit instruction repeated.
Does(s, k) == machine[s].trace[Least(k, Length(s))]

\* compare_states with the default configuration finds no divergence.
compare_states(e, a) == e.pc = a.pc /\ e.rd = a.rd

Report(kind, k) == result' = [kind |-> kind, index |-> k]

Running == result.kind = "running"

-----------------------------------------------------------------------------
(* Executors. *)

\* InProcessExecutor::step.  Only a failing exit is noticed; what it did is
\* then not reported.
StepInProcess(s) ==
  LET k == Least(pos[s] + 1, Length(s))
      exits == k = Length(s) /\ machine[s].exit_code # 0
  IN  IF exited[s]
      THEN [state |-> <<>>, pos |-> pos[s], exited |-> TRUE]
      ELSE [state |-> <<[pc |-> Does(s, k).pc,
                         rd |-> IF exits THEN NoValue ELSE Does(s, k).rd,
                         is_exit |-> exits]>>,
            pos |-> k, exited |-> exits]

\* SpikeExecutor::step: the trace ends with the exit, whatever its code.
StepSpike(s) ==
  IF pos[s] = Length(s)
  THEN [state |-> <<>>, pos |-> pos[s], exited |-> TRUE]
  ELSE [state |-> <<[pc |-> Does(s, pos[s] + 1).pc, rd |-> Does(s, pos[s] + 1).rd,
                     is_exit |-> FALSE]>>,
        pos |-> pos[s] + 1, exited |-> FALSE]

StepOf(s) == IF machine[s].kind = "spike" THEN StepSpike(s) ELSE StepInProcess(s)

\* The executors of the given sides step.
Step(stepped) ==
  /\ state' = [s \in Sides |-> IF s \in stepped THEN StepOf(s).state ELSE state[s]]
  /\ pos' = [s \in Sides |-> IF s \in stepped THEN StepOf(s).pos ELSE pos[s]]
  /\ exited' = [s \in Sides |-> IF s \in stepped THEN StepOf(s).exited ELSE exited[s]]

-----------------------------------------------------------------------------
(* compare_lockstep. *)

lockstep_fetch ==
  /\ mode = "lockstep" /\ phase = "loop" /\ Running
  /\ matched < Limit
  /\ Step(Sides)
  /\ attempts' = 0
  /\ phase' = IF matched = 0 THEN "align" ELSE "compare"
  /\ UNCHANGED <<ringVars, mode, machine, matched, index, search, result, offset, overflowed>>

Misaligned ==
  /\ attempts < MaxAttempts
  /\ state["ref"] # <<>> /\ state["test"] # <<>>
  /\ state["ref"][1].pc # state["test"][1].pc

lockstep_align ==
  /\ mode = "lockstep" /\ phase = "align"
  /\ Misaligned
  /\ Step({IF state["ref"][1].pc < state["test"][1].pc THEN "ref" ELSE "test"})
  /\ attempts' = attempts + 1
  /\ UNCHANGED <<ringVars, mode, phase, machine, matched, index, search, result, offset,
                 overflowed>>

lockstep_aligned ==
  /\ mode = "lockstep" /\ phase = "align"
  /\ ~Misaligned
  /\ phase' = "compare"
  /\ offset' = [s \in Sides |-> pos[s] - 1]
  /\ UNCHANGED <<ringVars, mode, machine, progress, matched, index, search, result, overflowed>>

lockstep_compare ==
  /\ mode = "lockstep" /\ phase = "compare" /\ Running
  /\ LET r == state["ref"]
         t == state["test"]
     IN  \/ /\ r # <<>> /\ t # <<>> /\ ~compare_states(r[1], t[1])
            /\ Report("differs", matched) /\ UNCHANGED <<matched, phase>>
         \/ /\ r # <<>> /\ t # <<>> /\ compare_states(r[1], t[1])
            /\ matched' = matched + 1
            /\ IF r[1].is_exit \/ t[1].is_exit
                 THEN Report("same", matched + 1) /\ UNCHANGED phase
                 ELSE phase' = "loop" /\ UNCHANGED result
         \/ /\ r # <<>> /\ t = <<>>
            /\ Report("expected_tail", matched) /\ UNCHANGED <<matched, phase>>
         \/ /\ r = <<>> /\ t # <<>>
            /\ Report("actual_tail", matched) /\ UNCHANGED <<matched, phase>>
         \/ /\ r = <<>> /\ t = <<>>
            /\ Report("same", matched) /\ UNCHANGED <<matched, phase>>
  /\ UNCHANGED <<ringVars, mode, machine, progress, index, search, offset, overflowed>>

-----------------------------------------------------------------------------
(* compare_block_vs_linear: the reference runs blocks into the ring, the   *)
(* test steps.                                                             *)

\* run_block up to the first instruction: buffered_diff_reset, a target one
\* instruction away, clear_exit, and trace_init in rv_execute_from.
run_block ==
  /\ mode = "block" /\ phase = "loop" /\ Running
  /\ matched < Limit
  /\ ~exited["ref"]
  /\ trace_init
  /\ phase' = "block"
  /\ UNCHANGED <<mode, machine, progress, matched, index, search, result, offset, overflowed>>

\* The generated code begins an instruction of the block...
block_instr ==
  /\ phase = "block"
  /\ LET k == Least(pos["ref"] + 1, Length("ref"))
     IN  /\ trace_pc(Does("ref", k).pc)
         /\ pos' = [pos EXCEPT !["ref"] = k]
         /\ phase' = IF Does("ref", k).rd = NoValue THEN "instr_done" ELSE "instr"
  /\ UNCHANGED <<mode, machine, exited, state, attempts, matched, index, search, result, offset,
                 overflowed>>

\* ... and writes its register.
block_reg_write ==
  /\ phase = "instr"
  /\ trace_reg_write(Does("ref", pos["ref"]).rd)
  /\ phase' = "instr_done"
  /\ UNCHANGED <<mode, machine, progress, matched, index, search, result, offset, overflowed>>

\* The block goes on, unless the guest has exited.
block_goes_on ==
  /\ phase = "instr_done"
  /\ pos["ref"] < Length("ref")
  /\ phase' = "block"
  /\ UNCHANGED <<ringVars, mode, machine, progress, matched, index, search, result, offset,
                 overflowed>>

\* Mutated form: the first entry is taken for one that was compared before.
run_block_end_stale ==
  /\ phase = "instr_done"
  /\ trace_fini
  /\ exited' = [exited EXCEPT !["ref"] =
                  pos["ref"] = Length("ref") /\ machine["ref"].exit_code # 0]
  /\ index' = 1
  /\ overflowed' = (overflowed \/ dropped' > 0)
  /\ phase' = "entries"
  /\ UNCHANGED <<mode, machine, pos, state, attempts, matched, search, result, offset>>

\* The end of the block: trace_fini, and the rest of run_block.  An overflow
\* is reported on stderr only.
run_block_end ==
  /\ phase = "instr_done"
  /\ trace_fini
  /\ exited' = [exited EXCEPT !["ref"] =
                  pos["ref"] = Length("ref") /\ machine["ref"].exit_code # 0]
  /\ index' = 0
  /\ overflowed' = (overflowed \/ dropped' > 0)
  /\ phase' = "entries"
  /\ UNCHANGED <<mode, machine, pos, state, attempts, matched, search, result, offset>>

\* The loop over the entries ends.
block_compared ==
  /\ phase = "entries" /\ Running
  /\ index >= count \/ matched >= Limit
  /\ phase' = "loop"
  /\ UNCHANGED <<ringVars, mode, machine, progress, matched, index, search, result, offset,
                 overflowed>>

\* One entry against one step.  get_entry never marks an exit.
block_compare_entry ==
  /\ phase = "entries" /\ Running
  /\ index < count /\ matched < Limit
  /\ Step({"test"})
  /\ LET b == get(index)
         t == state'["test"]
     IN  \/ /\ t = <<>>
            /\ Report("expected_tail", matched) /\ UNCHANGED matched
         \/ /\ t # <<>> /\ ~compare_states(b, t[1])
            /\ Report("differs", matched) /\ UNCHANGED matched
         \/ /\ t # <<>> /\ compare_states(b, t[1])
            /\ matched' = matched + 1
            /\ IF t[1].is_exit THEN Report("expected_tail", matched) ELSE UNCHANGED result
  /\ index' = index + 1
  /\ UNCHANGED <<ringVars, mode, phase, machine, attempts, search, offset, overflowed>>

\* run_block returns 0: the block executor has finished.
block_finished ==
  /\ mode = "block" /\ phase = "loop" /\ Running
  /\ matched < Limit
  /\ exited["ref"]
  /\ Step({"test"})
  /\ IF state'["test"] # <<>> THEN Report("actual_tail", matched) ELSE Report("same", matched)
  /\ UNCHANGED <<ringVars, mode, phase, machine, attempts, matched, index, search, offset,
                 overflowed>>

-----------------------------------------------------------------------------
(* compare_checkpoint.  Both runners start at the entry point, so that     *)
(* align_pcs returns at once.                                              *)

\* RunSnapshot of machine s after t instructions, or at its exit.
run_to_target(s, t) ==
  LET k == Least(t, Length(s))
      ended == k = Length(s)
  IN  [instret |-> k, regs |-> Does(s, k).rd, pc |-> Does(s, k).pc, has_exited |-> ended,
       exit_code |-> IF ended THEN machine[s].exit_code ELSE 0]

\* regs_match and the conditions on pc, exits and errors that run_batch and
\* checkpoint_match share.
SnapshotsMatch(r, t) ==
  /\ r.regs = t.regs
  /\ r.has_exited = t.has_exited
  /\ r.exit_code = t.exit_code
  /\ r.has_exited \/ r.pc = t.pc

\* Mutated form: the registers are forgotten.
checkpoint_match_pc(target) ==
  LET r == run_to_target("ref", target)
      t == run_to_target("test", target)
  IN  r.instret = target /\ t.instret = target /\ r.has_exited = t.has_exited /\ r.pc = t.pc

checkpoint_match(target) ==
  LET r == run_to_target("ref", target)
      t == run_to_target("test", target)
  IN  r.instret = target /\ t.instret = target /\ SnapshotsMatch(r, t)

\* run_batch and the test of states_match.
checkpoint_batch ==
  /\ mode = "checkpoint" /\ phase = "loop" /\ Running
  /\ matched < Limit
  /\ LET size == Least(Limit - matched, Interval)
         after == [s \in Sides |-> Least(pos[s] + size, Length(s))]
         executed == [s \in Sides |-> after[s] - pos[s]]
         r == run_to_target("ref", after["ref"])
         t == run_to_target("test", after["test"])
     IN  /\ pos' = after
         /\ \/ /\ executed["ref"] = executed["test"] /\ SnapshotsMatch(r, t)
               /\ matched' = matched + executed["ref"]
               /\ IF r.has_exited THEN Report("same", matched') ELSE UNCHANGED result
               /\ UNCHANGED <<phase, low, high>>
            \/ /\ ~(executed["ref"] = executed["test"] /\ SnapshotsMatch(r, t))
               /\ phase' = "bisect"
               /\ low' = 0
               /\ high' = Least(Least(executed["ref"], executed["test"]), size)
               /\ UNCHANGED <<matched, result>>
  /\ UNCHANGED <<ringVars, mode, machine, exited, state, attempts, index, offset, overflowed>>

checkpoint_bisect ==
  /\ phase = "bisect" /\ Running
  /\ low < high
  /\ LET mid == (low + high + 1) \div 2
     IN  IF checkpoint_match(matched + mid)
           THEN low' = mid /\ UNCHANGED high
           ELSE high' = mid - 1 /\ UNCHANGED low
  /\ UNCHANGED <<ringVars, mode, phase, machine, progress, matched, index, result, offset,
                 overflowed>>

checkpoint_divergence ==
  /\ phase = "bisect" /\ Running
  /\ low = high
  /\ Report("differs", matched + low)
  /\ UNCHANGED <<ringVars, mode, phase, machine, progress, matched, index, search, offset,
                 overflowed>>

-----------------------------------------------------------------------------
\* Every comparison stops at max_instrs.
limit_reached ==
  /\ phase = "loop" /\ Running
  /\ matched >= Limit
  /\ Report("same", matched)
  /\ UNCHANGED <<ringVars, mode, phase, machine, progress, matched, index, search, offset,
                 overflowed>>

DiffInit ==
  /\ RingInit
  /\ mode \in Modes
  /\ machine \in Pairs
  /\ machine["ref"].kind = "spike" => mode = "lockstep"
  /\ mode # "checkpoint" => \A s \in Sides : Does(s, Length(s)).rd = NoValue
  /\ phase = "loop"
  /\ pos = [s \in Sides |-> 0] /\ exited = [s \in Sides |-> FALSE]
  /\ state = [s \in Sides |-> <<>>] /\ attempts = 0
  /\ matched = 0 /\ index = 0 /\ low = 0 /\ high = 0
  /\ result = [kind |-> "running", index |-> 0]
  /\ offset = [s \in Sides |-> 0] /\ overflowed = FALSE

DiffNext ==
  \/ lockstep_fetch
  \/ lockstep_align
  \/ lockstep_aligned
  \/ lockstep_compare
  \/ run_block
  \/ block_instr
  \/ block_reg_write
  \/ block_goes_on
  \/ run_block_end
  \/ block_compared
  \/ block_compare_entry
  \/ block_finished
  \/ checkpoint_batch
  \/ checkpoint_bisect
  \/ checkpoint_divergence
  \/ limit_reached

DiffSpec == DiffInit /\ [][DiffNext]_diffVars

-----------------------------------------------------------------------------
(* Properties. *)

\* The j-th instructions after alignment agree.
AgreeAt(j) ==
  Does("ref", offset["ref"] + j + 1) = Does("test", offset["test"] + j + 1)

\* Instruction by instruction and block by block, the index reported is that
\* of the first instruction on which the machines differ, and nothing is
\* reported as matching that does not (compare_lockstep,
\* compare_block_vs_linear through the ring buffer), as long as every block
\* fits the ring.
FirstDifference ==
  ~Running /\ mode # "checkpoint" /\ ~overflowed =>
    /\ \A j \in 0 .. result.index - 1 : AgreeAt(j)
    /\ result.kind = "differs" => ~AgreeAt(result.index)

\* Both machines get as far as k instructions, and are then in the same state.
AgreeAfter(k) ==
  /\ \A s \in Sides : k <= Length(s)
  /\ Does("ref", k).rd = Does("test", k).rd
  /\ k < Length("ref") /\ k < Length("test") => Does("ref", k).pc = Does("test", k).pc
  /\ k = Length("ref") <=> k = Length("test")
  /\ k = Length("ref") => machine["ref"].exit_code = machine["test"].exit_code

\* The bisection ends at a boundary: the machines agree after the reported
\* number of instructions and differ one instruction later
\* (compare_checkpoint).
BisectsToBoundary ==
  mode = "checkpoint" /\ result.kind = "differs" =>
    /\ result.index > 0 => AgreeAfter(result.index)
    /\ ~AgreeAfter(result.index + 1)

Equal ==
  /\ machine["ref"].trace = machine["test"].trace
  /\ machine["ref"].exit_code = machine["test"].exit_code

Divergence == result.kind \in {"differs", "expected_tail", "actual_tail"}

\* get_entry never marks an exit: by blocks, the instruction with which a
\* guest fails is taken for a tail of the reference.
FailingTail ==
  /\ mode = "block" /\ machine["ref"].exit_code # 0
  /\ result = [kind |-> "expected_tail", index |-> Length("ref") - 1]

\* Machines that do the same, both run in process, are not reported as
\* diverging as long as blocks fit the ring, in lockstep, by blocks or by
\* checkpoints; the one report there is, is that of the exit of a failing
\* guest by blocks, at that exit and never before.
EqualMachinesAgree ==
  Equal /\ machine["ref"].kind = "inprocess" /\ ~overflowed /\ Divergence => FailingTail
=============================================================================
