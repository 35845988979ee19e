# A verification project for rvr

rvr translates a RISC-V program, ahead of time, into C (or x86-64 or arm64
assembly), compiles it into a shared object and runs it inside the host process:
freely, up to a number of instructions, under a debugger, or side by side with a
reference machine. This directory holds TLA+ modules that model the path from
the bytes of a program to the running generated code and the runner around it,
TLC configurations that check them on small instances, and TLAPS proofs for
programs, images, machines, memories and host programs of any size.

Paths below are relative to `src/crates/`.

## The system

| Part | State | Operations | What can go wrong |
|---|---|---|---|
| Instruction table (`rvr-cfg/src/instruction_table.rs`) | slots indexed by address, entry points | add segment, decode | decoding out of step, addresses outside the table |
| Control-flow analysis (`rvr-cfg/src/analysis/`) | register value sets, worklist, successor and predecessor maps, leaders | collect targets, propagate constants, guess returns | a missed edge makes a block look as if it had one predecessor |
| Block table (`rvr-cfg/src/block_table.rs`) | blocks, `absorbed_to_merged`, `block_continuations`, `taken_inlines` | build, `merge_blocks`, `tail_duplicate`, `form_superblocks`, `fix_stale_mappings` | each pass rewrites what the last one built; hash-map iteration order |
| Lifting (`rvr/src/pipeline.rs`) | block IR | `lift_to_ir`, `lift_to_ir_as_single_blocks` | terminators inside a block that are not the ones that run on |
| C emitter (`rvr-emit/src/c/`) | one C function per block, dispatch table | jumps, branches, side exits, inlined taken paths, count updates, suspension checks | wrong resume address, a count dropped on one path, a loop without a check |
| x86-64 and arm64 backends (`rvr-emit/src/x86/`, `arm64/`) | the same, linear code | the same | the same |
| Instruction set (`rvr-isa/src/`) | none: decoders and lifters | RV32/64 IMAC, Zba, Zbb, Zbs, Zicond, Zicsr | sign extension, shift masks, division corner cases |
| Runner and state (`rvr/src/runner/`, `rvr-state/src/`) | `RvState`, guarded memory, suspender, tracer | prepare, run, run to a count, call, reset, save, load | stale state carried into the next run |
| GDB target and interactive debugger (`rvr/src/gdb/`, `rvr/src/commands/run.rs`) | breakpoints, execution mode | continue, step, stop reasons | breakpoint and step interacting with exit |
| Tracers (`rvr-emit/src/c/tracers/`, `rvr-state/src/tracer/`) | counters, ring buffer | init, trace, fini | wrap-around, stale entries |
| Differential testing (`rvr/src/test_support/diff/`) | two machines, positions | lockstep, block, checkpoint with bisection | two machines that do not stop at the same place |
| System calls and HTIF (`rvr-emit/src/c/syscalls.rs`, `htif.rs`) | `brk`, exit flags | exit, brk, mmap, write | pointer arithmetic at the limits |
| Guest runtime (`rvr-rt/src/`) | bump pointer, interrupt flag | allocate, enter and leave critical section | nesting, limits |
| ELF loading, guarded memory (`rvr-elf/src/image.rs`, `rvr-state/src/memory.rs`) | segments, mappings | validate, load, map at a fixed address | boundaries, overlaps |
| Command line, metrics | files | print | input and output, not modelled |

The parts interact in one line: ELF image, instruction table, analysis, block
table, lifted blocks, C functions, shared object, runner. The debugger and the
differential tests are clients of the runner; they depend on two promises of the
generated code, that it **gives control back on time** and that it **can be
resumed where it stopped**. Both promises rest on the block table being right.
That line is the core of this project. Beside it stand the data: decoding, lifting
and the two backends that are modelled (C and arm64), the runner that owns the
machine state, and the value analysis that finds the targets of computed jumps.

What correctness means here:

* The generated code executes the guest program: no instruction is skipped,
  repeated or reordered, whatever was merged, duplicated, chained or inlined.
* A suspended guest can be resumed at the saved pc.
* `rv_execute_from` returns at the target or less than a block after it, and it
  always returns.
* The number of instructions reported is the number executed.
* Every instruction is decoded as what it is, and its C and its arm64 code do to
  registers, memory and reservation what the instruction set says.
* A run starts from the program's image whatever happened before it, and the
  library and its runner mean the same bytes by `RvState`.
* The analysis never excludes a value a register can have.

## The modules

The argument has two halves. `EmittedCode` says which images are **well formed**:
the sequence of guest addresses in each function runs on and leaves as the
program does, and every address control can come to begins a function. TLAPS
proves that *every* well-formed image, of any size and in any counting mode,
implements the guest machine, suspends on time and counts exactly, and that the
pipeline emits well-formed images of *every* program under `AnalysisMode::Basic`.
For the transforms of the full analysis TLC checks that the pipeline emits
well-formed images, for every small program, and also runs some of them from end
to end; a theorem carries the result of that check over to the execution.

| Module | Models | Correspondence |
|---|---|---|
| `Program` | decoded instructions | An instruction is its terminator and whether its statements may set `has_exited`; addresses are 1..N, with 0 and N + 1 standing for addresses without an instruction. |
| `Interpreter` | the guest machine | The abstract specification: one instruction per step. Data is abstracted to the outcome of conditions and to the stack of return addresses. |
| `ControlFlow` | `analysis/mod.rs` | Operators for targets, call-return map, successors, leaders, predecessors. The worklist is its least fixpoint. |
| `BlockTable` | `block_table.rs`, lifting | One operator per pass and one action per pass, in the order of `BlockTable::optimize`. Loops over the sorted block vector are folds in address order; loops over hash maps are nondeterministic. The configuration (`EmitConfig`) is a variable chosen initially. |
| `EmittedCode` | the generated C | `where`, `blk`, `idx` are the place in the generated code; `acc` is the C parameter `instret`; `pc`, `instret`, `has_exited`, `target_instret` are fields of `RvState`. One action per way an instruction is rendered: within a block, side exit, last fall, jump, branch, return, exit, exiting statement, opening of an inlined path. |
| `Recompiler` | `recompiler.rs`, `pipeline.rs` | Composition: the passes, then `Emit`, then the execution of what was emitted. |
| `DebugSession` | `gdb/target.rs`, `commands/run.rs` | Extends `EmittedCode` with the two debuggers as its host: `breakpoints`, `exec_mode`, `exit_code`, and what the user is told. One action per request, the start and the end of `run_until_stop` and `execute_step`, and the guest in between. |
| `TraceRing` | the buffered diff tracer and its reader | One action per C function; `get` is the reader's index arithmetic. The ghost `history` is what the instructions of the call did. |
| `DiffCompare` | `test_support/diff/` | Extends `TraceRing` with two machines, their executors and the lockstep, block and checkpoint comparisons. A machine is the sequence of what its instructions do and an exit code. |
| `Decode` | `rvr-isa/src/extensions/*` (decoders), `encode.rs` | Operators with the names of the functions, on the fields of a word; the registry tries the extensions in turn. |
| `Encoding` | the RISC-V manual | Reference: for every instruction the layout of its bits and its legal operands, independent of the decoders. |
| `Word`, `Ir`, `Lift` | `rvr-ir/src/`, the lift functions | Registers of `RegBytes` bytes of `Byte` bits; the IR constructors with their constant folding; one operator per lift function, the syscall tables included. |
| `CCode` | `c/emitter/expr.rs`, `c/header/`, `c/syscalls.rs`, `c/htif.rs` | What the rendered C does: a recursive function over IR. Undefined behaviour in C is a status of its own, which the properties accept only for an access to a bad address. |
| `Isa` | the RISC-V manual | Reference: one step of the instruction set, stated on integers and bit positions. |
| `Hart` | | One hart that executes lifted and rendered instructions in any order from a scenario's set. |
| `Arm64` | `rvr-emit/src/arm64/` | The emitter: one operator per function, from IR to a sequence of host instructions, with the cold-register cache, spill slots and labels it carries along. |
| `Arm64Cpu` | the Arm manual, `prologue.rs`, `dispatch.rs` | The host instructions the emitter uses, a call to C (all registers the call standard does not preserve become scratch), and which immediates have an encoding. |
| `Arm64Hart` | | `Translate` emits the code of one instruction, `Execute` runs it from any host state that represents a guest state. |
| `StateLayout` | `c/header/state.rs`, `layout.rs`, `rvr-state/src/state.rs`, the tracer structs | Structs as field sequences laid out by the C rules; the four places that fix the layout of the same struct (generated C, Rust, the offsets of the assembly backends, the tracers) are modelled independently. |
| `Runner` | `rvr/src/runner/`, `rvr-elf/src/image.rs`, `rvr-state/src/` | One action per operation of `Runner`; memory as cells; a saved state as a file that may be damaged. `rv_execute_from` leaves either everything the guest can write changed, or only pc and count, and the break anywhere the guest may ask for it. |
| `ValueFlow` | `rvr-cfg/src/analysis/`, `instruction_table.rs` | The linear scan as operators over the register file before each slot, the worklist as an action taken in any order, then a guest that executes the program beside the result. |
| `GuestRuntime` | `rvr-rt/src/alloc.rs`, `critical.rs` | One action per function, `usize` arithmetic modulo its width; holds its own theorem. |
| `EmittedCodeProofs`, `RecompilerProofs`, `DebugSessionProofs`, `DiffCompareProofs`, `RunnerProofs`, `RunnerStoreProofs`, `ValueFlowProofs` | | the theorems about the module of the same name; `DiffCompareProofs` holds those about `TraceRing` too, and `RunnerStoreProofs` continues `RunnerProofs` |
| `MC*` | | instances for TLC |

The ghost variables `retired` and `launch` record the number of guest
instructions executed and the count at the last call of `rv_execute_from`.

## The runs

| Run | Properties | Instance |
|---|---|---|
| `compile` | `EmitsWellFormed`, `LinearBlocksWellFormed` | All programs of five instructions over falls, jumps, branches and exits, and all of four over calls and returns as well, followed by an exit; superblocks on, off, and `AnalysisMode::Basic`. |
| `execute` | `ImplementsInterpreter` | Seven programs that exercise each transform, and a broken chain of mappings, executed block-wise; all three-instruction programs over nine instructions, executed in per-instruction mode. |
| `emitted` | `TypeOK`, `ResumesInPlace`, `CountableExact`, `AlwaysReturns`, `ImplementsInterpreter`, `SuspendsOnTime` | Six images with every kind of function in modes off, count and suspend; all single-instruction images of small programs in per-instruction mode. |
| `debug` | `StepsExactly`, `ExitsReported`, `InteractiveContinueStops` | Both debuggers, breakpoints anywhere, steps of 0 to 2 instructions, over four programs emitted per instruction, one emitted as blocks with and without suspension, and one with an inlined taken path. |
| `diff` | `RingKeepsLast`, `FirstDifference`, `BisectsToBoundary`, `EqualMachinesAgree` | All pairs of machines of up to four instructions, Spike or in-process, blocks of any length into a ring of two entries. |
| `decode` | `DecodesEveryInstruction`, `DecodesNothingElse`, `OneClaimant` | All 16-bit words; the encoding of every legal instruction with corner operands; 32-bit words over 15 opcodes and 30 values of funct7; truncated words. RV32 and RV64. |
| `hart` | `ImplementsIsa`, `StopsOnlyOnBadAccess`, `ScAfterLr`, `BrkInRange`, `MmapIsFresh` | Every instruction once on corner operands, each coincidence of registers and x0; loads and stores in the three address modes; sequences of four of lr, sc, stores and atomics; sequences of three Linux calls; host calls through `tohost`, with their fields inside the memory, across its end and outside. RV64, RV32, and RV32 with a memory of all a register addresses. |
| `arm64` | `Assembles`, `ImplementsIsa`, `StopsOnlyOnBadAccess`, `SuspendsOnTime`, `TraceIsExact`, `HostCallsAgreeWithC` | The arm64 code of the same instructions except packing, brev8, zip, unzip, csr writes, mret, fence.i and the compressed forms other than c.beqz and c.bnez (they have the IR of the full ones); operands hot, cold, mixed and coinciding; each address mode and counting mode, traced and not, ecalls with many and with few hot registers, the same host calls, and instructions with a gap or with nothing behind them. |
| `runner` | `RunsStartFresh`, `RunKeepsLimit`, `LoadRestores`, `AcceptedImages`, `MemoryFenced`, `LayoutsAgree` | A debugger and a benchmark on four kinds of runner, and a host that saves and restores on one; all pairs of 48 program headers on 32-bit and 64-bit machines; fixed addresses 0..8 for the state and 0..4 for memory; every library whose tracer and count go together. |
| `value_flow` | `ValuesCovered`, `JumpsLandOnLeaders`, `ReachesFixpoint` | 655 images with computed jumps, jump tables, calls through registers and loops, four of them for what `Followed` excepts; every worklist order, eight steps of the guest. |
| `shape_return_site` | `InternalTerminators` (violated) | See "Shapes of program the transforms get wrong". |
| `layout` | `LayoutsAgree` (violated) | See "The layout of RvState". |

**Bounds.** `N` = 5 is the smallest size at which merging, duplication into two
predecessors and a superblock with a chain can meet in one program. `TailDupSize`,
`SuperblockDepth` and `TakenInlineSize` are 2 in `compile`, so that blocks on
either side of each limit occur, and 4 in the other runs. `MaxTarget` bounds the
targets the host sets, `MaxRetired` the length of a run and `MaxDepth` the call
depth; `MaxStep` the argument of the step command. In `diff` the ring holds two
entries and a block up to four (`MaxTrace`), so that it wraps and overflows;
`Limit` = 5 goes past every exit, `Interval` = 3 leaves room for a bisection of two
steps, and `MaxAttempts` = 3 stands for the 256 alignment steps. The instance reaches re-entry after suspension at every position of every
image. `CHECK_DEADLOCK FALSE` is set since a program that has exited, and a
compilation that is finished, stop.

In `hart` a byte has 2 bits for RV64 and 4 for RV32, so that registers have 16 bits
in both; a third instance, for calls and addresses at the end of the address space,
is RV32 with bytes of 2 bits. In `arm64` a byte has 2, which gives RV64 registers of
16 bits and RV32 registers of 8 on a host of 16. That scales every width and every mask derived
from one: a shift by the register width, a sign bit, the boundary between word and
double word all exist. Memory has 64 bytes and a page 4; for RV32 registers of 8 bits it has 256, all that a
register addresses, so that the break, a mapping and an address can wrap. An add immediate of arm64
has 3 bits instead of 12, so that all its forms occur. Operands are zero, one, the
largest, the smallest, minus one and a mixed pattern.

In `runner` memory has five cells and a chunk of a saved state two, so that the last
chunk is shorter; 2^64 is 8 cells and 2^32 is 4, so that segments reach and pass
both; `MAX_SEGMENTS` is 2 instead of 8 and a program of three segments is refused;
counts go to 2 (`MaxInstret`). In `value_flow` a register has at most two values
(`MAX_VALUES`) instead of 16, so that sets overflow, a jump table at most three entries
(`MAX_JUMP_TABLE_SCAN`) instead of 256, and the iteration limit is one per address
instead of 20 (`MAX_ITERATIONS_MULTIPLIER`); the guest puts one of `Wild` in a register
whose value the analysis does not know.

**Fairness.** `FairSpec` assumes weak fairness of the generated code alone: once
called, it is executed by the host processor until it returns. Nothing is assumed
of the host, and the guest's branch outcomes are arbitrary. `AlwaysReturns` is about
programs without calls: a return without a frame is outside the guest model, and
would look like a guest that never returns.

## The proofs

Every theorem is about the module the runs check and holds for all values of the
constants that satisfy the named assumptions, which say no more than: `N` is
positive, bounds are natural numbers (`NAssumption`, `BoundsAssumption`,
`RunBoundsAssumption`, `LimitsAssumption`), entry points are addresses
(`EntryPointsAssumption`), the ring has a slot (`RingAssumption`), a batch of the
checkpoint comparison has an instruction and Spike is only ever the reference
(`DiffAssumption`), memory, chunks and guard zones are not empty and 2^64 is at
least twice 2^32 (`RunnerAssumption`), and the fields of a program header are
unsigned numbers (`ScenariosAssumption`). `ValueFlow` assumes of its images that
code and read-only data lie in the address space, RV32 code below the sign bit, and
that immediates are 32-bit (`ImagesAssumption`), and states four facts on powers of
two that the provers do not know (`PowersAssumption`).

**Generated code** (`EmittedCodeProofs`). The images are arbitrary records; that
they are well formed is a conjunct of `Init`.

* `TypeCorrect`: the code is always at an instruction of an existing function.
* `ResumptionCorrect`: whenever the host has control, the dispatch table leads
  to the very address that was saved.
* `Refinement`: every behaviour is a behaviour of `Interpreter`, under the
  mapping that sends a place in the generated code to the guest address it
  renders.
* `SuspensionOnTime`: control comes back only at or after the target, and less
  than the longest path of one function after it.
* `CountExact`: where neither an exiting ecall nor an inlined path drops
  instructions, the count is exact.

The inductive invariant `IInv(F)` speaks of a set of functions *F* that lead only to
each other (`WellFormedOn(F)`; `WellFormed` is the case of all of them). It adds to
`TypeOK` that control stands in one of them, that every return address on the
guest's stack, and the saved pc of a live guest, begins one of them and that no map
leads elsewhere, and that an inlined path is only entered from a function that has
one. Without the facts on return addresses the dynamic jump of a return could end
in the middle of a function; with *F*, nothing need be known of functions that are
never executed. `OnTime` adds that inside a function the target has not been reached;
`CountOK` that the C parameter is the count at the entry of the function.

**The whole pipeline** (`RecompilerProofs`). The theorems above are instantiated for
the image in the hands of the pipeline, with the passes before `Emit` as stuttering
steps of the guest.

* `BasicRefinement`: under `AnalysisMode::Basic` every program of every length,
  compiled in any counting mode and executed under any host, behaves as the
  interpreter says. It rests on `LinearBlocksCorrect`: `build_linear_blocks`, with
  lifting per block or per instruction, always yields a well-formed image.
* `WellFormedImagesRun`: the same whatever transforms were applied, if the emitted
  image is well formed on some set of functions that holds the entry points.
* `RegularRefinement`: the same for a program of none of the shapes below, if its
  *live* functions are well formed. That hypothesis, `[]EmitsWellFormed`, is what
  the run `compile` checks; the theorem says that checking it is enough. Dead
  functions may be wrong: the live ones (`live`) are a set *F* that execution never
  leaves.

**Debuggers** (`DebugSessionProofs`, on `IInv` of all functions, since a debugger may
write any of their addresses into the pc).

* `StepsCorrect`, `ExitsCorrect`, `ContinueCorrect`: `StepsExactly`, `ExitsReported` and
  `InteractiveContinueStops` in every session with any program.

`DebugInv` keeps that invariant until the guest has exited (`Sound`); after a clean exit that
nobody noticed it holds only for per-instruction code under the interactive
debugger, which is where it is needed. `LiveInv` says that a guest that came back
without having exited has reached its target (so `execute_step` and
`run_until_stop` take it rightly for a suspension); `StepInv` that the target
is the count at the request plus what was asked for and not yet passed;
`ContinueInv` that every step of a continue was preceded by the test for a
breakpoint.

**Trace ring and comparisons** (`DiffCompareProofs`).

* `RingCorrect`: for every capacity, number of instructions and sequence of calls
  and resets, the reader of the ring buffer gets exactly the last instructions of
  the call, in order. Its invariant `RingInv` says that the slot written *d* flushes
  ago holds the *d*-th last instruction, with the wrap-around written as a case
  distinction; two lemmas relate that to the `%` of the writer and of the reader.
* `FirstDifferenceCorrect`, `BisectionCorrect`, `EqualMachinesCorrect`: the properties
  of the run `diff` for all machines, limits, intervals and capacities. What is proved
  of the ring holds inside the comparison, which implements `RingSpec` (lemma
  `ImplementsRing`).

`DiffInv` ties the position of each machine to the number of instructions matched:
in lockstep both are that far past their offset; in a block comparison the
reference is a block ahead and the ring holds what lies between (`BlockInv`, by
`RingInv`); during a bisection the machines agree after `low` and differ after `high`
(`CheckpointInv`). `EqualInv` adds that equal machines are in equal
states, and that a failing guest compared by blocks is still short of its exit, so that
the tail reported is that exit and nothing before it.

**Runner** (`RunnerProofs`, `RunnerStoreProofs`).

* `FenceCorrect`, `ImagesCorrect`, `LimitCorrect`: `MemoryFenced`, `AcceptedImages` and
  `RunKeepsLimit` for every library, ELF file and host program. `RunnerInv` adds that
  the break never falls below the initial one, that the initial one is the largest
  end of a segment, and that the suspender's target is the limit the host last
  asked for.
* `RestoreCorrect`: `LoadRestores` for every size of memory and of a chunk. `StoreInv`
  says that the machine has all its registers, x0 is zero, and that the file holds
  the machine it was made from, chunk by chunk, as far as it goes; that the chunks
  put together again are the whole memory is proved by induction over them.
* `FreshCorrect`: `RunsStartFresh`, for every program whose segments have no more
  bytes in the file than in memory (`FileInMemory`). Nothing in
  `validate_segments` checks that: a file part longer than its segment can
  overwrite the next one, and which segment wins then depends on their order. That
  the segments copied one after the other are the image is again by induction
  over the headers.

Induction over a recursive function of the model is done from the least
counterexample (`LeastOf`) on a function that exists by `Iterates`; both are lemmas
of `RunnerProofs`.

**Value analysis** (`ValueFlowProofs`).

* `ValuesSound`, `LeadersSound`: `ValuesCovered` and `JumpsLandOnLeaders` for every image,
  every order of the worklist, every cap on the number of values and every run of the
  guest.

`WorklistInv` says that at an address that waits for no visit the successors of its
*present* state are recorded, and that each of them has a state above the one that
the instruction makes of it: nothing that was merged is lost, since merging only
goes up (`MergeAbove`), and an address whose state changed is in the worklist
again. `GuestInv` adds that the registers of the guest lie in the sets of the
address it is at. One step of the guest is then one edge of the analysis
(`TargetsFollowed`) and one application of `transfer` (`ResultsCovered`), with
arithmetic modulo 2^64 in one and modulo the register width in the other.

The proof needs that the worklist ran empty and that three things the analysis takes
for granted hold (`Granted`, see the departures). Two of them came from
attempts to prove the property without them; the images that refute it then are
among those of the run.

**Guest runtime** (`GuestRuntime`). `RuntimeSafe`: the blocks of the bump allocator lie
in the heap and are disjoint, and critical sections keep interrupts off and restore
them, for every register width, heap size, sequence of layouts and nesting. It
rests on two facts of Rust that the model states: no object is larger than
`isize::MAX`, and a `Layout` rounded up to its alignment is not either. They are why
the unchecked additions of `alloc` cannot wrap past the test against the heap's end.

**Only model-checked.** Liveness (`AlwaysReturns`). `EmitsWellFormed` for the full
analysis: it is about what folds over the sorted block vector compute, pass after
pass, and the prover has no induction for them. `LayoutsAgree`: the libraries are
finitely many, and the run goes through all of them. The properties of `decode`,
`hart` and `arm64`: the lifters, the rendered C and the emitter are recursive
operators over instructions and expressions. `ReachesFixpoint`: the limit of the
worklist is 20 visits per address, and a register set can grow 16 times in each of
31 registers, so that it is a fact about programs and not a theorem.

## Shapes of program the transforms get wrong

`EmitsWellFormed` excludes programs of the shapes that `Recompiler` names. In each
of them the emitted code does not do what the program does:

* `DuplicatesReturnSite`: `pred_is_unconditional_jump` accepts a call as a
  predecessor of its own return site. A small return site that is also a jump
  target is appended behind the call, and the call's jump is rendered as running
  on into it (run `shape_return_site`).
* `DuplicatesMergedHead`: a duplicated block that has itself merged others is
  copied without them.
* `AbsorbsDuplicate`: a superblock appends an absorbed block's own range, not the
  continuations tail duplication gave it.
* `NamesNext(p, "branch")`: the fall-through block of a branch to the next
  instruction has one predecessor and is absorbed; the taken side resolves to the
  head of the superblock.
* `NamesNext(p, "call")`: the same by merging, for a call to the next instruction
  (the usual way to read the pc on old compilers), when the callee returns.
* `DeadBranch`: the one predecessor of an absorbed block need not be the block
  that absorbs it.

In the per-instruction mode every address is a block, but the maps of the
transformed table are still consulted first: a jump to an absorbed address goes
to the head of the block that absorbed it, though `resolve_address` is to "Resolve
an address to its actual target". In the counting
modes a branch with an inlined taken path is not counted, and
an exiting ecall loses the count of its block.

## Debuggers and comparisons

* An exit with code 0 is not an error for `execute_from`. `execute_step` reports a
  completed step, the next one executes the exiting instruction again, and the
  interactive `continue` does so until it is interrupted; the GDB target reports
  `DoneStep` and clears the flag. The doc says "returns false if program exited".
* The GDB target's continue runs over breakpoints ("Continue execution until breakpoint or exit"); the
  interactive one, a loop of steps, does not in per-instruction code.
* The block comparison reports the exit of equal machines that fail as a tail, since
  entries of the ring never carry `is_exit`; `EqualMachinesAgree` allows that one
  report (`FailingTail`). Against Spike the same happens for a clean exit, since the
  in-process executor goes on executing it; the property is about two machines in
  process.
* When a block overflows the ring the comparison goes on with what is left of it;
  `FirstDifference` is stated for blocks that fit.
* The bisection ends at *a* boundary between agreement and difference
  (`BisectsToBoundary`), which is the first one only if machines that have
  diverged stay different.

## The layout of RvState

The generated C, the assembly backends and the Rust runner each have their own
definition of the state struct ("Layout must match the generated C `RvState` struct
exactly.", `rvr-state/src/state.rs:3`). They agree for every library that
`LayoutsAgree` in the run `runner` covers. They do not (run `layout`) for

* a library at fixed addresses, or with the stats, preflight or debug tracer, that
  suspends: the C struct has `target_instret`, the Rust one has not;
* the diff and buffered diff tracers without suspension, the other way round;
* the preflight tracer: the Rust struct has two 32-bit capacities where the C struct
  has two 64-bit counts;
* the ffi, dynamic and Spike tracers: their C structs have fields, the runner that is
  chosen has none.

## Known departures

Each of these is what the code does; the modules model it, and the properties are
stated so that they except it.

Runner and ELF:

* `prepare` ("Load segments and reset state for a fresh run.") leaves the break and the
  csrs as the last run left them; a fixed-address runner keeps the reservation too.
* `load_state` reads the instruction count and drops it; a file that ends early leaves
  registers and memory half written.
* `run_multiple` does not set gp, sp and ra; it and `run_with_counters` lose the target.
* A call with seven or more arguments on an RVE machine panics.
* A segment with more bytes in the file than in memory, or one beyond guest memory,
  is not refused. On a 32-bit machine address plus size is only checked in 64 bits.

Instructions and the C backend:

* csrrw, csrrs and csrrc write rd before they read rs1.
* Bounds mode checks the sign extension of an address and assumes it, which rejects
  the upper half; Wrap mode masks the base register and not the sum.
* An access whose base lies outside the memory, or whose offset carries out of the
  register's range, does not get to the address the sum wraps to (`BeyondPointer`).
* c.jr and c.jalr do not clear bit 0; a shift amount of 32 or more on RV32 is accepted
  (`WideShift`); a load to x0 is not performed; `rdinstret` reads the count as of the start of
  the block; the HINTs c.lui and c.slli with rd = 0 decode to invalid
  (`RefusedHint`).
* A mapping that would end at 2^XLEN or beyond wraps around and is not refused
  (`MmapWraps`); the break itself stays in range.
* The fields of a host call are not checked against the memory in a release build
  (`RequestIsGood`).
* Tracing reads an operand twice.
* A test of the allocator expects `ptr as usize % 16 == 0` (`rvr-rt/src/alloc.rs:123`);
  alignment is relative to the heap's base.

arm64 backend:

* mulhsu reads its operands after writing rd; a branch on two cold registers loads both
  into x17; x17 can be stale after a skipped suspend path; atomic minimum and
  maximum with rd = rs1 overwrite a temporary.
* Packing, bit reversal and csr writes are not implemented; RV32 mulh takes the wrong
  upper bits; a jump to itself is not emitted.
* RV32 adds an offset in a host register of 64 bits, and outside Wrap mode does not
  reduce the sum (`Carries`). An instruction with nothing behind it runs on into the
  next one emitted (`NoneBehind`).
* In per-instruction mode an exit comes before the instruction is counted; the diff
  record of a load to a cold register has the wrong address.

Analysis:

* The linear scan writes x0; RV32 code in the upper half of the address space is not
  recognised; code read as data is not modelled; the guest takes a jump through an
  unknown register only to where the successors say.
* A load whose base has several values is followed for one of them. Jumps of an RV32
  guest are computed in 64 bits: one that wraps around to code is not seen. A computed
  jump that has constant targets at first and none later keeps the edges to the first
  ones, but what the registers hold at the jump is no longer passed along them
  (`Granted`).

Counting:

* In per-instruction mode with superblocks, a branch with an inlined taken path is
  neither counted nor followed by a check; `StepsExactly` and `InteractiveContinueStops` are
  about images without one.

## Not modelled

The x86-64 backend, whose structure is that of arm64 on another host. `read`,
`getrandom` and `clock_gettime`, which copy host data into guest memory. The bytes that a host call prints. The parsing of
ELF files (external: the model starts from program headers, bytes and symbols). The
command line, metrics and benchmarks. Instruction overrides and disassembly. What
tracers other than the buffered diff and the arm64 diff record log. The GDB target's
reads and writes of registers and memory. The generated C comparison program. The C
compiler and the host assembler are trusted.
