------------------------------ MODULE MCRunner ------------------------------
(***************************************************************************)
(* Runner for model checking.  Every library whose runner has a state of   *)
(* the same shape is loaded once.  A debugger and a benchmark drive one    *)
(* runner of each kind, and a host program saves and restores, on a        *)
(* program with two segments.  A library with fixed addresses is loaded at *)
(* every pair of small addresses.  All pairs of program headers over a     *)
(* small address space are loaded, by 32-bit and 64-bit libraries, and run *)
(* by the 32-bit ones when they are accepted.                              *)
(***************************************************************************)
EXTENDS Runner

\* Libraries whose tracer and count have a field in both structs.
Paired ==
  {l \in Library :
     \/ l.tracer = "None" /\ (l.fixed => ~suspends(l.instret))
     \/ l.tracer = "Debug" /\ ~l.fixed /\ ~suspends(l.instret)
     \/ l.tracer \in {"Diff", "BufferedDiff"} /\ ~l.fixed /\ suspends(l.instret)}

\* What host programs do: the debugger, a benchmark, one that saves and restores.
Debugs == {"prepare", "poke", "set_target_instret", "execute_from", "reset_and_run_to_instret", "run"}
Benchmarks == {"set_target_instret", "run", "run_multiple", "run_with_counters", "call"}
Restores == {"run", "save_state", "load_state"}

Phdr(vaddr, memsz, offset, filesz) ==
  [load |-> TRUE, vaddr |-> vaddr, memsz |-> memsz, offset |-> offset, filesz |-> filesz]

\* A data segment with a zero tail, and text after it; a note that is not loaded.
TwoSegments ==
  [phdrs |-> <<Phdr(1, 1, 2, 1), [Phdr(0, 4, 0, 1) EXCEPT !.load = FALSE], Phdr(2, 2, 0, 1)>>,
   bytes |-> <<11, 12, 13>>, entry |-> 2,
   symbols |-> [n \in {"__stack_top", "__global_pointer$"} |-> IF n = "__stack_top" THEN 5 ELSE 6]]

\* More segments than MAX_SEGMENTS.
ThreeSegments == [TwoSegments EXCEPT !.phdrs[2] = Phdr(0, 1, 0, 1)]

\* The same without the linker's symbols.
NoSymbols == [TwoSegments EXCEPT !.symbols = [n \in {} |-> 0]]

Plain == [xlen |-> 64, rve |-> FALSE, tracer |-> "None", instret |-> 1, fixed |-> FALSE]

Driven ==
  {[Plain EXCEPT !.instret = 3], [Plain EXCEPT !.instret = 2, !.tracer = "Diff"],
   [Plain EXCEPT !.rve = TRUE, !.instret = 0], [Plain EXCEPT !.fixed = TRUE, !.xlen = 32, !.rve = TRUE]}

Scenario(l, e, h) == [lib |-> l, elf |-> e, host |-> h, at |-> [state |-> 1, memory |-> 4]]

MCScenarios ==
  {Scenario(l, TwoSegments, {}) : l \in Paired}
  \cup {[Scenario([Plain EXCEPT !.fixed = TRUE], TwoSegments, {"run"})
           EXCEPT !.at = [state |-> s, memory |-> g]] : s \in 0..8, g \in 0..4}
  \cup {Scenario(l, TwoSegments, h) : l \in Driven, h \in {Debugs, Benchmarks}}
  \cup {Scenario([Plain EXCEPT !.instret = 0, !.rve = TRUE], TwoSegments, Restores)}
  \cup {Scenario(Plain, NoSymbols, {"run", "prepare"}), Scenario(Plain, ThreeSegments, {"run"})}
  \cup {Scenario([Plain EXCEPT !.instret = 0, !.xlen = x],
                 [TwoSegments EXCEPT !.phdrs = <<p, q>>], IF x = 32 THEN {"run"} ELSE {}) :
          x \in {32, 64},
          p, q \in {Phdr(v, s, f[1], f[2]) : v, s \in 0..3, f \in {<<0, 1>>, <<3, 0>>, <<3, 1>>}}}
  \cup {Scenario(Plain, [TwoSegments EXCEPT !.phdrs = <<Phdr(v, s, 0, 1)>>], {"run"}) :
          v \in 0..4, s \in 3..4}

\* Every library the command line builds.
AllLibraries == {Scenario(l, TwoSegments, {}) : l \in Library}
=============================================================================
