----------------------------- MODULE TraceRing -----------------------------
(***************************************************************************)
(* The ring buffer of the buffered diff tracer: its writer, the C code of  *)
(* crates/rvr-emit/src/c/tracers/buffered_diff.rs called by the generated  *)
(* code, and its reader, BufferedDiffTracer of                             *)
(* crates/rvr-state/src/tracer/state.rs.                                   *)
(*                                                                         *)
(* An entry is built in `current` while its instruction executes and goes  *)
(* into the buffer when the next instruction begins, or when the call of   *)
(* rv_execute_from ends.                                                   *)
(*                                                                         *)
(* tracing   the generated code has control                                *)
(* history   ghost: what the instructions of this call did, in order       *)
(***************************************************************************)
EXTENDS Integers, Sequences

CONSTANTS Capacity,   \* the size of the buffer
          Values,     \* addresses, register values, memory accesses
          MaxTrace    \* bound on the number of instructions in a call

NoValue == 0

ASSUME RingAssumption ==
  Capacity \in Nat \ {0} /\ MaxTrace \in Nat /\ NoValue \notin Values

VARIABLES buffer, head, count, dropped, current, current_valid, tracing, history

ring == <<buffer, head, count, dropped, current, current_valid>>
ringVars == <<ring, tracing, history>>

DiffEntry ==
  [pc : Values \cup {NoValue}, rd : Values \cup {NoValue}, mem : Values \cup {NoValue}]

Started(v) == [pc |-> v, rd |-> NoValue, mem |-> NoValue]

-----------------------------------------------------------------------------
(* The writer. *)

\* trace_init, and BufferedDiffTracer::reset: the buffer keeps old entries.
Emptied ==
  /\ head' = 0 /\ count' = 0 /\ dropped' = 0
  /\ current_valid' = FALSE
  /\ history' = <<>>
  /\ UNCHANGED <<buffer, current>>

\* Mutated form: the oldest entry is overwritten in silence.
flush_silent ==
  /\ buffer' = [buffer EXCEPT ![head] = current]
  /\ head' = (head + 1) % Capacity
  /\ count' = IF count < Capacity THEN count + 1 ELSE count
  /\ UNCHANGED dropped

\* The finished entry goes into the buffer, over the oldest one when full.
flush ==
  /\ buffer' = [buffer EXCEPT ![head] = current]
  /\ head' = (head + 1) % Capacity
  /\ \/ count < Capacity /\ count' = count + 1 /\ UNCHANGED dropped
     \/ count >= Capacity /\ dropped' = dropped + 1 /\ UNCHANGED count

trace_init ==
  /\ ~tracing
  /\ tracing' = TRUE
  /\ Emptied

trace_pc(v) ==
  /\ tracing
  /\ Len(history) < MaxTrace
  /\ \/ current_valid /\ flush
     \/ ~current_valid /\ UNCHANGED <<buffer, head, count, dropped>>
  /\ current' = Started(v)
  /\ current_valid' = TRUE
  /\ history' = Append(history, Started(v))
  /\ UNCHANGED tracing

\* An effect of the instruction that is executing; a later one replaces an
\* earlier one, as the store of an atomic does its load.
Record(field, v) ==
  /\ tracing
  /\ current_valid
  /\ current' = [current EXCEPT ![field] = v]
  /\ history' = [history EXCEPT ![Len(history)] = [history[Len(history)] EXCEPT ![field] = v]]
  /\ UNCHANGED <<buffer, head, count, dropped, current_valid, tracing>>

trace_reg_write(v) == Record("rd", v)

trace_mem_access(v) == Record("mem", v)

\* Mutated form: the last instruction stays in `current`.
trace_fini_unflushed ==
  /\ tracing
  /\ tracing' = FALSE
  /\ current_valid' = FALSE
  /\ UNCHANGED <<buffer, head, count, dropped, current, history>>

trace_fini ==
  /\ tracing
  /\ tracing' = FALSE
  /\ \/ current_valid /\ flush
     \/ ~current_valid /\ UNCHANGED <<buffer, head, count, dropped>>
  /\ current_valid' = FALSE
  /\ UNCHANGED <<current, history>>

-----------------------------------------------------------------------------
(* The reader. *)

\* BufferedDiffTracer::reset, called between two executions.
reset ==
  /\ ~tracing
  /\ Emptied
  /\ UNCHANGED tracing

start == IF count >= Capacity THEN head ELSE 0

\* BufferedDiffTracer::get, for an index below the count.
get(index) == buffer[(start + index) % Capacity]

-----------------------------------------------------------------------------
\* BufferedDiffTracer::setup with a buffer of default entries.
RingInit ==
  /\ buffer = [i \in 0 .. Capacity - 1 |-> Started(NoValue)]
  /\ head = 0 /\ count = 0 /\ dropped = 0
  /\ current = Started(NoValue)
  /\ current_valid = FALSE
  /\ tracing = FALSE
  /\ history = <<>>

RingNext ==
  \/ trace_init
  \/ \E v \in Values : trace_pc(v) \/ trace_reg_write(v) \/ trace_mem_access(v)
  \/ trace_fini
  \/ reset

RingSpec == RingInit /\ [][RingNext]_ringVars

-----------------------------------------------------------------------------
\* Outside a call the reader gets exactly the last instructions of the call,
\* oldest first, each with its effects, as many as the buffer holds; `dropped`
\* is the number of those it does not get (get, has_overflow, dropped_count).
RingKeepsLast ==
  ~tracing =>
    /\ count + dropped = Len(history)
    /\ dropped > 0 => count = Capacity
    /\ count <= Capacity
    /\ \A i \in 0 .. count - 1 : get(i) = history[dropped + i + 1]
=============================================================================
