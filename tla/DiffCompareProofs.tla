------------------------- MODULE DiffCompareProofs -------------------------
(***************************************************************************)
(* Differential testing reports what it should, for all machines, every    *)
(* limit and checkpoint interval and every capacity of the ring: the       *)
(* first difference is reported in lockstep and by blocks, the bisection   *)
(* ends at a boundary, and machines that do the same are not reported.     *)
(* The reader of the ring buffer gets the last instructions in order, for  *)
(* every number of instructions and every sequence of calls and resets.    *)
(***************************************************************************)
EXTENDS DiffCompare, TLAPS

-----------------------------------------------------------------------------
(* The ring. *)

\* The slot that was written d flushes ago.
Slot(d) == IF head >= d THEN head - d ELSE head + Capacity - d

\* The number of entries flushed in this call.
Flushed == IF current_valid THEN Len(history) - 1 ELSE Len(history)

RingType ==
  /\ buffer \in [0 .. Capacity - 1 -> DiffEntry]
  /\ head \in 0 .. Capacity - 1
  /\ count \in 0 .. Capacity
  /\ dropped \in Nat
  /\ current \in DiffEntry
  /\ current_valid \in BOOLEAN
  /\ tracing \in BOOLEAN
  /\ history \in Seq(DiffEntry)

\* The inductive invariant: the entry written d flushes ago is the d-th last
\* instruction flushed.
RingInv ==
  /\ RingType
  /\ current_valid => Len(history) > 0 /\ current = history[Len(history)]
  /\ ~tracing => ~current_valid
  /\ count + dropped = Flushed
  /\ dropped > 0 => count = Capacity
  /\ count < Capacity => head = count
  /\ \A d \in 1 .. count : buffer[Slot(d)] = history[Flushed - d + 1]

\* (x + 1) % Capacity of flush steps from one slot to the next.
LEMMA NextSlot ==
  ASSUME NEW x \in 0 .. Capacity - 1
  PROVE  (x + 1) % Capacity = IF x + 1 = Capacity THEN 0 ELSE x + 1
<1>1. CASE x + 1 = Capacity
  BY <1>1, RingAssumption
<1>2. CASE x + 1 < Capacity
  BY <1>2, RingAssumption
<1> QED BY <1>1, <1>2, RingAssumption

\* The index arithmetic of get wraps around at most once.
LEMMA WrapsOnce ==
  ASSUME NEW x \in 0 .. 2 * Capacity - 1
  PROVE  x % Capacity = IF x < Capacity THEN x ELSE x - Capacity
<1>1. CASE x < Capacity
  BY <1>1, RingAssumption
<1>2. CASE x >= Capacity
  BY <1>2, RingAssumption
<1> QED BY <1>1, <1>2, RingAssumption

\* After d = 1 the slots written before a flush are one flush further away.
LEMMA FlushKeeps ==
  ASSUME RingInv, current_valid, flush
  PROVE  /\ buffer' \in [0 .. Capacity - 1 -> DiffEntry]
         /\ head' \in 0 .. Capacity - 1
         /\ count' \in 0 .. Capacity
         /\ dropped' \in Nat
         /\ count' + dropped' = Len(history)
         /\ dropped' > 0 => count' = Capacity
         /\ count' < Capacity => head' = count'
         /\ \A d \in 1 .. count' : buffer'[Slot(d)'] = history[Len(history) - d + 1]
<1> USE RingAssumption
<1> DEFINE n == Len(history)
<1>0. n \in Nat /\ n > 0 /\ Flushed = n - 1 /\ current = history[n]
  BY DEF RingInv, RingType, Flushed
<1>1. head' = IF head + 1 = Capacity THEN 0 ELSE head + 1
  BY NextSlot DEF flush, RingInv, RingType
<1>2. /\ buffer' \in [0 .. Capacity - 1 -> DiffEntry]
      /\ head' \in 0 .. Capacity - 1
  BY <1>1 DEF flush, RingInv, RingType
<1>3. /\ count' \in 0 .. Capacity
      /\ dropped' \in Nat
      /\ count' + dropped' = n
      /\ dropped' > 0 => count' = Capacity
  BY <1>0 DEF flush, RingInv, RingType
<1>4. count' < Capacity => head' = count'
  BY <1>1 DEF flush, RingInv, RingType
<1>5. ASSUME NEW d \in 1 .. count'
      PROVE  buffer'[Slot(d)'] = history[n - d + 1]
  <2>1. CASE d = 1
    <3>1. Slot(d)' = head
      BY <1>1, <2>1 DEF Slot, RingInv, RingType
    <3>2. buffer'[head] = history[n]
      BY <1>0 DEF flush, RingInv, RingType
    <3> QED BY <3>1, <3>2, <2>1, <1>0
  <2>2. CASE d > 1
    <3>1. d - 1 \in 1 .. count /\ d - 1 < Capacity
      BY <2>2, <1>3 DEF flush, RingInv, RingType
    <3>2. Slot(d)' = Slot(d - 1)
      BY <1>1, <2>2, <3>1 DEF Slot, RingInv, RingType
    <3>3. Slot(d - 1) \in 0 .. Capacity - 1 /\ Slot(d - 1) # head
      BY <3>1 DEF Slot, RingInv, RingType
    <3>4. buffer'[Slot(d - 1)] = buffer[Slot(d - 1)]
      BY <3>3 DEF flush, RingInv, RingType
    <3>5. buffer[Slot(d - 1)] = history[Flushed - (d - 1) + 1]
      BY <3>1 DEF RingInv
    <3> QED BY <3>2, <3>4, <3>5, <1>0
  <2> QED BY <2>1, <2>2, <1>3
<1> QED BY <1>2, <1>3, <1>4, <1>5

\* The ring and the history agree in every reachable state.
THEOREM RingInvariance == RingSpec => []RingInv
<1> USE RingAssumption
<1>1. RingInit => RingInv
  <2> SUFFICES ASSUME RingInit PROVE RingInv
    OBVIOUS
  <2>1. Started(NoValue) \in DiffEntry
    BY DEF Started, DiffEntry
  <2>2. RingType
    <3>1. buffer \in [0 .. Capacity - 1 -> DiffEntry] /\ current \in DiffEntry
      BY <2>1, Zenon DEF RingInit
    <3>2. head \in 0 .. Capacity - 1 /\ count \in 0 .. Capacity /\ dropped \in Nat
      BY DEF RingInit
    <3>3. history \in Seq(DiffEntry)
      BY DEF RingInit
    <3>4. current_valid \in BOOLEAN /\ tracing \in BOOLEAN
      BY Zenon DEF RingInit
    <3> QED BY <3>1, <3>2, <3>3, <3>4 DEF RingType
  <2>3. history = <<>> /\ Len(history) = 0 /\ Flushed = 0 /\ count = 0
    BY DEF RingInit, Flushed
  <2> QED BY <2>2, <2>3 DEF RingInit, RingInv
<1>2. RingInv /\ [RingNext]_ringVars => RingInv'
  <2> SUFFICES ASSUME RingInv, [RingNext]_ringVars PROVE RingInv'
    OBVIOUS
  <2>0. Emptied /\ tracing' \in BOOLEAN => RingInv'
    BY DEF Emptied, RingInv, RingType, Flushed
  <2>1. CASE trace_init
    BY <2>0, <2>1 DEF trace_init
  <2>2. CASE reset
    BY <2>0, <2>2 DEF reset, RingInv, RingType
  <2>3. ASSUME NEW v \in Values, trace_pc(v) PROVE RingInv'
    <3>1. /\ Started(v) \in DiffEntry
          /\ history' \in Seq(DiffEntry)
          /\ Len(history') = Len(history) + 1
          /\ history'[Len(history')] = Started(v)
          /\ \A k \in 1 .. Len(history) : history'[k] = history[k]
      BY <2>3 DEF trace_pc, RingInv, RingType, Started, DiffEntry
    <3>2. current' = Started(v) /\ current_valid' = TRUE /\ tracing' = TRUE /\ tracing = TRUE
      BY <2>3 DEF trace_pc, RingInv, RingType
    <3>3. Len(history) \in Nat /\ Flushed' = Len(history)
      BY <3>1, <3>2 DEF Flushed, RingInv, RingType
    <3>4. CASE current_valid /\ flush
      <4>1. ASSUME NEW d \in 1 .. count' PROVE buffer'[Slot(d)'] = history'[Flushed' - d + 1]
        <5>1. Len(history) - d + 1 \in 1 .. Len(history)
          BY <3>3, <3>4, FlushKeeps
        <5> QED BY ZenonT(30), <5>1, <3>1, <3>3, <3>4, FlushKeeps
      <4> QED BY <3>1, <3>2, <3>3, <3>4, <4>1, FlushKeeps DEF RingInv, RingType
    <3>5. CASE ~current_valid /\ UNCHANGED <<buffer, head, count, dropped>>
      <4>1. Flushed = Len(history)
        BY <3>5 DEF Flushed
      <4>2. ASSUME NEW d \in 1 .. count' PROVE buffer'[Slot(d)'] = history'[Flushed' - d + 1]
        <5>1. Slot(d)' = Slot(d) /\ d \in 1 .. count
          BY <3>5 DEF Slot
        <5>2. Len(history) - d + 1 \in 1 .. Len(history)
          BY <5>1, <4>1, <3>3 DEF RingInv, RingType
        <5> QED BY <5>1, <5>2, <4>1, <3>1, <3>3, <3>5 DEF RingInv
      <4> QED BY <3>1, <3>2, <3>3, <3>5, <4>1, <4>2 DEF RingInv, RingType
    <3> QED BY <2>3, <3>4, <3>5 DEF trace_pc
  <2>4. ASSUME NEW v \in Values, NEW f \in {"rd", "mem"}, Record(f, v) PROVE RingInv'
    <3> DEFINE n == Len(history)
    <3>1. n \in Nat /\ n > 0 /\ current = history[n] /\ current_valid /\ tracing
      BY <2>4 DEF Record, RingInv, RingType
    <3>2. current' = [current EXCEPT ![f] = v] /\ current' \in DiffEntry
      BY ZenonT(30), <2>4 DEF Record, RingInv, RingType, DiffEntry
    <3>3. history' = [history EXCEPT ![n] = current']
      BY <2>4, <3>1, <3>2 DEF Record
    <3>4. /\ history' \in Seq(DiffEntry)
          /\ Len(history') = n
          /\ history'[n] = current'
          /\ \A k \in 1 .. n - 1 : history'[k] = history[k]
      <4>0. n \in Nat
        BY <3>1
      <4>1. history \in Seq(DiffEntry) /\ DOMAIN history = 1 .. n
        BY DEF RingInv, RingType
      <4>2. history' \in [1 .. n -> DiffEntry]
        BY <4>1, <3>1, <3>2, <3>3
      <4>3. history' \in Seq(DiffEntry) /\ Len(history') = n
        BY <4>2, <3>1
      <4>4. n \in DOMAIN history
        BY <4>1, <3>1
      <4>5. history'[n] = current'
        BY <3>3, <4>4, Zenon
      <4>6. ASSUME NEW k \in 1 .. n - 1 PROVE history'[k] = history[k]
        <5>1. k \in 1 .. n /\ k # n
          BY <4>0
        <5>2. k \in DOMAIN history
          BY <4>1, <5>1, Zenon
        <5> QED BY <3>3, <5>1, <5>2, Zenon
      <4> QED BY <4>3, <4>5, <4>6
    <3>5. Flushed = n - 1 /\ Flushed' = n - 1
      BY <2>4, <3>1, <3>4 DEF Flushed, Record
    <3>6. ASSUME NEW d \in 1 .. count' PROVE buffer'[Slot(d)'] = history'[Flushed' - d + 1]
      <4>1. Slot(d)' = Slot(d) /\ d \in 1 .. count
        BY <2>4 DEF Slot, Record
      <4>2. Flushed - d + 1 \in 1 .. n - 1
        BY <4>1, <3>1, <3>5 DEF RingInv, RingType
      <4> QED BY <2>4, <4>1, <4>2, <3>4, <3>5 DEF RingInv, Record
    <3> QED BY ZenonT(30), <2>4, <3>1, <3>2, <3>4, <3>5, <3>6 DEF RingInv, RingType, Record
  <2>5. CASE trace_fini
    <3>1. tracing' = FALSE /\ current_valid' = FALSE /\ UNCHANGED <<current, history>>
      BY <2>5 DEF trace_fini
    <3>2. Flushed' = Len(history)
      BY <3>1 DEF Flushed
    <3>3. CASE current_valid /\ flush
      BY ZenonT(30), <3>1, <3>2, <3>3, FlushKeeps DEF RingInv, RingType
    <3>4. CASE ~current_valid /\ UNCHANGED <<buffer, head, count, dropped>>
      BY <3>1, <3>2, <3>4 DEF RingInv, RingType, Flushed, Slot
    <3> QED BY <2>5, <3>3, <3>4 DEF trace_fini
  <2>6. CASE UNCHANGED ringVars
    BY <2>6 DEF ringVars, ring, RingInv, RingType, Flushed, Slot
  <2> QED BY <2>1, <2>2, <2>3, <2>4, <2>5, <2>6
          DEF RingNext, trace_reg_write, trace_mem_access
<1> QED BY <1>1, <1>2, PTL DEF RingSpec

\* Outside a call, the slots the reader visits are those last written.
LEMMA InvKeepsLast ==
  ASSUME RingInv
  PROVE  RingKeepsLast
<1> USE RingAssumption
<1> SUFFICES ASSUME ~tracing PROVE RingKeepsLast
  BY DEF RingKeepsLast
<1>1. Flushed = Len(history) /\ count + dropped = Len(history)
  BY DEF RingInv, Flushed
<1>2. ASSUME NEW i \in 0 .. count - 1
      PROVE  get(i) = history[dropped + i + 1]
  <2> DEFINE d == count - i
  <2>1. d \in 1 .. count
    BY DEF RingInv, RingType
  <2>2. start + i \in 0 .. 2 * Capacity - 1
    BY DEF start, RingInv, RingType
  <2>3. (start + i) % Capacity = Slot(d)
    <3>0. start \in Nat /\ i \in Nat
      BY DEF start, RingInv, RingType
    <3>1. (start + i) % Capacity = IF start + i < Capacity THEN start + i ELSE start + i - Capacity
      BY <2>2, <3>0, WrapsOnce
    <3>2. CASE count < Capacity
      BY <2>1, <3>1, <3>2 DEF start, Slot, RingInv, RingType
    <3>3. CASE count = Capacity
      BY <2>1, <3>1, <3>3 DEF start, Slot, RingInv, RingType
    <3> QED BY <3>2, <3>3 DEF RingInv, RingType
  <2>4. buffer[Slot(d)] = history[Flushed - d + 1]
    BY <2>1 DEF RingInv
  <2>5. Flushed - d + 1 = dropped + i + 1
    BY SMTT(30), <1>1 DEF RingInv, RingType
  <2> QED BY <2>3, <2>4, <2>5 DEF get
<1> QED BY <1>1, <1>2 DEF RingKeepsLast, RingInv, RingType

\* For every capacity, BufferedDiffTracer::get hands out exactly the last
\* instructions of the call, oldest first, and dropped counts the others.
THEOREM RingCorrect == RingSpec => []RingKeepsLast
BY InvKeepsLast, RingInvariance, PTL

-----------------------------------------------------------------------------
(* The comparisons. *)

DiffType ==
  /\ mode \in {"lockstep", "block", "checkpoint"}
  /\ machine \in Pairs
  /\ machine["ref"].kind = "spike" => mode = "lockstep"
  /\ mode # "checkpoint" => \A s \in Sides : Does(s, Length(s)).rd = NoValue
  /\ pos \in [Sides -> Nat]
  /\ \A s \in Sides : pos[s] <= Length(s)
  /\ exited \in [Sides -> BOOLEAN]
  /\ \A s \in Sides : exited[s] => pos[s] = Length(s)
  /\ DOMAIN state = Sides
  /\ offset \in [Sides -> Nat]
  /\ overflowed \in BOOLEAN
  /\ matched \in Nat /\ index \in Nat /\ low \in Nat /\ high \in Nat
  /\ phase = "align" => Running /\ \A s \in Sides : pos[s] >= 1
  /\ phase \in {"instr", "instr_done"} => pos["ref"] >= 1
  /\ phase = "instr" => Does("ref", pos["ref"]).rd # NoValue

-----------------------------------------------------------------------------
(* Where the machines are. *)

\* What the executor reported is what its machine did last.
Shown(s) ==
  state[s] # <<>> =>
    state[s][1].pc = Does(s, pos[s]).pc /\ state[s][1].rd = Does(s, pos[s]).rd

\* In lockstep both machines have executed the instructions that were skipped,
\* those that matched, and the one being compared.
LockstepInv ==
  mode = "lockstep" =>
    /\ phase \in {"loop", "align", "compare"}
    /\ phase = "loop" =>
         \A s \in Sides : pos[s] = Least(offset[s] + matched, Length(s))
    /\ phase = "align" => matched = 0 /\ \A s \in Sides : Shown(s)
    /\ phase = "compare" /\ Running =>
         \A s \in Sides : /\ Shown(s)
                          /\ state[s] # <<>> => pos[s] = Least(offset[s] + matched + 1, Length(s))

\* Entry k of this call's history is what the reference did k instructions after
\* the first n; the register of an instruction that is executing may be missing.
Traced(n) ==
  \A k \in 1 .. Len(history) :
    /\ history[k].pc = Does("ref", n + k).pc
    /\ history[k].rd = IF phase = "instr" /\ k = Len(history) THEN NoValue
                       ELSE Does("ref", n + k).rd

\* By blocks, the reference is as many instructions ahead as the ring holds
\* that have not been compared.
BlockInv ==
  mode = "block" =>
    /\ phase \in {"loop", "block", "instr", "instr_done", "entries"}
    /\ tracing <=> phase \in {"block", "instr", "instr_done"}
    /\ phase \in {"block", "instr", "instr_done"} => Running
    /\ \A s \in Sides : offset[s] = 0
    /\ Running => pos["test"] = Least(matched, Length("test"))
    /\ phase \in {"instr", "instr_done"} => Len(history) > 0 /\ current_valid
    /\ ~overflowed /\ Running =>
         /\ phase = "loop" /\ matched < Limit => pos["ref"] = Least(matched, Length("ref"))
         /\ phase \in {"block", "instr", "instr_done"} =>
              /\ pos["ref"] = Least(matched + Len(history), Length("ref"))
              /\ Traced(matched)
         /\ phase = "entries" =>
              /\ dropped = 0
              /\ index <= Len(history) /\ index <= matched
              /\ pos["ref"] = Least(matched - index + Len(history), Length("ref"))
              /\ Traced(matched - index)

\* What has matched agrees, and a difference is one.
ReportInv ==
  mode # "checkpoint" /\ ~overflowed =>
    /\ \A j \in 0 .. matched - 1 : AgreeAt(j)
    /\ ~Running => result.index \in 0 .. matched
    /\ result.kind = "differs" => ~AgreeAt(result.index)

\* The interval of the bisection is between agreement and disagreement.  Before
\* its first step upwards fails, high itself may be the checkpoint that failed.
CheckpointInv ==
  mode = "checkpoint" =>
    /\ phase \in {"loop", "bisect"}
    /\ Running =>
         /\ \A s \in Sides : matched < Length(s)
         /\ phase = "loop" => \A s \in Sides : pos[s] = matched
         /\ phase = "bisect" =>
              /\ low <= high
              /\ \/ ~AgreeAfter(matched + high + 1)
                 \/ low < high /\ ~AgreeAfter(matched + high)
         /\ phase = "loop" => low = 0
         /\ matched + low > 0 => AgreeAfter(matched + low)
    /\ BisectsToBoundary

\* Two machines that do the same stay together.
EqualInv ==
  Equal /\ machine["ref"].kind = "inprocess" =>
    /\ mode = "lockstep" =>
         state["ref"] = state["test"] /\ exited["ref"] = exited["test"]
           /\ pos["ref"] = pos["test"] /\ offset["ref"] = offset["test"]
    /\ mode = "block" /\ machine["ref"].exit_code = 0 => ~exited["ref"] /\ ~exited["test"]
    /\ mode = "block" /\ machine["ref"].exit_code # 0 /\ Running =>
         ~exited["test"] /\ matched < Length("test")
    /\ mode = "checkpoint" => phase = "loop" /\ pos["ref"] = pos["test"]
    /\ EqualMachinesAgree

\* The inductive invariant, together with RingInv.
DiffInv ==
  DiffType /\ LockstepInv /\ BlockInv /\ ReportInv /\ CheckpointInv /\ EqualInv

-----------------------------------------------------------------------------
(* The machines. *)

\* A machine is not empty, and its k-th instruction is one, repeated or not.
LEMMA MachineFacts ==
  ASSUME machine \in Pairs, NEW s \in Sides
  PROVE  /\ Length(s) \in Nat \ {0}
         /\ \A k \in Nat \ {0} : Does(s, k) \in Instruction
         /\ \A k \in Nat : Does(s, k) = Does(s, Least(k, Length(s)))
         /\ machine[s].kind \in {"inprocess", "spike"}
         /\ machine["test"].kind = "inprocess"
<1>1. machine[s] \in Machine /\ machine["test"].kind = "inprocess"
  BY DiffAssumption DEF Sides
<1>2. machine[s].trace \in Seq(Instruction) /\ machine[s].trace # <<>>
  BY <1>1 DEF Machine
<1>3. Length(s) \in Nat \ {0}
  BY <1>2 DEF Length
<1>4. \A k \in 1 .. Length(s) : machine[s].trace[k] \in Instruction
  BY <1>2 DEF Length
<1>5. \A k \in Nat \ {0} : Least(k, Length(s)) \in 1 .. Length(s)
  BY <1>3 DEF Least
<1>6. \A k \in Nat : Least(Least(k, Length(s)), Length(s)) = Least(k, Length(s))
  BY <1>3 DEF Least
<1> QED
  BY <1>1, <1>3, <1>4, <1>5, <1>6 DEF Does, Machine

\* What an optional state shows of the exit.
LEMMA ShownExit ==
  ASSUME NEW p, NEW r, NEW e
  PROVE  /\ <<[pc |-> p, rd |-> r, is_exit |-> e]>> # <<>>
         /\ <<[pc |-> p, rd |-> r, is_exit |-> e]>>[1].is_exit = e
OBVIOUS

\* The exit of a failing guest is what one step from its last instruction
\* reaches, and nothing before it is.
LEMMA LeastReaches ==
  ASSUME NEW m \in Nat, NEW l \in Nat \ {0}, m < l
  PROVE  /\ Least(m, l) = m /\ m # l
         /\ Least(m + 1, l) = l => m = l - 1
         /\ Least(m + 1, l) # l => m + 1 < l
BY DEF Least

\* One instruction more than the machine's first a, or its exit again.
LEMMA LeastNext ==
  ASSUME NEW a \in Nat, NEW l \in Nat
  PROVE  Least(Least(a, l) + 1, l) = Least(a + 1, l)
BY DEF Least

\* What is reported can be read back.
LEMMA Reported ==
  ASSUME NEW kind, NEW k, Report(kind, k)
  PROVE  result'.kind = kind /\ result'.index = k
BY DEF Report

\* The machines compared never change.
LEMMA MachineKept ==
  ASSUME machine' = machine
  PROVE  /\ \A s : Length(s)' = Length(s)
         /\ \A s, k : Does(s, k)' = Does(s, k)
         /\ \A k : AgreeAfter(k)' = AgreeAfter(k)
         /\ Equal' = Equal
         /\ offset' = offset => \A j : AgreeAt(j)' = AgreeAt(j)
BY DEF Length, Does, AgreeAfter, Equal, AgreeAt

\* A step of an executor shows the next instruction of its machine, the exit
\* instruction again and again, or nothing.
LEMMA StepFacts ==
  ASSUME DiffType, NEW s \in Sides
  PROVE  /\ StepOf(s).pos \in Nat /\ StepOf(s).pos <= Length(s)
         /\ StepOf(s).exited \in BOOLEAN
         /\ StepOf(s).exited => StepOf(s).pos = Length(s)
         /\ pos[s] <= StepOf(s).pos /\ 1 <= StepOf(s).pos
         /\ StepOf(s).state # <<>> =>
              /\ StepOf(s).pos = Least(pos[s] + 1, Length(s))
              /\ StepOf(s).state[1].pc = Does(s, StepOf(s).pos).pc
              /\ mode # "checkpoint" => StepOf(s).state[1].rd = Does(s, StepOf(s).pos).rd
         /\ machine[s].kind = "inprocess" =>
              /\ StepOf(s).state = <<>> <=> exited[s]
              /\ machine[s].exit_code = 0 /\ ~exited[s] =>
                   ~StepOf(s).exited /\ ~StepOf(s).state[1].is_exit
<1>1. /\ Length(s) \in Nat \ {0} /\ pos[s] \in Nat /\ pos[s] <= Length(s)
      /\ machine[s].kind \in {"inprocess", "spike"} /\ exited[s] \in BOOLEAN
      /\ exited[s] => pos[s] = Length(s)
  BY MachineFacts DEF DiffType
<1> DEFINE k == Least(pos[s] + 1, Length(s))
<1>2. k \in Nat /\ k >= 1 /\ k <= Length(s) /\ pos[s] <= k
  BY <1>1 DEF Least
<1>3. Does(s, k) = Does(s, pos[s] + 1)
  BY <1>1, MachineFacts DEF DiffType
<1>4. CASE machine[s].kind = "spike"
  <2>1. StepOf(s) = StepSpike(s)
    BY <1>4 DEF StepOf
  <2>2. CASE pos[s] = Length(s)
    BY <1>1, <1>4, <2>1, <2>2 DEF StepSpike
  <2>3. CASE pos[s] # Length(s)
    <3>1. k = pos[s] + 1
      BY <1>1, <2>3 DEF Least
    <3> QED
      BY <1>1, <1>2, <1>4, <2>1, <2>3, <3>1 DEF StepSpike
  <2> QED
    BY <2>2, <2>3
<1>5. CASE machine[s].kind = "inprocess"
  <2>1. StepOf(s) = StepInProcess(s)
    BY <1>5 DEF StepOf
  <2>2. CASE exited[s]
    BY SMTT(30), <1>1, <1>5, <2>1, <2>2 DEF StepInProcess
  <2>3. CASE ~exited[s]
    <3> DEFINE exits == k = Length(s) /\ machine[s].exit_code # 0
    <3>1. /\ StepOf(s).state = <<[pc |-> Does(s, k).pc,
                                rd |-> IF exits THEN NoValue ELSE Does(s, k).rd,
                                is_exit |-> exits]>>
          /\ StepOf(s).pos = k /\ StepOf(s).exited = exits
      BY <2>1, <2>3 DEF StepInProcess
    <3>2. exits /\ mode # "checkpoint" => Does(s, k).rd = NoValue
      BY DEF DiffType
    <3> HIDE DEF k
    <3> QED
      BY SMTT(30), <1>1, <1>2, <1>5, <2>3, <3>1, <3>2 DEF k
  <2> QED
    BY <2>2, <2>3
<1> QED
  BY <1>1, <1>4, <1>5

-----------------------------------------------------------------------------
(* Types, and the calls of the ring. *)

\* The types hold at the start.
LEMMA InitType == DiffInit => DiffType
<1> SUFFICES ASSUME DiffInit PROVE DiffType
  OBVIOUS
<1>1. machine \in Pairs /\ mode \in Modes /\ phase = "loop"
  BY DEF DiffInit
<1>2. pos = [s \in Sides |-> 0] /\ exited = [s \in Sides |-> FALSE]
      /\ state = [s \in Sides |-> <<>>] /\ offset = [s \in Sides |-> 0] /\ overflowed = FALSE
  BY DEF DiffInit
<1>3. matched = 0 /\ index = 0 /\ low = 0 /\ high = 0
  BY DEF DiffInit
<1>4. \A s \in Sides : pos[s] <= Length(s) /\ ~exited[s]
  BY <1>1, <1>2, MachineFacts
<1>5. /\ pos \in [Sides -> Nat] /\ exited \in [Sides -> BOOLEAN] /\ DOMAIN state = Sides
      /\ offset \in [Sides -> Nat] /\ overflowed \in BOOLEAN
  BY <1>2, Zenon
<1> QED
  BY <1>1, <1>3, <1>4, <1>5, DiffAssumption DEF DiffInit, DiffType

\* An action that steps executors keeps their types.
LEMMA StepType ==
  ASSUME DiffType, machine' = machine, NEW stepped \in SUBSET Sides, Step(stepped)
  PROVE  /\ pos' \in [Sides -> Nat] /\ \A s \in Sides : pos'[s] <= Length(s)' /\ pos'[s] >= pos[s]
         /\ exited' \in [Sides -> BOOLEAN] /\ \A s \in Sides : exited'[s] => pos'[s] = Length(s)'
         /\ DOMAIN state' = Sides
         /\ \A s \in stepped : pos'[s] >= 1
<1>1. \A s \in Sides : /\ StepOf(s).pos \in Nat /\ StepOf(s).pos <= Length(s)
                       /\ pos[s] <= StepOf(s).pos /\ StepOf(s).exited \in BOOLEAN
                       /\ pos[s] \in Nat /\ pos[s] <= Length(s) /\ exited[s] \in BOOLEAN
                       /\ Length(s)' = Length(s) /\ 1 <= StepOf(s).pos
                       /\ exited[s] => pos[s] = Length(s)
                       /\ StepOf(s).exited => StepOf(s).pos = Length(s)
  BY StepFacts, MachineKept DEF DiffType
<1>2. /\ pos' = [s \in Sides |-> IF s \in stepped THEN StepOf(s).pos ELSE pos[s]]
      /\ exited' = [s \in Sides |-> IF s \in stepped THEN StepOf(s).exited ELSE exited[s]]
      /\ state' = [s \in Sides |-> IF s \in stepped THEN StepOf(s).state ELSE state[s]]
  BY DEF Step
<1>3. \A s \in Sides : pos'[s] \in Nat /\ pos'[s] <= Length(s)' /\ pos'[s] >= pos[s]
  BY <1>1, <1>2
<1>6. \A s \in Sides : exited'[s] => pos'[s] = Length(s)'
  BY <1>1, <1>2
<1>7. \A s \in stepped : pos'[s] >= 1
  BY <1>1, <1>2
<1>4. pos' \in [Sides -> Nat]
  BY <1>2, <1>3
<1>5. exited' \in [Sides -> BOOLEAN]
  BY <1>1, <1>2, Zenon
<1> QED
  BY ZenonT(30), <1>2, <1>3, <1>4, <1>5, <1>6, <1>7

\* Every step keeps the types.
LEMMA TypeStep ==
  ASSUME DiffType, [DiffNext]_diffVars
  PROVE  DiffType'
<1>0. /\ machine \in Pairs /\ pos \in [Sides -> Nat] /\ exited \in [Sides -> BOOLEAN]
      /\ matched \in Nat /\ "ref" \in Sides /\ "test" \in Sides
  BY DEF DiffType, Sides
<1>1. CASE lockstep_fetch
  <2>1. machine' = machine /\ Step(Sides)
    BY <1>1 DEF lockstep_fetch
  <2> QED
    BY <1>0, <1>1, <2>1, StepType, MachineKept DEF lockstep_fetch, DiffType, search, Running
<1>2. CASE lockstep_align
  <2>1. PICK stepped \in SUBSET Sides : Step(stepped)
    BY <1>2 DEF lockstep_align, Sides
  <2>2. machine' = machine /\ phase' = phase /\ result' = result
    BY <1>2 DEF lockstep_align
  <2>3. \A s \in Sides : pos'[s] >= 1
    <3> SUFFICES ASSUME NEW s \in Sides PROVE pos'[s] >= 1
      OBVIOUS
    <3>1. pos'[s] >= pos[s] /\ pos[s] >= 1 /\ pos[s] \in Nat /\ pos'[s] \in Nat
      BY <1>0, <1>2, <2>1, <2>2, StepType DEF lockstep_align, DiffType
    <3> QED
      BY <3>1
  <2> QED
    BY <1>0, <1>2, <2>1, <2>2, <2>3, StepType, MachineKept DEF lockstep_align, DiffType, search, Running
<1>3. CASE lockstep_aligned
  <2>1. offset' \in [Sides -> Nat]
    BY <1>0, <1>3 DEF lockstep_aligned, DiffType
  <2> QED
    BY <1>3, <2>1, MachineKept DEF lockstep_aligned, DiffType, progress, search, Running
<1>4. CASE lockstep_compare
  BY SMTT(30), <1>4, MachineKept DEF lockstep_compare, DiffType, progress, search, Running
<1>5. CASE run_block
  BY <1>5, MachineKept DEF run_block, DiffType, progress, search, Running
<1>6. CASE block_instr
  <2> DEFINE k == Least(pos["ref"] + 1, Length("ref"))
  <2>1. /\ pos' = [pos EXCEPT !["ref"] = k]
        /\ phase' = IF Does("ref", k).rd = NoValue THEN "instr_done" ELSE "instr"
        /\ UNCHANGED <<mode, machine, exited, state, matched, index, low, high, result, offset, overflowed>>
    BY <1>6 DEF block_instr, search
  <2>2. k \in Nat /\ k >= 1 /\ k <= Length("ref") /\ k >= pos["ref"]
        /\ (pos["ref"] = Length("ref") => k = Length("ref"))
    <3>1. Length("ref") \in Nat \ {0} /\ pos["ref"] \in Nat /\ pos["ref"] <= Length("ref")
      BY <1>0, MachineFacts DEF DiffType
    <3> QED
      BY <3>1 DEF Least
  <2> HIDE DEF k
  <2>3. pos' \in [Sides -> Nat] /\ pos'["ref"] = k /\ \A s \in Sides : s # "ref" => pos'[s] = pos[s]
    BY ZenonT(30), <1>0, <2>1, <2>2
  <2> QED
    BY <1>0, <2>1, <2>2, <2>3, MachineKept DEF DiffType, Running
<1>7. CASE block_reg_write
  BY <1>7, MachineKept DEF block_reg_write, DiffType, progress, search, Running
<1>8. CASE block_goes_on
  BY <1>8, MachineKept DEF block_goes_on, DiffType, progress, search, Running
<1>9. CASE run_block_end
  <2>1. exited' = [exited EXCEPT !["ref"] = pos["ref"] = Length("ref") /\ machine["ref"].exit_code # 0]
    BY <1>9 DEF run_block_end
  <2>2. exited' \in [Sides -> BOOLEAN] /\ \A s \in Sides : exited'[s] => pos[s] = Length(s)
    BY <1>0, <2>1 DEF DiffType
  <2> QED
    BY SMTT(30), <1>9, <2>2, MachineKept DEF run_block_end, DiffType, search, Running
<1>10. CASE block_compared
  <2>1. /\ phase' = "loop"
        /\ UNCHANGED <<mode, machine, pos, exited, state, matched, index, low, high, offset, overflowed>>
    BY ZenonT(30), <1>10 DEF block_compared, progress, search
  <2>2. /\ \A s : Length(s)' = Length(s)
        /\ \A s, k : Does(s, k)' = Does(s, k)
    BY ZenonT(30), <2>1, MachineKept
  <2> QED
    BY ZenonT(30), <2>1, <2>2 DEF DiffType
<1>11. CASE block_compare_entry
  <2>1. machine' = machine /\ Step({"test"}) /\ {"test"} \in SUBSET Sides
    BY ZenonT(30), <1>0, <1>11 DEF block_compare_entry
  <2> QED
    BY SMTT(60), <1>0, <1>11, <2>1, StepType, MachineKept DEF block_compare_entry, DiffType, search, Running
<1>12. CASE block_finished
  <2>1. machine' = machine /\ Step({"test"}) /\ {"test"} \in SUBSET Sides
    BY <1>0, <1>12 DEF block_finished
  <2> QED
    BY SMTT(30), <1>0, <1>12, <2>1, StepType, MachineKept DEF block_finished, DiffType, search, Running
<1>13. CASE checkpoint_batch
  <2> DEFINE size == Least(Limit - matched, Interval)
             after == [s \in Sides |-> Least(pos[s] + size, Length(s))]
             executed == [s \in Sides |-> after[s] - pos[s]]
  <2>1. size \in Nat
    <3>1. matched < Limit /\ matched \in Nat
      BY ZenonT(30), <1>13 DEF checkpoint_batch, DiffType
    <3>2. Limit \in Nat /\ Interval \in Nat
      BY DiffAssumption
    <3> QED
      BY <3>1, <3>2 DEF Least
  <2>2. \A s \in Sides : /\ after[s] \in Nat /\ after[s] <= Length(s) /\ executed[s] \in Nat
                         /\ pos[s] = Length(s) => after[s] = Length(s)
    <3> SUFFICES ASSUME NEW s \in Sides
                 PROVE  /\ after[s] \in Nat /\ after[s] <= Length(s) /\ executed[s] \in Nat
                        /\ pos[s] = Length(s) => after[s] = Length(s)
      BY ZenonT(30)
    <3>1. Length(s) \in Nat \ {0} /\ pos[s] \in Nat /\ pos[s] <= Length(s)
      BY <1>0, MachineFacts DEF DiffType
    <3> QED
      BY <2>1, <3>1 DEF Least
  <2>4. /\ pos' = after
        /\ \/ matched' = matched + executed["ref"] /\ UNCHANGED <<phase, low, high>>
           \/ /\ phase' = "bisect" /\ low' = 0 /\ UNCHANGED <<matched, result>>
              /\ high' = Least(Least(executed["ref"], executed["test"]), size)
        /\ phase = "loop"
        /\ UNCHANGED <<mode, machine, exited, state, index, offset, overflowed>>
    BY <1>13, Zenon DEF checkpoint_batch
  <2>7. after = [s \in Sides |-> after[s]]
    OBVIOUS
  <2> HIDE DEF after, executed, size
  <2>3. Least(Least(executed["ref"], executed["test"]), size) \in Nat
    BY <1>0, <2>1, <2>2 DEF Least
  <2>5. matched' \in Nat /\ low' \in Nat /\ high' \in Nat /\ phase' \in {"loop", "bisect"}
    BY <1>0, <2>2, <2>3, <2>4 DEF DiffType
  <2>6. pos' \in [Sides -> Nat]
    BY ZenonT(30), <2>2, <2>4, <2>7
  <2> QED
    BY SMTT(30), <1>0, <2>2, <2>4, <2>5, <2>6, MachineKept DEF DiffType
<1>14. CASE checkpoint_bisect
  <2>1. low \in Nat /\ high \in Nat /\ low < high
    BY <1>14 DEF checkpoint_bisect, DiffType
  <2>2. (low + high + 1) \div 2 \in Nat /\ (low + high + 1) \div 2 - 1 \in Nat
    BY SMTT(30), <2>1
  <2> QED
    BY <1>14, <2>1, <2>2, MachineKept DEF checkpoint_bisect, DiffType, progress, Running
<1>15. CASE checkpoint_divergence
  BY SMTT(30), <1>15, MachineKept DEF checkpoint_divergence, DiffType, progress, search, Running
<1>16. CASE limit_reached
  BY SMTT(30), <1>16, MachineKept DEF limit_reached, DiffType, progress, search, Running
<1>17. CASE UNCHANGED diffVars
  BY <1>17, MachineKept DEF diffVars, compareVars, DiffType, progress, search, Running
<1> QED
  BY <1>1, <1>2, <1>3, <1>4, <1>5, <1>6, <1>7, <1>8, <1>9, <1>10, <1>11, <1>12, <1>13, <1>14,
     <1>15, <1>16, <1>17 DEF DiffNext

\* A step of the comparison is a step of the ring or leaves it alone.
LEMMA StepsRing ==
  ASSUME DiffType, [DiffNext]_diffVars
  PROVE  [RingNext]_ringVars
<1>0. "ref" \in Sides /\ machine \in Pairs /\ pos \in [Sides -> Nat]
  BY DEF DiffType, Sides
<1>1. CASE run_block
  BY <1>1 DEF run_block, RingNext
<1>2. CASE block_instr
  <2> DEFINE k == Least(pos["ref"] + 1, Length("ref"))
  <2>1. k \in Nat \ {0}
    <3>1. Length("ref") \in Nat \ {0} /\ pos["ref"] \in Nat
      BY <1>0, MachineFacts
    <3> QED
      BY <3>1 DEF Least
  <2>2. Does("ref", k).pc \in Values
    BY <1>0, <2>1, MachineFacts DEF Instruction
  <2>3. trace_pc(Does("ref", k).pc)
    BY <1>2 DEF block_instr
  <2> QED
    BY <2>2, <2>3 DEF RingNext
<1>3. CASE block_reg_write
  <2>1. pos["ref"] \in Nat \ {0} /\ Does("ref", pos["ref"]).rd # NoValue
    BY <1>0, <1>3 DEF block_reg_write, DiffType
  <2>2. Does("ref", pos["ref"]).rd \in Values
    BY <1>0, <2>1, MachineFacts DEF Instruction
  <2>3. trace_reg_write(Does("ref", pos["ref"]).rd)
    BY <1>3 DEF block_reg_write
  <2> QED
    BY ZenonT(30), <2>2, <2>3 DEF RingNext
<1>4. CASE run_block_end
  BY ZenonT(30), <1>4 DEF run_block_end, RingNext
<1>5. CASE ~(run_block \/ block_instr \/ block_reg_write \/ run_block_end)
  BY ZenonT(30), <1>5 DEF DiffNext, diffVars, lockstep_fetch, lockstep_align, lockstep_aligned,
     lockstep_compare, block_goes_on, block_compared, block_compare_entry, block_finished,
     checkpoint_batch, checkpoint_bisect, checkpoint_divergence, limit_reached
<1> QED
  BY ZenonT(30), <1>1, <1>2, <1>3, <1>4, <1>5

\* The comparison's variables have their types, and the executors stay within
\* their machines.
THEOREM DiffTypeCorrect == DiffSpec => []DiffType
<1>1. DiffType /\ [DiffNext]_diffVars => DiffType'
  BY TypeStep
<1> QED
  BY <1>1, InitType, PTL DEF DiffSpec

\* A comparison is a behaviour of the ring.
LEMMA ImplementsRing == DiffSpec => RingSpec
<1>1. DiffInit => RingInit
  BY DEF DiffInit
<1>2. DiffType /\ [DiffNext]_diffVars => [RingNext]_ringVars
  BY StepsRing
<1> QED
  BY <1>1, <1>2, DiffTypeCorrect, PTL DEF DiffSpec, RingSpec

\* The ring's invariant holds throughout a comparison.
THEOREM DiffKeepsRing == DiffSpec => []RingInv
  BY ImplementsRing, RingInvariance

\* The entries the comparison reads are those of the block that was run.
THEOREM DiffRingCorrect == DiffSpec => []RingKeepsLast
  BY ImplementsRing, RingCorrect

-----------------------------------------------------------------------------
(* Lockstep. *)

\* Two instructions are the same when their addresses and registers are.
LEMMA InstructionsEqual ==
  ASSUME NEW a \in Instruction, NEW b \in Instruction
  PROVE  a = b <=> a.pc = b.pc /\ a.rd = b.rd
BY DEF Instruction

\* In-process executors of equal machines at the same place step alike.
LEMMA EqualSteps ==
  ASSUME machine \in Pairs, Equal, machine["ref"].kind = "inprocess",
         pos["ref"] = pos["test"], exited["ref"] = exited["test"]
  PROVE  StepOf("ref") = StepOf("test")
<1>1. machine["test"].kind = "inprocess"
  BY MachineFacts DEF Sides
<1>2. Length("ref") = Length("test") /\ \A k : Does("ref", k) = Does("test", k)
  BY ZenonT(30) DEF Equal, Length, Does
<1>3. StepInProcess("ref") = StepInProcess("test")
  BY ZenonT(30), <1>2 DEF StepInProcess, Equal
<1> QED
  BY <1>1, <1>3 DEF StepOf

\* Nothing else happens in a lockstep comparison.
LEMMA LockstepActions ==
  ASSUME LockstepInv, mode = "lockstep", DiffNext
  PROVE  lockstep_fetch \/ lockstep_align \/ lockstep_aligned \/ lockstep_compare \/ limit_reached
BY ZenonT(30) DEF LockstepInv, DiffNext, run_block, block_instr, block_reg_write, block_goes_on,
       run_block_end, block_compared, block_compare_entry, block_finished, checkpoint_batch,
       checkpoint_bisect, checkpoint_divergence

\* Where the machines are, step by step.
LEMMA LockstepStep ==
  ASSUME DiffType, LockstepInv, mode = "lockstep", DiffNext
  PROVE  LockstepInv'
<1>0. /\ machine \in Pairs /\ matched \in Nat /\ mode # "checkpoint"
      /\ \A s \in Sides : /\ Length(s) \in Nat \ {0} /\ pos[s] \in Nat /\ pos[s] <= Length(s)
                          /\ offset[s] \in Nat
  BY ZenonT(30), MachineFacts DEF DiffType
<1>1. CASE lockstep_fetch
  <2>1. /\ machine' = machine /\ matched' = matched /\ offset' = offset /\ mode' = mode
        /\ phase' = IF matched = 0 THEN "align" ELSE "compare"
        /\ \A s \in Sides : state'[s] = StepOf(s).state /\ pos'[s] = StepOf(s).pos
        /\ phase = "loop"
    BY ZenonT(30), <1>1 DEF lockstep_fetch, Step
  <2>2. \A s \in Sides :
          /\ Shown(s)'
          /\ state'[s] # <<>> => pos'[s] = Least(offset'[s] + matched' + 1, Length(s)')
    <3> SUFFICES ASSUME NEW s \in Sides
                 PROVE  /\ Shown(s)'
                        /\ state'[s] # <<>> => pos'[s] = Least(offset'[s] + matched' + 1, Length(s)')
      OBVIOUS
    <3>1. pos[s] = Least(offset[s] + matched, Length(s))
      BY ZenonT(30), <2>1 DEF LockstepInv
    <3>2. Least(pos[s] + 1, Length(s)) = Least(offset[s] + matched + 1, Length(s))
      BY SMTT(30), <1>0, <3>1 DEF Least
    <3>3. /\ Length(s)' = Length(s)
          /\ \A k : Does(s, k)' = Does(s, k)
      BY ZenonT(30), <2>1, MachineKept
    <3>4. StepOf(s).state # <<>> =>
            /\ StepOf(s).pos = Least(pos[s] + 1, Length(s))
            /\ StepOf(s).state[1].pc = Does(s, StepOf(s).pos).pc
            /\ StepOf(s).state[1].rd = Does(s, StepOf(s).pos).rd
      BY ZenonT(30), <1>0, StepFacts
    <3> QED
      BY ZenonT(30), <2>1, <3>2, <3>3, <3>4 DEF Shown
  <2> QED
    BY ZenonT(30), <2>1, <2>2 DEF LockstepInv
<1>2. CASE lockstep_align
  <2>1. PICK stepped \in SUBSET Sides : Step(stepped)
    BY ZenonT(30), <1>2 DEF lockstep_align, Sides
  <2>2. /\ machine' = machine /\ matched' = matched /\ phase' = "align" /\ phase = "align"
        /\ \A s \in Sides : /\ state'[s] = IF s \in stepped THEN StepOf(s).state ELSE state[s]
                            /\ pos'[s] = IF s \in stepped THEN StepOf(s).pos ELSE pos[s]
    BY ZenonT(30), <1>2, <2>1 DEF lockstep_align, Step
  <2>3. \A s \in Sides : Shown(s)'
    <3> SUFFICES ASSUME NEW s \in Sides PROVE Shown(s)'
      OBVIOUS
    <3>1. Shown(s)
      BY ZenonT(30), <2>2 DEF LockstepInv
    <3>2. \A k : Does(s, k)' = Does(s, k)
      BY ZenonT(30), <2>2, MachineKept
    <3>3. StepOf(s).state # <<>> =>
            /\ StepOf(s).state[1].pc = Does(s, StepOf(s).pos).pc
            /\ StepOf(s).state[1].rd = Does(s, StepOf(s).pos).rd
      BY ZenonT(30), <1>0, StepFacts
    <3> QED
      BY ZenonT(30), <2>2, <3>1, <3>2, <3>3 DEF Shown
  <2> QED
    BY <2>2, <2>3 DEF LockstepInv
<1>3. CASE lockstep_aligned
  <2>1. /\ machine' = machine /\ matched' = 0 /\ matched = 0 /\ phase' = "compare" /\ phase = "align"
        /\ offset' = [s \in Sides |-> pos[s] - 1] /\ pos' = pos /\ state' = state
    BY ZenonT(30), <1>3 DEF lockstep_aligned, progress, LockstepInv
  <2>2. \A s \in Sides :
          Shown(s)' /\ pos'[s] = Least(offset'[s] + matched' + 1, Length(s)')
    <3> SUFFICES ASSUME NEW s \in Sides
                 PROVE  Shown(s)' /\ pos'[s] = Least(offset'[s] + matched' + 1, Length(s)')
      OBVIOUS
    <3>1. offset'[s] + matched' + 1 = pos[s] /\ pos'[s] = pos[s]
      BY <1>0, <2>1
    <3>2. Least(pos[s], Length(s)) = pos[s]
      BY <1>0 DEF Least
    <3>3. Shown(s)
      BY ZenonT(30), <2>1 DEF LockstepInv
    <3> QED
      BY <2>1, <3>1, <3>2, <3>3, MachineKept DEF Shown
  <2> QED
    BY ZenonT(30), <2>1, <2>2 DEF LockstepInv
<1>4. CASE lockstep_compare
  <2>1. /\ machine' = machine /\ offset' = offset /\ pos' = pos /\ state' = state /\ mode' = mode
        /\ phase = "compare" /\ Running
    BY ZenonT(30), <1>4 DEF lockstep_compare, progress
  <2>2. CASE phase' = "loop"
    <3>1. matched' = matched + 1 /\ state["ref"] # <<>> /\ state["test"] # <<>>
      BY <1>4, <2>1, <2>2 DEF lockstep_compare
    <3>2. \A s \in Sides : pos[s] = Least(offset[s] + matched + 1, Length(s))
      BY <2>1, <3>1 DEF LockstepInv, Sides
    <3>3. \A s \in Sides : offset[s] + matched + 1 = offset'[s] + matched'
      BY SMTT(30), <1>0, <2>1, <3>1
    <3> QED
      BY ZenonT(30), <2>1, <2>2, <3>2, <3>3, MachineKept DEF LockstepInv
  <2>3. CASE phase' = "compare" /\ ~Running'
    BY ZenonT(30), <2>1, <2>3 DEF LockstepInv
  <2> QED
    <3>1. \/ phase' = "loop"
          \/ /\ phase' = phase
             /\ \E kind \in {"differs", "same", "expected_tail", "actual_tail"} : \E k : Report(kind, k)
      BY ZenonT(30), <1>4 DEF lockstep_compare
    <3>2. \/ phase' = "loop"
          \/ phase' = phase /\ result'.kind \in {"differs", "same", "expected_tail", "actual_tail"}
      BY ZenonT(30), <3>1, Reported
    <3> QED
      BY ZenonT(30), <2>1, <2>2, <2>3, <3>2 DEF Running
<1>5. CASE limit_reached
  BY <1>5, MachineKept DEF limit_reached, progress, LockstepInv
<1> QED
  BY <1>1, <1>2, <1>3, <1>4, <1>5, LockstepActions

\* What has matched agrees, and what is reported differs.
LEMMA LockstepReports ==
  ASSUME DiffType, LockstepInv, ReportInv, mode = "lockstep", DiffNext
  PROVE  ReportInv'
<1>0. /\ machine \in Pairs /\ matched \in Nat /\ machine' = machine
      /\ \A s \in Sides : /\ Length(s) \in Nat \ {0} /\ pos[s] \in Nat /\ offset[s] \in Nat
  BY ZenonT(30), MachineFacts, LockstepActions DEF DiffType, lockstep_fetch, lockstep_align, lockstep_aligned,
     lockstep_compare, limit_reached
<1>1. CASE lockstep_fetch \/ lockstep_align
  BY ZenonT(30), <1>0, <1>1, MachineKept DEF lockstep_fetch, lockstep_align, ReportInv, Running
<1>2. CASE lockstep_aligned
  <2>1. matched' = 0 /\ result' = result /\ Running
    BY <1>2 DEF lockstep_aligned, LockstepInv, DiffType
  <2> QED
    BY SMTT(30), <2>1 DEF ReportInv, Running
<1>3. CASE lockstep_compare
  <2>1. /\ offset' = offset /\ overflowed' = overflowed /\ mode' = mode /\ mode # "checkpoint"
        /\ phase = "compare" /\ Running
    BY <1>3 DEF lockstep_compare
  <2>2. CASE state["ref"] # <<>> /\ state["test"] # <<>>
    <3>1. \A s \in Sides : /\ pos[s] = Least(offset[s] + matched + 1, Length(s)) /\ Shown(s)
                           /\ Does(s, pos[s]) = Does(s, offset[s] + matched + 1)
                           /\ Does(s, pos[s]) \in Instruction
      <4> SUFFICES ASSUME NEW s \in Sides
                   PROVE  /\ pos[s] = Least(offset[s] + matched + 1, Length(s)) /\ Shown(s)
                          /\ Does(s, pos[s]) = Does(s, offset[s] + matched + 1)
                          /\ Does(s, pos[s]) \in Instruction
        OBVIOUS
      <4>1. pos[s] = Least(offset[s] + matched + 1, Length(s)) /\ Shown(s)
        BY <2>1, <2>2 DEF LockstepInv, Sides
      <4>2. offset[s] + matched + 1 \in Nat \ {0}
        BY <1>0
      <4> QED
        BY ZenonT(30), <1>0, <4>1, <4>2, MachineFacts
    <3>2. compare_states(state["ref"][1], state["test"][1]) <=> AgreeAt(matched)
      BY SMTT(30), <2>2, <3>1, InstructionsEqual DEF AgreeAt, compare_states, Shown, Sides
    <3>3. CASE compare_states(state["ref"][1], state["test"][1])
      <4>1. /\ matched' = matched + 1
            /\ \/ result' = result
               \/ result'.kind = "same" /\ result'.index = matched + 1
        BY ZenonT(30), <1>3, <2>2, <3>3, Reported DEF lockstep_compare
      <4>2. /\ \A j \in 0 .. matched' - 1 : j \in 0 .. matched - 1 \/ j = matched
            /\ matched + 1 \in 0 .. matched'
        BY SMTT(30), <1>0, <4>1
      <4>3. \A j : AgreeAt(j)' = AgreeAt(j)
        BY ZenonT(30), <1>0, <2>1, MachineKept
      <4> QED
        BY ZenonT(30), <2>1, <3>2, <3>3, <4>1, <4>2, <4>3 DEF ReportInv, Running
    <3>4. CASE ~compare_states(state["ref"][1], state["test"][1])
      <4>1. matched' = matched /\ Report("differs", matched)
        BY ZenonT(30), <1>3, <2>2, <3>4 DEF lockstep_compare
      <4>2. result'.index = matched
        BY ZenonT(30), <4>1, Reported
      <4>3. matched \in 0 .. matched
        BY <1>0
      <4>4. \A j : AgreeAt(j)' = AgreeAt(j)
        BY ZenonT(30), <1>0, <2>1, MachineKept
      <4> QED
        BY ZenonT(30), <2>1, <3>2, <3>4, <4>1, <4>2, <4>3, <4>4 DEF ReportInv
    <3> QED
      BY ZenonT(30), <3>3, <3>4
  <2>3. CASE state["ref"] = <<>> \/ state["test"] = <<>>
    <3>1. /\ matched' = matched /\ result'.index = matched
          /\ result'.kind \in {"same", "expected_tail", "actual_tail"}
      <4>1. /\ matched' = matched
            /\ \E kind \in {"same", "expected_tail", "actual_tail"} : Report(kind, matched)
        BY ZenonT(30), <1>3, <2>3 DEF lockstep_compare
      <4> QED
        BY ZenonT(30), <4>1, Reported
    <3>2. matched \in 0 .. matched
      BY <1>0
    <3>3. \A j : AgreeAt(j)' = AgreeAt(j)
      BY ZenonT(30), <1>0, <2>1, MachineKept
    <3> QED
      BY ZenonT(30), <2>1, <3>1, <3>2, <3>3 DEF ReportInv
  <2> QED
    BY ZenonT(30), <2>2, <2>3
<1>4. CASE limit_reached
  <2>1. /\ matched' = matched /\ result' = [kind |-> "same", index |-> matched]
        /\ offset' = offset /\ overflowed' = overflowed /\ mode' = mode
    BY <1>4 DEF limit_reached, Report
  <2> QED
    BY <1>0, <2>1, MachineKept DEF ReportInv, Running
<1> QED
  BY ZenonT(30), <1>1, <1>2, <1>3, <1>4, LockstepActions

\* Equal machines stay together and are not told apart.
LEMMA LockstepEqual ==
  ASSUME DiffType, LockstepInv, EqualInv, mode = "lockstep", DiffNext
  PROVE  EqualInv'
<1>0. machine' = machine /\ machine \in Pairs /\ mode' = mode /\ overflowed' = overflowed
  BY ZenonT(30), LockstepActions DEF DiffType, lockstep_fetch, lockstep_align, lockstep_aligned,
     lockstep_compare, limit_reached
<1> SUFFICES ASSUME Equal, machine["ref"].kind = "inprocess"
             PROVE  /\ state'["ref"] = state'["test"] /\ exited'["ref"] = exited'["test"]
                    /\ pos'["ref"] = pos'["test"] /\ offset'["ref"] = offset'["test"]
                    /\ ~overflowed => ~Divergence'
  BY ZenonT(30), <1>0, MachineKept DEF EqualInv, EqualMachinesAgree
<1>1. /\ state["ref"] = state["test"] /\ exited["ref"] = exited["test"]
      /\ pos["ref"] = pos["test"] /\ offset["ref"] = offset["test"]
      /\ ~overflowed => ~Divergence
  BY ZenonT(30) DEF EqualInv, EqualMachinesAgree, FailingTail
<1>2. CASE lockstep_fetch
  <2>1. StepOf("ref") = StepOf("test")
    BY <1>0, <1>1, EqualSteps
  <2>2. Step(Sides) /\ offset' = offset /\ result' = result
    BY ZenonT(30), <1>2 DEF lockstep_fetch
  <2> QED
    BY <1>0, <1>1, <2>1, <2>2, MachineKept DEF Step, Sides, Divergence
<1>3. CASE lockstep_align
  BY ZenonT(30), <1>1, <1>3 DEF lockstep_align, Misaligned
<1>4. CASE lockstep_aligned
  BY SMTT(60), <1>0, <1>1, <1>4, MachineKept
     DEF lockstep_aligned, progress, Sides, Divergence
<1>5. CASE lockstep_compare
  <2>1. UNCHANGED <<state, exited, pos, offset>>
    BY ZenonT(30), <1>5 DEF lockstep_compare, progress
  <2>2. CASE state["ref"] = <<>>
    <3>1. result' = [kind |-> "same", index |-> matched]
      BY ZenonT(30), <1>1, <1>5, <2>2 DEF lockstep_compare, Report
    <3> QED
      BY ZenonT(30), <1>1, <2>1, <3>1 DEF Divergence
  <2>3. CASE state["ref"] # <<>>
    <3>1. compare_states(state["ref"][1], state["test"][1])
      BY ZenonT(30), <1>1 DEF compare_states
    <3>2. result' = result \/ result'.kind = "same"
      BY ZenonT(30), <1>1, <1>5, <2>3, <3>1, Reported DEF lockstep_compare
    <3>3. Divergence' => Divergence
      BY ZenonT(30), <3>2 DEF Divergence
    <3> QED
      BY ZenonT(30), <1>1, <2>1, <3>3
  <2> QED
    BY ZenonT(30), <2>2, <2>3
<1>6. CASE limit_reached
  BY <1>1, <1>6 DEF limit_reached, progress, Report, Divergence
<1> QED
  BY ZenonT(30), <1>2, <1>3, <1>4, <1>5, <1>6, LockstepActions

-----------------------------------------------------------------------------
(* Checkpoints. *)

\* checkpoint_match compares what it should.
LEMMA MatchIsAgreement ==
  ASSUME machine \in Pairs, NEW k \in Nat \ {0}
  PROVE  checkpoint_match(k) <=> AgreeAfter(k)
<1>1. /\ Length("ref") \in Nat \ {0} /\ Length("test") \in Nat \ {0}
      /\ "ref" \in Sides /\ "test" \in Sides
  BY MachineFacts DEF Sides
<1>2. Least(k, Length("ref")) = k <=> k <= Length("ref")
  BY <1>1 DEF Least
<1>3. Least(k, Length("test")) = k <=> k <= Length("test")
  BY SMTT(30), <1>1 DEF Least
<1>4. CASE ~(k <= Length("ref") /\ k <= Length("test"))
  BY ZenonT(30), <1>1, <1>2, <1>3, <1>4 DEF checkpoint_match, run_to_target, AgreeAfter
<1>5. CASE k <= Length("ref") /\ k <= Length("test")
  <2> DEFINE At(s) == run_to_target(s, k)
  <2>0. ASSUME NEW s \in Sides
        PROVE  /\ At(s).instret = k /\ At(s).regs = Does(s, k).rd /\ At(s).pc = Does(s, k).pc
               /\ At(s).has_exited = (k = Length(s))
               /\ At(s).exit_code = IF k = Length(s) THEN machine[s].exit_code ELSE 0
    BY ZenonT(30), <1>2, <1>3, <1>5 DEF run_to_target, Sides
  <2>1. ASSUME NEW s \in Sides, k = Length(s)
        PROVE  At(s).has_exited = TRUE /\ At(s).exit_code = machine[s].exit_code
    BY ZenonT(30), <2>0, <2>1
  <2>2. ASSUME NEW s \in Sides, k # Length(s)
        PROVE  At(s).has_exited = FALSE /\ At(s).exit_code = 0 /\ k < Length(s)
    <3>1. (k = Length(s)) = FALSE
      BY <2>2
    <3>2. At(s).has_exited = FALSE
      BY <2>0, <3>1, Zenon
    <3>3. At(s).exit_code = 0
      BY <2>0, <2>2
    <3>4. k < Length(s)
      BY <1>1, <1>5, <2>2 DEF Sides
    <3> QED
      BY <3>2, <3>3, <3>4
  <2> HIDE DEF At
  <2>m. checkpoint_match(k) <=>
          /\ At("ref").instret = k /\ At("test").instret = k
          /\ At("ref").regs = At("test").regs
          /\ At("ref").has_exited = At("test").has_exited
          /\ At("ref").exit_code = At("test").exit_code
          /\ At("ref").has_exited \/ At("ref").pc = At("test").pc
    BY Zenon DEF checkpoint_match, SnapshotsMatch, At
  <2>3. \A s \in Sides : k <= Length(s)
    BY <1>5 DEF Sides
  <2>4. CASE k = Length("ref") /\ k = Length("test")
    <3>1. checkpoint_match(k) <=> /\ Does("ref", k).rd = Does("test", k).rd
                                  /\ machine["ref"].exit_code = machine["test"].exit_code
      BY ZenonT(30), <1>1, <2>0, <2>1, <2>4, <2>m
    <3> QED
      BY SMTT(30), <1>1, <2>3, <2>4, <3>1 DEF AgreeAfter
  <2>5. CASE k # Length("ref") /\ k # Length("test")
    <3>1. checkpoint_match(k) <=> /\ Does("ref", k).rd = Does("test", k).rd
                                  /\ Does("ref", k).pc = Does("test", k).pc
      BY ZenonT(30), <1>1, <2>0, <2>2, <2>5, <2>m
    <3> QED
      BY <1>1, <2>2, <2>3, <2>5, <3>1 DEF AgreeAfter
  <2>6. CASE ~(k = Length("ref") <=> k = Length("test"))
    BY ZenonT(30), <1>1, <2>1, <2>2, <2>6, <2>m DEF AgreeAfter
  <2> QED
    BY ZenonT(30), <2>4, <2>5, <2>6
<1> QED
  BY <1>4, <1>5

\* Nothing else happens in a comparison by checkpoints.
LEMMA CheckpointActions ==
  ASSUME CheckpointInv, mode = "checkpoint", DiffNext
  PROVE  checkpoint_batch \/ checkpoint_bisect \/ checkpoint_divergence \/ limit_reached
BY ZenonT(30) DEF CheckpointInv, DiffNext, lockstep_fetch, lockstep_align, lockstep_aligned,
       lockstep_compare, run_block, block_instr, block_reg_write, block_goes_on,
       run_block_end, block_compared, block_compare_entry, block_finished


\* What a batch executes: as much of it as the machine has left.
LEMMA BatchFacts ==
  ASSUME DiffType, NEW size \in Nat \ {0}, NEW s \in Sides,
         pos[s] = matched, matched < Length(s)
  PROVE  LET after == Least(pos[s] + size, Length(s))
         IN  /\ after \in Nat /\ after - pos[s] \in 1 .. size
             /\ after = matched + (after - pos[s])
             /\ after <= Length(s)
             /\ after - pos[s] < size => after = Length(s)
BY SMTT(60), MachineFacts DEF DiffType, Least

\* The batches advance to agreement, and the bisection keeps agreement below
\* its interval and disagreement above it.
LEMMA CheckpointStep ==
  ASSUME DiffType, CheckpointInv, mode = "checkpoint", DiffNext
  PROVE  CheckpointInv'
<1>0. machine' = machine /\ machine \in Pairs /\ mode' = mode
  BY ZenonT(30), CheckpointActions DEF DiffType, checkpoint_batch, checkpoint_bisect, checkpoint_divergence,
     limit_reached
<1>1. /\ \A s \in Sides : Length(s)' = Length(s) /\ Length(s) \in Nat \ {0}
      /\ \A k : AgreeAfter(k)' <=> AgreeAfter(k)
      /\ "ref" \in Sides /\ "test" \in Sides
  BY ZenonT(30), <1>0, MachineKept, MachineFacts DEF Sides
<1>2. matched \in Nat /\ low \in Nat /\ high \in Nat
  BY DEF DiffType
<1>3. CASE checkpoint_batch
  <2> DEFINE size == Least(Limit - matched, Interval)
             after == [s \in Sides |-> Least(pos[s] + size, Length(s))]
             executed == [s \in Sides |-> after[s] - pos[s]]
             r == run_to_target("ref", after["ref"])
             t == run_to_target("test", after["test"])
  <2>1. /\ Running /\ phase = "loop" /\ size \in Nat \ {0}
        /\ \A s \in Sides : matched < Length(s) /\ pos[s] = matched
        /\ low = 0 /\ (matched > 0 => AgreeAfter(matched))
    <3>1. Running /\ phase = "loop" /\ matched < Limit
      BY ZenonT(30), <1>3 DEF checkpoint_batch
    <3>2. size \in Nat \ {0}
      BY SMTT(30), <1>2, <3>1, DiffAssumption DEF Least
    <3>3. /\ \A s \in Sides : matched < Length(s) /\ pos[s] = matched
          /\ low = 0 /\ (matched + low > 0 => AgreeAfter(matched + low))
      BY ZenonT(30), <3>1 DEF CheckpointInv
    <3>4. matched + low = matched
      BY <1>2, <3>3
    <3> QED
      BY ZenonT(30), <3>1, <3>2, <3>3, <3>4
  <2>2. \A s \in Sides : /\ after[s] \in Nat /\ executed[s] \in 1 .. size
                         /\ after[s] = matched + executed[s]
                         /\ after[s] <= Length(s)
                         /\ executed[s] < size => after[s] = Length(s)
    BY <2>1, BatchFacts
  <2>3. /\ r.instret = after["ref"] /\ t.instret = after["test"]
        /\ r.has_exited <=> after["ref"] = Length("ref")
    BY ZenonT(30), <1>1, <2>2 DEF run_to_target, Least
  <2>4. executed["ref"] = executed["test"] =>
          /\ after["ref"] = after["test"]
          /\ SnapshotsMatch(r, t) <=> AgreeAfter(after["ref"])
    <3> SUFFICES ASSUME executed["ref"] = executed["test"]
                 PROVE  /\ after["ref"] = after["test"]
                        /\ SnapshotsMatch(r, t) <=> AgreeAfter(after["ref"])
      BY ZenonT(30)
    <3>1. after["ref"] = after["test"] /\ after["ref"] \in Nat \ {0}
      BY SMTT(30), <1>1, <1>2, <2>2
    <3>2. checkpoint_match(after["ref"]) <=> SnapshotsMatch(r, t)
      BY ZenonT(30), <2>3, <3>1 DEF checkpoint_match
    <3> QED
      BY ZenonT(30), <1>0, <3>1, <3>2, MatchIsAgreement
  <2>5. /\ pos' = after
        /\ \/ /\ executed["ref"] = executed["test"] /\ SnapshotsMatch(r, t)
              /\ matched' = matched + executed["ref"]
              /\ IF r.has_exited THEN Report("same", matched') ELSE UNCHANGED result
              /\ UNCHANGED <<phase, low, high>>
           \/ /\ ~(executed["ref"] = executed["test"] /\ SnapshotsMatch(r, t))
              /\ phase' = "bisect"
              /\ low' = 0
              /\ high' = Least(Least(executed["ref"], executed["test"]), size)
              /\ UNCHANGED <<matched, result>>
    BY ZenonT(30), <1>3 DEF checkpoint_batch
  <2> HIDE DEF size, after, executed, r, t
  <2>6. CASE executed["ref"] = executed["test"] /\ SnapshotsMatch(r, t)
    <3>1. /\ matched' = after["ref"] /\ matched' = after["test"] /\ matched' \in Nat
          /\ AgreeAfter(matched') /\ phase' = "loop" /\ low' = 0
      BY ZenonT(30), <1>1, <2>1, <2>2, <2>4, <2>5, <2>6
    <3>2. CASE r.has_exited
      <4>1. result' = [kind |-> "same", index |-> matched']
        BY ZenonT(30), <2>5, <2>6, <3>2 DEF Report
      <4> QED
        BY <3>1, <4>1 DEF CheckpointInv, BisectsToBoundary, Running
    <3>3. CASE ~r.has_exited
      <4>1. result' = result
        BY ZenonT(30), <2>5, <2>6, <3>3
      <4>2. \A s \in Sides : matched' < Length(s)
        BY <1>1, <2>2, <2>3, <3>1, <3>3 DEF AgreeAfter, Sides
      <4>3. \A s \in Sides : pos'[s] = matched'
        BY ZenonT(30), <2>5, <3>1 DEF Sides
      <4> QED
        BY <1>1, <2>1, <3>1, <4>1, <4>2, <4>3 DEF CheckpointInv, BisectsToBoundary, Running
    <3> QED
      BY ZenonT(30), <3>2, <3>3
  <2>7. CASE ~(executed["ref"] = executed["test"] /\ SnapshotsMatch(r, t))
    <3>1. /\ matched' = matched /\ result' = result /\ phase' = "bisect" /\ low' = 0
          /\ high' = Least(Least(executed["ref"], executed["test"]), size)
      BY <2>5, <2>7
    <3>2. high' \in Nat /\ high' >= 1
      BY <1>1, <2>1, <2>2, <3>1 DEF Least
    <3>3. ~AgreeAfter(matched + high') \/ ~AgreeAfter(matched + high' + 1)
      <4>1. CASE executed["ref"] = executed["test"]
        <5>1. high' = executed["ref"]
          BY SMTT(30), <1>1, <2>1, <2>2, <3>1, <4>1 DEF Least
        <5> QED
          BY ZenonT(30), <1>1, <2>2, <2>4, <2>7, <4>1, <5>1
      <4>2. CASE executed["ref"] < executed["test"]
        <5>1. high' = executed["ref"] /\ matched + high' = Length("ref")
          BY SMTT(30), <1>1, <2>1, <2>2, <3>1, <4>2 DEF Least
        <5> QED
          BY <1>1, <5>1 DEF AgreeAfter
      <4>3. CASE executed["test"] < executed["ref"]
        <5>1. high' = executed["test"] /\ matched + high' = Length("test")
          BY <1>1, <2>1, <2>2, <3>1, <4>3 DEF Least
        <5> QED
          BY <1>1, <5>1 DEF AgreeAfter
      <4> QED
        BY <1>1, <2>2, <4>1, <4>2, <4>3
    <3> QED
      BY <1>1, <1>2, <2>1, <3>1, <3>2, <3>3 DEF CheckpointInv, BisectsToBoundary, Running
  <2> QED
    BY ZenonT(30), <2>6, <2>7
<1>4. CASE checkpoint_bisect
  <2> DEFINE mid == (low + high + 1) \div 2
  <2>1. /\ phase = "bisect" /\ Running /\ low < high
        /\ IF checkpoint_match(matched + mid)
             THEN low' = mid /\ high' = high
             ELSE high' = mid - 1 /\ low' = low
        /\ UNCHANGED <<phase, matched, result>>
    BY <1>4 DEF checkpoint_bisect
  <2>2. mid \in Nat /\ low < mid /\ mid <= high
    BY <1>2, <2>1
  <2> HIDE DEF mid
  <2>3. matched + mid \in Nat \ {0}
    BY <1>2, <2>2
  <2>4. checkpoint_match(matched + mid) <=> AgreeAfter(matched + mid)
    BY ZenonT(30), <1>0, <2>3, MatchIsAgreement
  <2>5. /\ \A s \in Sides : matched < Length(s)
        /\ \/ ~AgreeAfter(matched + high + 1)
           \/ low < high /\ ~AgreeAfter(matched + high)
        /\ matched + low > 0 => AgreeAfter(matched + low)
        /\ result.kind = "running"
    BY ZenonT(30), <2>1 DEF CheckpointInv, Running
  <2>6. CASE AgreeAfter(matched + mid)
    <3>1. low' = mid /\ high' = high
      BY <2>1, <2>4, <2>6
    <3>2. AgreeAfter(matched + high) \/ mid < high
      BY SMTT(30), <1>2, <2>2, <2>6
    <3> QED
      BY <1>1, <1>2, <2>1, <2>2, <2>5, <2>6, <3>1, <3>2 DEF CheckpointInv, BisectsToBoundary, Running
  <2>7. CASE ~AgreeAfter(matched + mid)
    <3>1. low' = low /\ high' = mid - 1
      BY <2>1, <2>4, <2>7
    <3>2. matched + (mid - 1) + 1 = matched + mid
      BY SMTT(30), <1>2, <2>2
    <3> QED
      BY <1>1, <1>2, <2>1, <2>2, <2>5, <2>7, <3>1, <3>2 DEF CheckpointInv, BisectsToBoundary, Running
  <2> QED
    BY <2>6, <2>7
<1>5. CASE checkpoint_divergence
  <2>1. /\ phase = "bisect" /\ Running /\ low = high /\ phase' = phase
        /\ result' = [kind |-> "differs", index |-> matched + low]
    BY <1>5 DEF checkpoint_divergence, Report
  <2>2. /\ ~AgreeAfter(matched + low + 1)
        /\ matched + low > 0 => AgreeAfter(matched + low)
    BY SMTT(30), <1>2, <2>1 DEF CheckpointInv
  <2> QED
    BY <1>1, <2>1, <2>2 DEF CheckpointInv, BisectsToBoundary, Running
<1>6. CASE limit_reached
  <2>1. result' = [kind |-> "same", index |-> matched] /\ phase' = "loop"
    BY ZenonT(30), <1>6 DEF limit_reached, Report
  <2> QED
    BY <2>1 DEF CheckpointInv, BisectsToBoundary, Running
<1> QED
  BY <1>3, <1>4, <1>5, <1>6, CheckpointActions


\* Checkpoints of equal machines match.
LEMMA CheckpointEqual ==
  ASSUME DiffType, CheckpointInv, EqualInv, mode = "checkpoint", DiffNext
  PROVE  EqualInv'
<1>0. machine' = machine /\ machine \in Pairs /\ mode' = mode
  BY ZenonT(30), CheckpointActions DEF DiffType, checkpoint_batch, checkpoint_bisect, checkpoint_divergence,
     limit_reached
<1> SUFFICES ASSUME Equal, machine["ref"].kind = "inprocess"
             PROVE  phase' = "loop" /\ pos'["ref"] = pos'["test"] /\ ~Divergence'
  BY ZenonT(30), <1>0, MachineKept DEF EqualInv, EqualMachinesAgree
<1>1. phase = "loop" /\ pos["ref"] = pos["test"]
  BY ZenonT(30) DEF EqualInv
<1>2. Length("ref") = Length("test") /\ \A k : run_to_target("ref", k) = run_to_target("test", k)
  BY ZenonT(30) DEF Equal, Length, Does, run_to_target
<1>3. CASE checkpoint_batch
  <2> DEFINE size == Least(Limit - matched, Interval)
             after == [s \in Sides |-> Least(pos[s] + size, Length(s))]
             executed == [s \in Sides |-> after[s] - pos[s]]
             r == run_to_target("ref", after["ref"])
             t == run_to_target("test", after["test"])
  <2>1. after["ref"] = after["test"] /\ executed["ref"] = executed["test"]
    BY ZenonT(30), <1>1, <1>2 DEF Sides
  <2>2. r = t
    BY ZenonT(30), <1>2, <2>1
  <2>3. /\ pos' = after
        /\ SnapshotsMatch(r, t) /\ executed["ref"] = executed["test"] =>
             /\ phase' = phase
             /\ result' = result \/ result' = [kind |-> "same", index |-> matched']
    BY ZenonT(30), <1>3 DEF checkpoint_batch, Report
  <2> HIDE DEF after, executed, r, t
  <2>4. Running
    BY ZenonT(30), <1>3 DEF checkpoint_batch
  <2>5. SnapshotsMatch(r, t)
    <3>1. r.has_exited \/ r.pc = t.pc
      BY ZenonT(30), <2>2
    <3> QED
      BY <2>2, <3>1 DEF SnapshotsMatch
  <2> QED
    BY SMTT(30), <1>1, <2>1, <2>3, <2>4, <2>5 DEF Divergence, Running
<1>4. CASE limit_reached
  BY ZenonT(30), <1>1, <1>4 DEF limit_reached, progress, Report, Divergence
<1> QED
  BY ZenonT(30), <1>1, <1>3, <1>4, CheckpointActions DEF checkpoint_bisect, checkpoint_divergence

-----------------------------------------------------------------------------
(* Blocks. *)

\* Nothing else happens in a comparison by blocks.
LEMMA BlockActions ==
  ASSUME BlockInv, mode = "block", DiffNext
  PROVE  /\ \/ run_block \/ block_instr \/ block_reg_write \/ block_goes_on \/ run_block_end
            \/ block_compared \/ block_compare_entry \/ block_finished \/ limit_reached
         /\ UNCHANGED <<mode, machine, offset>>
         /\ overflowed' = overflowed \/ run_block_end
<1>1. \/ run_block \/ block_instr \/ block_reg_write \/ block_goes_on \/ run_block_end
      \/ block_compared \/ block_compare_entry \/ block_finished \/ limit_reached
  BY ZenonT(30) DEF BlockInv, DiffNext, lockstep_fetch, lockstep_align, lockstep_aligned, lockstep_compare,
     checkpoint_batch, checkpoint_bisect, checkpoint_divergence
<1> QED
  BY ZenonT(30), <1>1 DEF run_block, block_instr, block_reg_write, block_goes_on, run_block_end,
     block_compared, block_compare_entry, block_finished, limit_reached

\* The entry to compare is what the reference did, and it is compared with what
\* the test machine does at the same place.
LEMMA EntryFacts ==
  ASSUME DiffType, RingInv, BlockInv, mode = "block", phase = "entries", Running,
         index < count, ~overflowed
  PROVE  /\ index < Len(history)
         /\ StepOf("test").state # <<>> =>
              compare_states(get(index), StepOf("test").state[1]) <=> AgreeAt(matched)
<1>0. /\ matched \in Nat /\ index \in Nat /\ machine \in Pairs
      /\ Length("test") \in Nat \ {0} /\ Length("ref") \in Nat \ {0}
      /\ "test" \in Sides /\ "ref" \in Sides
  BY ZenonT(30), MachineFacts DEF DiffType, Sides
<1>1. /\ dropped = 0 /\ ~tracing /\ index <= matched
      /\ Traced(matched - index)
      /\ pos["test"] = Least(matched, Length("test"))
      /\ offset["ref"] = 0 /\ offset["test"] = 0
  BY <1>0 DEF BlockInv
<1>2. count \in Nat /\ count = Len(history) /\ get(index) = history[index + 1]
  <2>1. RingKeepsLast
    BY InvKeepsLast
  <2>2. count \in Nat /\ history \in Seq(DiffEntry)
    BY DEF RingInv, RingType
  <2>3. count + dropped = Len(history) /\ \A i \in 0 .. count - 1 : get(i) = history[dropped + i + 1]
    BY <1>1, <2>1 DEF RingKeepsLast
  <2>4. index \in 0 .. count - 1
    BY SMTT(30), <1>0, <2>2
  <2> QED
    BY <1>0, <1>1, <2>2, <2>3, <2>4
<1>3. /\ get(index).pc = Does("ref", matched + 1).pc
      /\ get(index).rd = Does("ref", matched + 1).rd
  <2>1. index + 1 \in 1 .. Len(history) /\ matched - index + (index + 1) = matched + 1
    BY SMTT(30), <1>0, <1>1, <1>2
  <2> QED
    BY <1>2, <1>1, <2>1 DEF Traced
<1>4. ASSUME StepOf("test").state # <<>>
      PROVE  /\ StepOf("test").state[1].pc = Does("test", matched + 1).pc
             /\ StepOf("test").state[1].rd = Does("test", matched + 1).rd
  <2>1. StepOf("test").pos = Least(matched + 1, Length("test"))
    <3>1. StepOf("test").pos = Least(pos["test"] + 1, Length("test"))
      BY ZenonT(30), <1>0, <1>4, StepFacts
    <3>2. Least(Least(matched, Length("test")) + 1, Length("test")) = Least(matched + 1, Length("test"))
      BY ZenonT(30), <1>0, LeastNext
    <3> QED
      BY ZenonT(30), <1>1, <3>1, <3>2
  <2>2. Does("test", matched + 1) = Does("test", Least(matched + 1, Length("test")))
    BY <1>0, MachineFacts
  <2> QED
    BY SMTT(60), <1>0, <1>4, <2>1, <2>2, StepFacts
<1>5. Does("ref", matched + 1) \in Instruction /\ Does("test", matched + 1) \in Instruction
  BY <1>0, MachineFacts
<1>6. AgreeAt(matched) <=> Does("ref", matched + 1) = Does("test", matched + 1)
  BY <1>0, <1>1 DEF AgreeAt
<1> QED
  BY SMTT(60), <1>0, <1>2, <1>3, <1>4, <1>5, <1>6, InstructionsEqual DEF compare_states


\* The reference is ahead by what the ring holds, step by step.
LEMMA BlockStep ==
  ASSUME DiffType, RingInv, RingInv', BlockInv, mode = "block", DiffNext
  PROVE  BlockInv'
<1>0. /\ matched \in Nat /\ index \in Nat /\ machine \in Pairs
      /\ Length("test") \in Nat \ {0} /\ Length("ref") \in Nat \ {0}
      /\ pos \in [Sides -> Nat]
      /\ "test" \in Sides /\ "ref" \in Sides /\ "ref" # "test"
      /\ history \in Seq(DiffEntry) /\ history' \in Seq(DiffEntry) /\ dropped' \in Nat
      /\ count \in Nat
  BY MachineFacts DEF DiffType, Sides, RingInv, RingType
<1>1. UNCHANGED <<mode, machine, offset>> /\ (overflowed' = overflowed \/ run_block_end)
  BY BlockActions
<1>2. /\ \A s : Length(s)' = Length(s)
      /\ \A s, k : Does(s, k)' = Does(s, k)
  BY ZenonT(30), <1>1, MachineKept
<1>3. CASE run_block
  <2>1. /\ phase = "loop" /\ Running /\ matched < Limit /\ phase' = "block" /\ tracing' = TRUE
        /\ history' = <<>> /\ UNCHANGED <<pos, matched, result, overflowed>>
    BY <1>3 DEF run_block, trace_init, Emptied, progress
  <2>2. Len(history') = 0
    BY <2>1
  <2> QED
    <3>1. matched' + Len(history') = matched /\ 1 .. Len(history') = {}
      BY SMTT(30), <1>0, <2>1, <2>2
    <3>2. Traced(matched)'
      BY ZenonT(30), <3>1 DEF Traced
    <3>3. /\ \A s \in Sides : offset[s] = 0
          /\ pos["test"] = Least(matched, Length("test"))
          /\ ~overflowed => pos["ref"] = Least(matched, Length("ref"))
      BY ZenonT(30), <2>1 DEF BlockInv
    <3> QED
      BY ZenonT(30), <1>1, <1>2, <2>1, <3>1, <3>2, <3>3 DEF BlockInv, Running
<1>4. CASE block_instr
  <2> DEFINE k == Least(pos["ref"] + 1, Length("ref"))
             n == Len(history)
  <2>1. /\ phase = "block" /\ Running /\ tracing' = TRUE /\ current_valid' = TRUE
        /\ history' = Append(history, Started(Does("ref", k).pc))
        /\ pos' = [pos EXCEPT !["ref"] = k]
        /\ phase' = IF Does("ref", k).rd = NoValue THEN "instr_done" ELSE "instr"
        /\ UNCHANGED <<matched, result, overflowed>>
    BY ZenonT(30), <1>4 DEF block_instr, trace_pc, BlockInv, RingInv, RingType
  <2>2. n \in Nat /\ Len(history') = n + 1
    BY SMTT(30), <1>0, <2>1
  <2>3. history'[n + 1] = Started(Does("ref", k).pc) /\ \A j \in 1 .. n : history'[j] = history[j]
    BY <1>0, <2>1
  <2>4. pos'["ref"] = k /\ pos'["test"] = pos["test"]
    BY ZenonT(30), <1>0, <2>1
  <2>5. ASSUME ~overflowed
        PROVE  /\ pos'["ref"] = Least(matched + n + 1, Length("ref"))
               /\ Does("ref", k) = Does("ref", matched + n + 1)
               /\ Traced(matched)
    <3>1. pos["ref"] = Least(matched + n, Length("ref")) /\ Traced(matched)
      BY <2>1, <2>5 DEF BlockInv
    <3>2. k = Least(matched + n + 1, Length("ref"))
      BY SMTT(30), <1>0, <2>2, <3>1 DEF Least
    <3> QED
      BY SMTT(60), <1>0, <2>2, <2>4, <3>1, <3>2, MachineFacts
  <2>6. ASSUME ~overflowed, NEW j \in 1 .. n + 1
        PROVE  /\ history'[j].pc = Does("ref", matched + j).pc
               /\ history'[j].rd = IF phase' = "instr" /\ j = n + 1 THEN NoValue
                                   ELSE Does("ref", matched + j).rd
    <3>1. CASE j = n + 1
      <4>1. history'[j].pc = Does("ref", k).pc /\ history'[j].rd = NoValue
        BY SMTT(60), <2>3, <3>1 DEF Started
      <4>2. Does("ref", k) = Does("ref", matched + j)
        BY SMTT(30), <1>0, <2>2, <2>5, <2>6, <3>1
      <4> QED
        BY ZenonT(30), <2>1, <3>1, <4>1, <4>2
    <3>2. CASE j # n + 1
      <4>1. j \in 1 .. n
        BY SMTT(30), <2>2, <3>2
      <4> QED
        BY ZenonT(30), <2>1, <2>3, <2>5, <2>6, <3>2, <4>1 DEF Traced
    <3> QED
      BY ZenonT(30), <3>1, <3>2
  <2>7. ~overflowed => Traced(matched)'
    BY <1>2, <2>1, <2>2, <2>6 DEF Traced
  <2> HIDE DEF k, n
  <2>8. Len(history') > 0 /\ (phase' = "instr" \/ phase' = "instr_done")
    BY <2>1, <2>2
  <2>9. ~overflowed => pos'["ref"] = Least(matched' + Len(history'), Length("ref"))
    <3>1. matched' = matched
      BY <2>1
    <3>2. matched' + Len(history') = matched + n + 1
      BY SMTT(30), <1>0, <2>2, <3>1
    <3> QED
      BY <2>5, <3>2
  <2> QED
    BY ZenonT(30), <1>0, <1>1, <1>2, <2>1, <2>4, <2>7, <2>8, <2>9 DEF BlockInv, Running
<1>5. CASE block_reg_write
  <2> DEFINE n == Len(history)
             v == Does("ref", pos["ref"]).rd
  <2>1. /\ phase = "instr" /\ Running /\ tracing' = tracing /\ current_valid' = current_valid
        /\ history' = [history EXCEPT ![n] = [history[n] EXCEPT !["rd"] = v]]
        /\ phase' = "instr_done"
        /\ UNCHANGED <<pos, matched, result, overflowed>>
    BY <1>5 DEF block_reg_write, trace_reg_write, Record, BlockInv, progress
  <2>2. n \in Nat /\ n > 0 /\ Len(history') = n /\ history[n] \in DiffEntry
    BY <1>0, <2>1 DEF BlockInv
  <2>3. /\ history'[n].pc = history[n].pc /\ history'[n].rd = v
        /\ \A j \in 1 .. n : j # n => history'[j] = history[j]
    BY SMTT(30), <1>0, <2>1, <2>2 DEF DiffEntry
  <2>4. ASSUME ~overflowed
        PROVE  /\ pos["ref"] = Least(matched + n, Length("ref"))
               /\ Traced(matched)
               /\ v = Does("ref", matched + n).rd
    <3>1. pos["ref"] = Least(matched + n, Length("ref")) /\ Traced(matched)
      BY ZenonT(30), <2>1, <2>4 DEF BlockInv
    <3> QED
      BY <1>0, <2>2, <3>1, MachineFacts
  <2>5. ~overflowed => Traced(matched)'
    BY SMTT(30), <1>2, <2>1, <2>2, <2>3, <2>4 DEF Traced
  <2> HIDE DEF v
  <2> QED
    BY ZenonT(30), <1>0, <1>1, <1>2, <2>1, <2>2, <2>4, <2>5 DEF BlockInv, Running
<1>6. CASE block_goes_on
  <2>1. phase = "instr_done" /\ phase' = "block" /\ UNCHANGED <<ringVars, pos, matched, result, overflowed>>
    BY ZenonT(30), <1>6 DEF block_goes_on, progress
  <2> QED
    BY ZenonT(30), <1>1, <1>2, <2>1 DEF BlockInv, Running, Traced, ringVars, ring
<1>7. CASE run_block_end
  <2>1. /\ phase = "instr_done" /\ tracing' = FALSE /\ history' = history
        /\ index' = 0 /\ overflowed' = (overflowed \/ dropped' > 0) /\ phase' = "entries"
        /\ UNCHANGED <<pos, matched, result>>
    BY ZenonT(30), <1>7 DEF run_block_end, trace_fini
  <2>2. ~overflowed' => ~overflowed /\ dropped' = 0
    <3>1. ~overflowed' => ~overflowed /\ ~(dropped' > 0)
      BY <2>1, Zenon
    <3> QED
      BY <1>0, <3>1
  <2>3. ASSUME ~overflowed'
        PROVE  /\ pos["ref"] = Least(matched + Len(history), Length("ref"))
               /\ Traced(matched)
    BY ZenonT(30), <2>1, <2>2, <2>3 DEF BlockInv
  <2>4. ~overflowed' => Traced(matched - index)'
    <3>1. matched' - index' = matched
      BY <1>0, <2>1
    <3> QED
      BY ZenonT(30), <1>2, <2>1, <2>3, <3>1 DEF Traced
  <2> QED
    BY SMTT(60), <1>0, <1>1, <1>2, <2>1, <2>2, <2>3, <2>4 DEF BlockInv, Running
<1>8. CASE block_compared
  <2>1. /\ phase = "entries" /\ Running /\ phase' = "loop" /\ (index >= count \/ matched >= Limit)
        /\ UNCHANGED <<ringVars, pos, matched, result, overflowed>>
    BY <1>8 DEF block_compared, progress
  <2>2. ~overflowed /\ matched < Limit => pos["ref"] = Least(matched, Length("ref"))
    <3> SUFFICES ASSUME ~overflowed, matched < Limit
                 PROVE  pos["ref"] = Least(matched, Length("ref"))
      OBVIOUS
    <3>1. /\ dropped = 0 /\ index <= Len(history) /\ index <= matched /\ ~tracing
          /\ pos["ref"] = Least(matched - index + Len(history), Length("ref"))
      BY <2>1 DEF BlockInv
    <3>2. count = Len(history)
      BY <1>0, <3>1, InvKeepsLast DEF RingKeepsLast
    <3>3. index = Len(history)
      BY SMTT(30), <1>0, <2>1, <3>1, <3>2, DiffAssumption
    <3> QED
      BY <1>0, <3>1, <3>3
  <2> QED
    BY <1>1, <1>2, <2>1, <2>2 DEF BlockInv, Running, ringVars, ring
<1>9. CASE block_compare_entry
  <2>1. /\ phase = "entries" /\ Running /\ phase' = phase /\ index' = index + 1
        /\ index < count /\ UNCHANGED <<ringVars, overflowed>>
        /\ pos'["test"] = StepOf("test").pos /\ pos'["ref"] = pos["ref"]
        /\ state'["test"] = StepOf("test").state
    BY ZenonT(30), <1>0, <1>9 DEF block_compare_entry, Step
  <2>2. Running' => matched' = matched + 1 /\ state'["test"] # <<>>
    <3>1. \/ matched' = matched + 1 /\ state'["test"] # <<>>
          \/ \E kind \in {"expected_tail", "differs"} : Report(kind, matched)
      BY ZenonT(30), <1>9 DEF block_compare_entry
    <3>2. \/ matched' = matched + 1 /\ state'["test"] # <<>>
          \/ result'.kind \in {"expected_tail", "differs"}
      BY ZenonT(30), <3>1, Reported
    <3> QED
      BY ZenonT(30), <3>2 DEF Running
  <2>3. Running' => pos'["test"] = Least(matched', Length("test"))
    <3>1. pos["test"] = Least(matched, Length("test"))
      BY <2>1 DEF BlockInv
    <3> QED
      <4>1. StepOf("test").state # <<>> => StepOf("test").pos = Least(pos["test"] + 1, Length("test"))
        BY ZenonT(30), <1>0, StepFacts
      <4>2. Least(Least(matched, Length("test")) + 1, Length("test")) = Least(matched + 1, Length("test"))
        BY ZenonT(30), <1>0, LeastNext
      <4> QED
        BY ZenonT(30), <2>1, <2>2, <3>1, <4>1, <4>2
  <2>4. Running' => matched' - index' = matched - index
    BY SMTT(30), <1>0, <2>1, <2>2
  <2>5. ~overflowed => index < Len(history)
    BY ZenonT(30), <2>1, EntryFacts
  <2> QED
    <3>1. UNCHANGED <<tracing, history, dropped>>
      BY ZenonT(30), <2>1 DEF ringVars, ring
    <3>2. ~overflowed =>
            /\ dropped = 0 /\ index <= matched
            /\ pos["ref"] = Least(matched - index + Len(history), Length("ref"))
            /\ Traced(matched - index)
      BY ZenonT(30), <2>1 DEF BlockInv
    <3>3. ~overflowed /\ Running' => index' <= Len(history) /\ index' <= matched'
      BY SMTT(30), <1>0, <2>1, <2>2, <2>5, <3>2
    <3>4. ~overflowed /\ Running' => Traced(matched - index)'
      BY ZenonT(30), <1>2, <2>1, <2>4, <3>1, <3>2 DEF Traced
    <3>5. /\ ~tracing
          /\ \A s \in Sides : offset[s] = 0
      BY ZenonT(30), <2>1 DEF BlockInv
    <3> QED
      BY ZenonT(30), <1>1, <1>2, <2>1, <2>3, <2>4, <3>1, <3>2, <3>3, <3>4, <3>5 DEF BlockInv
<1>10. CASE block_finished \/ limit_reached
  <2>1. /\ phase = "loop" /\ phase' = "loop" /\ UNCHANGED <<ringVars, overflowed>>
        /\ result'.kind # "running"
    <3>1. \E kind \in {"same", "actual_tail"} : Report(kind, matched)
      BY ZenonT(30), <1>10 DEF block_finished, limit_reached
    <3>2. result'.kind \in {"same", "actual_tail"}
      BY ZenonT(30), <3>1, Reported
    <3> QED
      BY ZenonT(30), <1>10, <3>2 DEF block_finished, limit_reached
  <2> QED
    BY ZenonT(30), <1>1, <1>2, <2>1 DEF BlockInv, Running, ringVars, ring
<1> QED
  BY ZenonT(30), <1>3, <1>4, <1>5, <1>6, <1>7, <1>8, <1>9, <1>10, BlockActions


\* What is reported by blocks is the first difference.
LEMMA BlockReports ==
  ASSUME DiffType, RingInv, BlockInv, ReportInv, mode = "block", DiffNext
  PROVE  ReportInv'
<1>0. matched \in Nat /\ machine \in Pairs /\ "test" \in Sides
  BY DEF DiffType, Sides
<1>1. /\ UNCHANGED <<mode, machine, offset>>
      /\ \A j : AgreeAt(j)' = AgreeAt(j)
  BY BlockActions, MachineKept
<1>2. ~overflowed' => ~overflowed
  <2>1. CASE overflowed' = overflowed
    BY <2>1
  <2>2. CASE run_block_end
    <3>1. overflowed' = (overflowed \/ dropped' > 0)
      BY ZenonT(30), <2>2 DEF run_block_end
    <3> QED
      BY <3>1, Zenon
  <2> QED
    BY <2>1, <2>2, BlockActions
<1> SUFFICES ASSUME ~overflowed
             PROVE  /\ \A j \in 0 .. matched' - 1 : AgreeAt(j)
                    /\ ~Running' => result'.index \in 0 .. matched'
                    /\ result'.kind = "differs" => ~AgreeAt(result'.index)
  BY <1>1, <1>2 DEF ReportInv, Running
<1>3. /\ \A j \in 0 .. matched - 1 : AgreeAt(j)
      /\ ~Running => result.index \in 0 .. matched
      /\ result.kind = "differs" => ~AgreeAt(result.index)
  BY DEF ReportInv
<1>4. CASE UNCHANGED <<matched, result>>
  BY ZenonT(30), <1>3, <1>4 DEF Running
<1>5. CASE block_compare_entry
  <2> DEFINE t == StepOf("test").state
  <2>1. /\ phase = "entries" /\ Running /\ index < count
        /\ \/ /\ t = <<>>
              /\ result' = [kind |-> "expected_tail", index |-> matched] /\ matched' = matched
           \/ /\ t # <<>> /\ ~compare_states(get(index), t[1])
              /\ result' = [kind |-> "differs", index |-> matched] /\ matched' = matched
           \/ /\ t # <<>> /\ compare_states(get(index), t[1])
              /\ matched' = matched + 1
              /\ \/ result' = [kind |-> "expected_tail", index |-> matched]
                 \/ result' = result
    <3>1. state'["test"] = t
      BY ZenonT(30), <1>0, <1>5 DEF block_compare_entry, Step
    <3> QED
      BY ZenonT(30), <1>5, <3>1 DEF block_compare_entry, Report
  <2>2. t # <<>> => compare_states(get(index), t[1]) <=> AgreeAt(matched)
    BY ZenonT(30), <2>1, EntryFacts
  <2> HIDE DEF t
  <2>3. CASE matched' = matched
    BY SMTT(30), <1>0, <1>3, <2>1, <2>2, <2>3 DEF Running
  <2>4. CASE matched' = matched + 1 /\ AgreeAt(matched)
    <3>1. \A j \in 0 .. matched' - 1 : j \in 0 .. matched - 1 \/ j = matched
      BY <1>0, <2>4
    <3> QED
      BY <1>0, <1>3, <2>1, <2>4, <3>1 DEF Running
  <2> QED
    BY ZenonT(30), <2>1, <2>2, <2>3, <2>4
<1>6. CASE block_finished \/ limit_reached
  <2>1. /\ matched' = matched /\ result'.kind # "differs" /\ result'.index = matched
    BY SMTT(30), <1>6 DEF block_finished, limit_reached, Report
  <2> QED
    BY SMTT(30), <1>0, <1>3, <2>1
<1> QED
  BY ZenonT(30), <1>4, <1>5, <1>6, BlockActions DEF run_block, block_instr, block_reg_write, block_goes_on,
     run_block_end, block_compared

\* Blocks of a guest that does not fail match the steps of an equal machine.
LEMMA PassingBlocks ==
  ASSUME DiffType, RingInv, BlockInv, EqualInv, mode = "block", DiffNext,
         Equal, machine["ref"].kind = "inprocess", machine["ref"].exit_code = 0
  PROVE  /\ ~exited'["ref"] /\ ~exited'["test"]
         /\ ~overflowed' => ~Divergence'
<1>0. machine \in Pairs /\ "test" \in Sides /\ "ref" \in Sides /\ exited \in [Sides -> BOOLEAN]
  BY DEF DiffType, Sides
<1>2. ~exited["ref"] /\ ~exited["test"] /\ (~overflowed => ~Divergence)
  BY ZenonT(30) DEF EqualInv, EqualMachinesAgree, FailingTail
<1>3. CASE run_block_end
  <2>1. /\ exited' = [exited EXCEPT !["ref"] = pos["ref"] = Length("ref") /\ machine["ref"].exit_code # 0]
        /\ result' = result /\ overflowed' = (overflowed \/ dropped' > 0)
    BY <1>3 DEF run_block_end
  <2>2. ~overflowed' => ~overflowed
    BY <2>1, Zenon
  <2>3. ~exited'["ref"] /\ ~exited'["test"]
    BY ZenonT(30), <1>0, <1>2, <2>1
  <2> QED
    BY ZenonT(30), <1>2, <2>1, <2>2, <2>3 DEF Divergence
<1>4. CASE block_compare_entry
  <2> DEFINE t == StepOf("test").state
  <2>1. /\ machine["test"].kind = "inprocess" /\ machine["test"].exit_code = 0
    BY ZenonT(30), <1>0, MachineFacts DEF Equal
  <2>2. t # <<>> /\ ~StepOf("test").exited /\ ~t[1].is_exit
    BY ZenonT(30), <1>0, <1>2, <2>1, StepFacts
  <2>3. /\ state'["test"] = t /\ exited'["test"] = StepOf("test").exited
        /\ exited'["ref"] = exited["ref"]
        /\ phase = "entries" /\ Running /\ index < count /\ overflowed' = overflowed
    BY ZenonT(30), <1>0, <1>4 DEF block_compare_entry, Step
  <2>4. ~overflowed => compare_states(get(index), t[1])
    <3>1. AgreeAt(matched)
      BY ZenonT(30) DEF AgreeAt, Equal, Does, Length, BlockInv, Sides
    <3> QED
      BY ZenonT(30), <2>2, <2>3, <3>1, EntryFacts
  <2> HIDE DEF t
  <2>5. ~overflowed => result' = result
    BY ZenonT(30), <1>4, <2>2, <2>3, <2>4 DEF block_compare_entry
  <2> QED
    BY <1>2, <2>2, <2>3, <2>5 DEF Divergence
<1>5. CASE block_finished
  BY ZenonT(30), <1>2, <1>5 DEF block_finished
<1>6. CASE limit_reached
  BY <1>2, <1>6 DEF limit_reached, progress, Report, Divergence
<1>7. CASE UNCHANGED <<exited, result, overflowed>>
  BY <1>2, <1>7 DEF Divergence
<1> QED
  BY ZenonT(30), <1>3, <1>4, <1>5, <1>6, <1>7, BlockActions DEF run_block, block_instr, block_reg_write,
     block_goes_on, block_compared, progress

\* An executor that has not exited shows the exit when it reaches it.
LEMMA FailingStep ==
  ASSUME DiffType, NEW s \in Sides, machine[s].kind = "inprocess", ~exited[s],
         machine[s].exit_code # 0
  PROVE  /\ StepOf(s).state # <<>>
         /\ StepOf(s).exited = (Least(pos[s] + 1, Length(s)) = Length(s))
         /\ StepOf(s).state[1].is_exit = StepOf(s).exited
<1> DEFINE k == Least(pos[s] + 1, Length(s))
           exits == k = Length(s) /\ machine[s].exit_code # 0
<1>1. /\ StepOf(s).state = <<[pc |-> Does(s, k).pc,
                             rd |-> IF exits THEN NoValue ELSE Does(s, k).rd,
                             is_exit |-> exits]>>
      /\ StepOf(s).exited = exits
  BY ZenonT(30) DEF StepOf, StepInProcess
<1>2. exits = (k = Length(s))
  BY ZenonT(30)
<1> HIDE DEF k, exits
<1>3. StepOf(s).state # <<>> /\ StepOf(s).state[1].is_exit = exits
  <2> DEFINE st == StepOf(s).state
             p == Does(s, k).pc
             r == IF exits THEN NoValue ELSE Does(s, k).rd
  <2>1. st = <<[pc |-> p, rd |-> r, is_exit |-> exits]>>
    BY ZenonT(30), <1>1
  <2>2. /\ <<[pc |-> p, rd |-> r, is_exit |-> exits]>> # <<>>
        /\ <<[pc |-> p, rd |-> r, is_exit |-> exits]>>[1].is_exit = exits
    <3> HIDE DEF p, r
    <3> QED
      BY ZenonT(30), ShownExit
  <2> HIDE DEF st, p, r
  <2>3. st # <<>> /\ st[1].is_exit = exits
    BY ZenonT(30), <2>1, <2>2
  <2> QED
    BY ZenonT(30), <2>3 DEF st
<1> QED
  BY ZenonT(30), <1>1, <1>2, <1>3 DEF k

\* Blocks of a guest that fails match the steps of an equal machine up to the
\* exit, and there the comparison ends.
LEMMA FailingBlocks ==
  ASSUME DiffType, RingInv, BlockInv, EqualInv, mode = "block", DiffNext,
         Equal, machine["ref"].kind = "inprocess", machine["ref"].exit_code # 0
  PROVE  /\ Running' => ~exited'["test"] /\ matched' < Length("test")
         /\ ~overflowed' /\ Divergence' => result' = [kind |-> "expected_tail", index |-> Length("ref") - 1]
<1>0. /\ machine \in Pairs /\ "test" \in Sides /\ "ref" \in Sides /\ "ref" # "test"
      /\ exited \in [Sides -> BOOLEAN]
      /\ matched \in Nat /\ Length("test") \in Nat \ {0} /\ Length("ref") = Length("test")
      /\ machine["test"].kind = "inprocess" /\ machine["test"].exit_code # 0
  BY MachineFacts DEF DiffType, Sides, Equal, Length
<1>1. /\ Running => ~exited["test"] /\ matched < Length("test")
      /\ ~overflowed /\ Divergence => result = [kind |-> "expected_tail", index |-> Length("ref") - 1]
  BY ZenonT(30) DEF EqualInv, EqualMachinesAgree, FailingTail
<1>2. CASE run_block_end
  <2>1. /\ exited' = [exited EXCEPT !["ref"] = pos["ref"] = Length("ref") /\ machine["ref"].exit_code # 0]
        /\ result' = result /\ matched' = matched /\ overflowed' = (overflowed \/ dropped' > 0)
    BY ZenonT(30), <1>2 DEF run_block_end
  <2>2. ~overflowed' => ~overflowed
    BY <2>1, Zenon
  <2>3. exited'["test"] = exited["test"]
    BY ZenonT(30), <1>0, <2>1
  <2> QED
    BY ZenonT(30), <1>1, <2>1, <2>2, <2>3 DEF Divergence, Running
<1>3. CASE block_compare_entry
  <2> DEFINE t == StepOf("test").state
  <2>1. /\ Running /\ phase = "entries" /\ index < count /\ overflowed' = overflowed
        /\ state'["test"] = t /\ exited'["test"] = StepOf("test").exited
    BY ZenonT(30), <1>0, <1>3 DEF block_compare_entry, Step
  <2>2. matched < Length("test") /\ ~exited["test"] /\ pos["test"] = matched
    BY ZenonT(30), <1>0, <1>1, <2>1, LeastReaches DEF BlockInv
  <2>3. /\ t # <<>> /\ t[1].is_exit = StepOf("test").exited
        /\ StepOf("test").exited = (Least(matched + 1, Length("test")) = Length("test"))
    BY ZenonT(30), <1>0, <2>2, FailingStep
  <2> HIDE DEF t
  <2>4. \/ /\ ~compare_states(get(index), t[1])
           /\ \E kind \in {"differs"} : Report(kind, matched)
        \/ /\ compare_states(get(index), t[1]) /\ matched' = matched + 1
           /\ IF t[1].is_exit THEN result' = [kind |-> "expected_tail", index |-> matched] ELSE result' = result
    BY ZenonT(30), <1>3, <2>1, <2>3 DEF block_compare_entry, Report
  <2>5. ~overflowed => compare_states(get(index), t[1])
    <3>1. AgreeAt(matched)
      BY ZenonT(30) DEF AgreeAt, Equal, Does, Length, BlockInv, Sides
    <3> QED
      BY ZenonT(30), <2>1, <2>3, <3>1, EntryFacts DEF t
  <2>6. CASE ~compare_states(get(index), t[1])
    <3>1. result'.kind = "differs"
      BY ZenonT(30), <2>4, <2>6, Reported
    <3> QED
      BY ZenonT(30), <2>1, <2>5, <2>6, <3>1 DEF Running
  <2>7. CASE compare_states(get(index), t[1]) /\ t[1].is_exit
    <3>1. result' = [kind |-> "expected_tail", index |-> matched] /\ matched = Length("test") - 1
      BY ZenonT(30), <1>0, <2>2, <2>3, <2>4, <2>7, LeastReaches
    <3>2. ~Running'
      BY <3>1 DEF Running
    <3> QED
      BY ZenonT(30), <1>0, <3>1, <3>2
  <2>8. CASE compare_states(get(index), t[1]) /\ ~t[1].is_exit
    <3>1. /\ result' = result /\ matched' = matched + 1 /\ ~exited'["test"]
          /\ matched + 1 < Length("test")
      BY ZenonT(30), <1>0, <2>1, <2>2, <2>3, <2>4, <2>8, LeastReaches
    <3>2. ~Divergence'
      BY ZenonT(30), <2>1, <3>1 DEF Divergence, Running
    <3> QED
      BY ZenonT(30), <3>1, <3>2
  <2> QED
    BY ZenonT(30), <2>6, <2>7, <2>8
<1>4. CASE block_finished
  <2>1. /\ phase = "loop" /\ Running /\ matched < Limit /\ exited["ref"] /\ overflowed' = overflowed
        /\ \E kind \in {"actual_tail", "same"} : Report(kind, matched)
    BY ZenonT(30), <1>4 DEF block_finished
  <2>2. overflowed
    <3>1. matched < Length("ref") /\ pos["ref"] = Length("ref")
      BY ZenonT(30), <1>0, <1>1, <2>1 DEF DiffType
    <3>2. ~overflowed => pos["ref"] = matched
      BY ZenonT(30), <1>0, <2>1, <3>1, LeastReaches DEF BlockInv
    <3> QED
      BY SMTT(30), <1>0, <3>1, <3>2
  <2>3. ~Running'
    BY ZenonT(30), <2>1, Reported DEF Running
  <2> QED
    BY ZenonT(30), <2>1, <2>2, <2>3
<1>5. CASE limit_reached
  <2>1. result'.kind = "same"
    BY ZenonT(30), <1>5, Reported DEF limit_reached
  <2> QED
    BY ZenonT(30), <2>1 DEF Divergence, Running
<1>6. CASE UNCHANGED <<exited, result, overflowed, matched>>
  BY ZenonT(30), <1>1, <1>6 DEF Divergence, Running
<1> QED
  BY ZenonT(30), <1>2, <1>3, <1>4, <1>5, <1>6, BlockActions DEF run_block, block_instr, block_reg_write,
     block_goes_on, block_compared, progress

\* By blocks, equal machines are told apart at the exit of a failing guest alone.
LEMMA BlockEqual ==
  ASSUME DiffType, RingInv, BlockInv, EqualInv, mode = "block", DiffNext
  PROVE  EqualInv'
<1>1. UNCHANGED <<mode, machine, offset>> /\ Equal' = Equal /\ \A s : Length(s)' = Length(s)
  BY ZenonT(30), BlockActions, MachineKept
<1> SUFFICES ASSUME Equal, machine["ref"].kind = "inprocess"
             PROVE  /\ machine["ref"].exit_code = 0 => ~exited'["ref"] /\ ~exited'["test"]
                    /\ machine["ref"].exit_code # 0 /\ Running' => ~exited'["test"] /\ matched' < Length("test")
                    /\ ~overflowed' /\ Divergence' =>
                         /\ machine["ref"].exit_code # 0
                         /\ result' = [kind |-> "expected_tail", index |-> Length("ref") - 1]
  BY ZenonT(30), <1>1 DEF EqualInv, EqualMachinesAgree, FailingTail
<1>2. CASE machine["ref"].exit_code = 0
  BY ZenonT(30), <1>2, PassingBlocks
<1>3. CASE machine["ref"].exit_code # 0
  BY ZenonT(30), <1>3, FailingBlocks
<1> QED
  BY ZenonT(30), <1>2, <1>3

-----------------------------------------------------------------------------
(* The comparisons together. *)

\* A comparison starts in the invariant...
LEMMA InitDiffInv == DiffInit => DiffInv
<1> SUFFICES ASSUME DiffInit PROVE DiffInv
  OBVIOUS
<1>1. DiffType
  BY ZenonT(30), InitType
<1>2. /\ phase = "loop" /\ pos = [s \in Sides |-> 0] /\ offset = [s \in Sides |-> 0]
      /\ exited = [s \in Sides |-> FALSE] /\ state = [s \in Sides |-> <<>>]
      /\ matched = 0 /\ low = 0 /\ overflowed = FALSE /\ tracing = FALSE
      /\ result = [kind |-> "running", index |-> 0]
      /\ "ref" \in Sides /\ "test" \in Sides
  BY ZenonT(30) DEF DiffInit, RingInit, Sides
<1>3. \A s \in Sides : Length(s) \in Nat \ {0}
  BY <1>1, MachineFacts DEF DiffType
<1>4. \A s \in Sides : Least(0, Length(s)) = 0
  BY SMTT(30), <1>3 DEF Least
<1>5. LockstepInv /\ BlockInv
  BY SMTT(30), <1>2, <1>3, <1>4 DEF LockstepInv, BlockInv
<1>6. ReportInv /\ CheckpointInv
  BY SMTT(30), <1>2, <1>3 DEF ReportInv, CheckpointInv, BisectsToBoundary, Running
<1>7. EqualInv
  <2>1. ~Divergence /\ ~exited["ref"] /\ ~exited["test"] /\ matched < Length("test")
    BY SMTT(30), <1>2, <1>3 DEF Divergence
  <2> QED
    BY ZenonT(30), <1>2, <2>1 DEF EqualInv, EqualMachinesAgree
<1> QED
  BY <1>1, <1>5, <1>6, <1>7 DEF DiffInv

\* ... and every step keeps it.
LEMMA DiffInvStep ==
  ASSUME DiffInv, RingInv, RingInv', [DiffNext]_diffVars
  PROVE  DiffInv'
<1>1. DiffType'
  BY TypeStep DEF DiffInv
<1>2. CASE UNCHANGED diffVars
  <2>1. /\ UNCHANGED <<mode, phase, machine, pos, exited, state, matched, index, low, high>>
        /\ UNCHANGED <<result, offset, overflowed>>
        /\ UNCHANGED <<tracing, history, dropped, current_valid>>
    BY ZenonT(30), <1>2 DEF diffVars, compareVars, progress, search, ringVars, ring
  <2>2. /\ \A s : Length(s)' = Length(s)
        /\ \A s, k : Does(s, k)' = Does(s, k)
        /\ \A k : AgreeAfter(k)' = AgreeAfter(k)
        /\ Equal' = Equal
        /\ \A j : AgreeAt(j)' = AgreeAt(j)
    BY ZenonT(30), <2>1, MachineKept
  <2>3. LockstepInv' /\ BlockInv'
    BY ZenonT(30), <2>1, <2>2 DEF DiffInv, LockstepInv, Shown, BlockInv, Traced, Running
  <2>4. ReportInv'
    BY ZenonT(30), <2>1, <2>2 DEF DiffInv, ReportInv, Running
  <2>5. CheckpointInv'
    BY ZenonT(30), <2>1, <2>2 DEF DiffInv, CheckpointInv, BisectsToBoundary, Running
  <2>6. EqualInv'
    BY ZenonT(30), <2>1, <2>2 DEF DiffInv, EqualInv, EqualMachinesAgree, Divergence, FailingTail, Running
  <2> QED
    BY ZenonT(30), <1>1, <2>3, <2>4, <2>5, <2>6 DEF DiffInv
<1>3. CASE DiffNext
  <2>1. mode \in {"lockstep", "block", "checkpoint"}
    BY ZenonT(30) DEF DiffInv, DiffType
  <2>2. CASE mode = "lockstep"
    <3>1. mode' = mode
      BY ZenonT(30), <1>3, <2>2, LockstepActions DEF DiffInv, lockstep_fetch, lockstep_align, lockstep_aligned,
         lockstep_compare, limit_reached
    <3>2. LockstepInv' /\ ReportInv' /\ EqualInv'
      BY ZenonT(30), <1>3, <2>2, LockstepStep, LockstepReports, LockstepEqual DEF DiffInv
    <3> QED
      BY ZenonT(30), <1>1, <2>2, <3>1, <3>2 DEF DiffInv, BlockInv, CheckpointInv
  <2>3. CASE mode = "block"
    <3>1. mode' = mode
      BY <1>3, <2>3, BlockActions DEF DiffInv
    <3>2. BlockInv' /\ ReportInv' /\ EqualInv'
      BY ZenonT(30), <1>3, <2>3, BlockStep, BlockReports, BlockEqual DEF DiffInv
    <3> QED
      BY ZenonT(30), <1>1, <2>3, <3>1, <3>2 DEF DiffInv, LockstepInv, CheckpointInv
  <2>4. CASE mode = "checkpoint"
    <3>1. mode' = mode
      BY ZenonT(30), <1>3, <2>4, CheckpointActions DEF DiffInv, checkpoint_batch, checkpoint_bisect,
         checkpoint_divergence, limit_reached
    <3>2. CheckpointInv' /\ EqualInv'
      BY <1>3, <2>4, CheckpointStep, CheckpointEqual DEF DiffInv
    <3> QED
      BY ZenonT(30), <1>1, <2>4, <3>1, <3>2 DEF DiffInv, LockstepInv, BlockInv, ReportInv
  <2> QED
    BY ZenonT(30), <2>1, <2>2, <2>3, <2>4
<1> QED
  BY <1>2, <1>3

\* In every comparison the machines are where the index says.
THEOREM DiffInvariance == DiffSpec => []DiffInv
<1>1. DiffInv /\ RingInv /\ RingInv' /\ [DiffNext]_diffVars => DiffInv'
  BY DiffInvStep
<1> QED
  BY <1>1, InitDiffInv, DiffKeepsRing, PTL DEF DiffSpec

\* For all machines, every limit and every ring: what lockstep and block
\* comparison report is the first difference, and what they report as matching
\* does match (compare_lockstep, compare_block_vs_linear).
THEOREM FirstDifferenceCorrect == DiffSpec => []FirstDifference
<1>1. DiffInv => FirstDifference
  <2> SUFFICES ASSUME DiffInv, ~Running, mode # "checkpoint", ~overflowed
               PROVE  /\ \A j \in 0 .. result.index - 1 : AgreeAt(j)
                      /\ result.kind = "differs" => ~AgreeAt(result.index)
    BY ZenonT(30) DEF FirstDifference
  <2>1. /\ \A j \in 0 .. matched - 1 : AgreeAt(j)
        /\ result.index \in 0 .. matched
        /\ result.kind = "differs" => ~AgreeAt(result.index)
        /\ matched \in Nat
    BY ZenonT(30) DEF DiffInv, ReportInv, DiffType
  <2>2. \A j \in 0 .. result.index - 1 : j \in 0 .. matched - 1
    BY <2>1
  <2> QED
    BY <2>1, <2>2
<1> QED
  BY <1>1, DiffInvariance, PTL

\* For all machines, every interval and every limit the bisection ends where
\* agreement ends (compare_checkpoint).
THEOREM BisectionCorrect == DiffSpec => []BisectsToBoundary
<1>1. DiffInv => BisectsToBoundary
  BY ZenonT(30) DEF DiffInv, CheckpointInv, BisectsToBoundary
<1> QED
  BY <1>1, DiffInvariance, PTL

\* Whatever the machines, two that do the same are not reported, but for the
\* exit of a failing guest by blocks, reported at that exit and as a tail
\* (compare_lockstep, compare_block_vs_linear, compare_checkpoint).
THEOREM EqualMachinesCorrect == DiffSpec => []EqualMachinesAgree
<1>1. DiffInv => EqualMachinesAgree
  BY DEF DiffInv, EqualInv, EqualMachinesAgree
<1> QED
  BY <1>1, DiffInvariance, PTL
=============================================================================
