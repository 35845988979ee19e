---------------------------- MODULE RunnerProofs ----------------------------
(***************************************************************************)
(* The runner, for every library, program and host program: what it loads, *)
(* where it maps it, and the limit it runs to.                             *)
(***************************************************************************)
EXTENDS Runner, WellFoundedInduction, TLAPS

Fields == {"regs", "pc", "instret", "target", "reserved", "has_exited", "exit_code", "brk",
           "start_brk", "csr", "mem"}

\* A machine: its fields are there, and what is counted is a number.
Machine(mm) ==
  /\ Fields \subseteq DOMAIN mm
  /\ mm.instret \in Nat /\ mm.target \in Nat /\ mm.brk \in Nat /\ mm.start_brk \in Nat

\* The host's own operations leave the break alone.
SameBreak(mm, nn) == nn.brk = mm.brk /\ nn.start_brk = mm.start_brk

\* And most of them the count and the target.
SameCount(mm, nn) == nn.instret = mm.instret /\ nn.target = mm.target

\* The larger of two numbers.
LEMMA MaxOfTwo ==
  ASSUME NEW a \in Int, NEW b \in Int
  PROVE  Max({a, b}) = IF a >= b THEN a ELSE b
<1> DEFINE c == IF a >= b THEN a ELSE b
<1>1. c \in {a, b} /\ \A y \in {a, b} : c >= y
  OBVIOUS
<1>2. \A x \in {a, b} : (\A y \in {a, b} : x >= y) => x = c
  OBVIOUS
<1>3. Max({a, b}) = CHOOSE x \in {a, b} : \A y \in {a, b} : x >= y
  BY DEF Max
<1> HIDE DEF c
<1>4. Max({a, b}) \in {a, b} /\ \A y \in {a, b} : Max({a, b}) >= y
  BY <1>1, <1>3, Zenon
<1>5. Max({a, b}) = c
  BY <1>2, <1>4, Zenon
<1> QED
  BY <1>5 DEF c

\* Less-than is well founded, as a set of pairs.
LEMMA LessWellFounded == IsWellFoundedOn({ss \in Nat \X Nat : ss[1] < ss[2]}, Nat)
BY NatLessThanWellFounded DEF OpToRel

\* A set of numbers has a least element.
LEMMA LeastOf ==
  ASSUME NEW T, T \subseteq Nat, T # {}
  PROVE  \E x \in T : \A y \in T : x <= y
<1> DEFINE R == {ss \in Nat \X Nat : ss[1] < ss[2]}
<1>1. \A x, y \in Nat : y < x => <<y, x>> \in R
  OBVIOUS
<1>2. \E x \in T : \A y \in T : ~(<<y, x>> \in R)
  <2>1. IsWellFoundedOn(R, Nat)
    BY LessWellFounded
  <2> HIDE DEF R
  <2> QED
    BY ZenonT(30), <2>1, WFMin
<1>3. PICK x \in T : \A y \in T : ~(<<y, x>> \in R)
  BY <1>2
<1>4. ASSUME NEW y \in T PROVE x <= y
  <2>1. ~(<<y, x>> \in R) /\ x \in Nat /\ y \in Nat
    BY <1>3
  <2>2. ~(y < x)
    BY <2>1
  <2> QED
    BY <2>1, <2>2
<1> QED
  BY <1>4

\* A bounded set of numbers has a largest element.
LEMMA MaxFacts ==
  ASSUME NEW S, S \subseteq Nat, 0 \in S, NEW b \in Nat, \A y \in S : y <= b
  PROVE  Max(S) \in S /\ \A y \in S : y <= Max(S)
<1> DEFINE bounds == {n \in Nat : \A y \in S : y <= n}
<1>1. bounds \subseteq Nat /\ bounds # {}
  OBVIOUS
<1>2. PICK x \in bounds : \A y \in bounds : x <= y
  BY ZenonT(30), <1>1, LeastOf
<1>3. x \in S
  <2>1. SUFFICES ASSUME x \notin S PROVE FALSE
    OBVIOUS
  <2>2. x \in Nat /\ x # 0 /\ x - 1 \in Nat /\ \A y \in S : y <= x - 1
    BY <2>1
  <2>3. x - 1 \in bounds
    BY <2>2
  <2> QED
    BY <1>2, <2>2, <2>3
<1>4. \E z \in S : \A y \in S : z >= y
  BY <1>3
<1>5. Max(S) \in S /\ \A y \in S : Max(S) >= y
  BY <1>4, Zenon DEF Max
<1> QED
  BY <1>5

\* The smaller of two numbers.
LEMMA MinOfTwo ==
  ASSUME NEW a \in Int, NEW b \in Int
  PROVE  Min({a, b}) = IF a <= b THEN a ELSE b
<1> DEFINE c == IF a <= b THEN a ELSE b
<1>1. c \in {a, b} /\ \A y \in {a, b} : c <= y
  OBVIOUS
<1>2. \A x \in {a, b} : (\A y \in {a, b} : x <= y) => x = c
  OBVIOUS
<1>3. Min({a, b}) = CHOOSE x \in {a, b} : \A y \in {a, b} : x <= y
  BY DEF Min
<1> HIDE DEF c
<1>4. Min({a, b}) \in {a, b} /\ \A y \in {a, b} : Min({a, b}) <= y
  BY <1>1, <1>3, Zenon
<1>5. Min({a, b}) = c
  BY <1>2, <1>4, Zenon
<1> QED
  BY <1>5 DEF c

\* g goes from base through n steps of F.
History(g, n, base, F) == g[0] = base /\ \A k \in 1..n : g[k] = F[<<k, g[k - 1]>>]

\* A step that is taken n times has a history: the function that a recursive
\* definition over 0..n names exists.
LEMMA Iterates ==
  ASSUME NEW M, NEW n \in Nat, NEW base \in M, NEW F \in [(1..n) \X M -> M]
  PROVE  \E g \in [0..n -> M] : History(g, n, base, F)
<1> USE DEF History
<1> DEFINE Good(k) == \E g \in [0..k -> M] :
                        g[0] = base /\ \A i \in 1..k : g[i] = F[<<i, g[i - 1]>>]
           bad == {k \in 0..n : ~Good(k)}
<1>1. Good(0)
  <2>1. [i \in 0..0 |-> base] \in [0..0 -> M] /\ [i \in 0..0 |-> base][0] = base
    OBVIOUS
  <2>2. \A i \in 1..0 : FALSE
    OBVIOUS
  <2> QED
    BY ZenonT(30), <2>1, <2>2
<1>2. ASSUME NEW k \in 1..n, Good(k - 1)
      PROVE  Good(k)
  <2>1. PICK g \in [0..k - 1 -> M] :
          g[0] = base /\ \A i \in 1..k - 1 : g[i] = F[<<i, g[i - 1]>>]
    BY <1>2
  <2> DEFINE h == [i \in 0..k |-> IF i = k THEN F[<<k, g[k - 1]>>] ELSE g[i]]
  <2>2. g[k - 1] \in M
    BY <2>1
  <2>3. F[<<k, g[k - 1]>>] \in M
    BY <2>2
  <2>4. h \in [0..k -> M]
    BY <2>1, <2>3
  <2>5. h[0] = base
    BY <2>1
  <2>6. ASSUME NEW i \in 1..k PROVE h[i] = F[<<i, h[i - 1]>>]
    <3>1. i - 1 \in 0..k /\ i - 1 # k /\ i \in 0..k
      OBVIOUS
    <3>2. h[i - 1] = g[i - 1]
      BY <3>1
    <3>3. h[i] = IF i = k THEN F[<<k, g[k - 1]>>] ELSE g[i]
      BY <3>1
    <3> HIDE DEF h
    <3>4. i # k => i \in 1..k - 1
      OBVIOUS
    <3> QED
      BY <2>1, <3>2, <3>3, <3>4
  <2> HIDE DEF h
  <2> QED
    BY SMTT(30), <2>4, <2>5, <2>6
<1> HIDE DEF Good
<1>3. bad = {}
  <2>1. SUFFICES ASSUME bad # {} PROVE FALSE
    OBVIOUS
  <2>2. PICK k \in bad : \A y \in bad : k <= y
    <3>1. bad \subseteq Nat
      OBVIOUS
    <3> HIDE DEF bad
    <3> QED
      BY ZenonT(30), <2>1, <3>1, LeastOf
  <2>3. k # 0 /\ k \in 1..n
    BY <1>1
  <2>4. k - 1 \in 0..n /\ k - 1 \notin bad
    BY <2>2, <2>3
  <2>5. Good(k - 1)
    BY <2>4
  <2> QED
    BY <1>2, <2>3, <2>5
<1>4. Good(n)
  BY <1>3
<1> QED
  BY <1>4 DEF Good

-----------------------------------------------------------------------------
(* What the operations do to a machine. *)

\* Loading the segments changes memory only.
LEMMA LoadSegmentsKeeps ==
  ASSUME NEW mm, Machine(mm)
  PROVE  /\ Machine(load_segments(mm))
         /\ SameBreak(mm, load_segments(mm)) /\ SameCount(mm, load_segments(mm))
BY DEF Machine, Fields, SameBreak, SameCount, load_segments

\* A runner with a suspender is not the one for fixed addresses.
LEMMA SuspenderNotFixed == runner.suspender => ~runner.fixed
BY DEF runner, RunnerFor, create_rv_runner, FixedAddrRunner, TypedRunner, SuspendRunner,
   PreflightRunner, StatsRunner, DebugRunner, DiffRunner, BufferedDiffRunner

\* reset starts the count anew, and lifts the limit.
LEMMA ResetFacts ==
  ASSUME NEW mm, Machine(mm)
  PROVE  /\ Machine(reset(mm)) /\ SameBreak(mm, reset(mm)) /\ reset(mm).instret = 0
         /\ runner.suspender => reset(mm).target = U64_MAX
<1>1. U64_MAX \in Nat
  BY RunnerAssumption DEF U64_MAX
<1>2. CASE runner.fixed
  BY <1>2, SuspenderNotFixed DEF reset, FixedAddrRunner_reset, Machine, Fields, SameBreak
<1>3. CASE ~runner.fixed /\ runner.suspender
  <2>1. Machine(RvState_reset(mm)) /\ SameBreak(mm, RvState_reset(mm))
        /\ RvState_reset(mm).instret = 0
    BY DEF RvState_reset, Machine, Fields, SameBreak
  <2> QED
    BY <1>1, <1>3, <2>1 DEF reset, disable, Machine, Fields, SameBreak
<1>4. CASE ~runner.fixed /\ ~runner.suspender
  BY <1>4 DEF reset, RvState_reset, Machine, Fields, SameBreak
<1> QED
  BY <1>2, <1>3, <1>4

\* So the program is fresh in every run.
LEMMA FreshFacts ==
  ASSUME NEW mm, Machine(mm)
  PROVE  LET fresh == reset(load_segments(mm))
         IN  /\ Machine(fresh) /\ SameBreak(mm, fresh) /\ fresh.instret = 0
             /\ runner.suspender => fresh.target = U64_MAX
BY LoadSegmentsKeeps, ResetFacts DEF SameBreak

\* Setting a register changes registers only.
LEMMA SetRegKeeps ==
  ASSUME NEW mm, Machine(mm), NEW r, NEW v
  PROVE  /\ Machine(set_reg(mm, r, v))
         /\ SameBreak(mm, set_reg(mm, r, v)) /\ SameCount(mm, set_reg(mm, r, v))
BY DEF Machine, Fields, SameBreak, SameCount, set_reg

\* The initial registers are registers.
LEMMA SetupKeeps ==
  ASSUME NEW mm, Machine(mm)
  PROVE  /\ Machine(setup_initial_regs(mm))
         /\ SameBreak(mm, setup_initial_regs(mm)) /\ SameCount(mm, setup_initial_regs(mm))
<1> DEFINE put(acc, r, name) ==
             IF lookup_symbol(elf, name) = {} THEN acc
             ELSE set_reg(acc, r, CHOOSE v \in lookup_symbol(elf, name) : TRUE)
           m1 == put(mm, 3, "__global_pointer$")
           m2 == put(m1, 2, "__stack_top")
<1>1. Machine(m1) /\ SameBreak(mm, m1) /\ SameCount(mm, m1)
  BY SetRegKeeps DEF SameBreak, SameCount
<1>2. setup_initial_regs(mm) = set_reg(m2, 1, 0)
  BY DEF setup_initial_regs
<1> HIDE DEF m1
<1>3. Machine(m2) /\ SameBreak(m1, m2) /\ SameCount(m1, m2)
  BY <1>1, SetRegKeeps DEF SameBreak, SameCount
<1> HIDE DEF m2
<1>4. Machine(set_reg(m2, 1, 0)) /\ SameBreak(m2, set_reg(m2, 1, 0))
      /\ SameCount(m2, set_reg(m2, 1, 0))
  BY <1>3, SetRegKeeps
<1> QED
  BY <1>1, <1>2, <1>3, <1>4 DEF SameBreak, SameCount


\* A target is one for the runners that have a suspender.
LEMMA SetTargetFacts ==
  ASSUME NEW mm, Machine(mm), NEW t \in Nat
  PROVE  /\ Machine(set_target_instret(mm, t)) /\ SameBreak(mm, set_target_instret(mm, t))
         /\ set_target_instret(mm, t).instret = mm.instret
         /\ runner.suspender => set_target_instret(mm, t).target = t
BY DEF Machine, Fields, SameBreak, set_target_instret, set_target

\* Clearing the exit changes nothing that is counted.
LEMMA ClearExitKeeps ==
  ASSUME NEW mm, Machine(mm)
  PROVE  /\ Machine(clear_exit(mm))
         /\ SameBreak(mm, clear_exit(mm)) /\ SameCount(mm, clear_exit(mm))
BY DEF Machine, Fields, SameBreak, SameCount, clear_exit

\* Runner::run starts a fresh program with the target the host had set.
LEMMA RunFromFacts ==
  ASSUME NEW mm, Machine(mm)
  PROVE  /\ Machine(RunFrom(mm)) /\ SameBreak(mm, RunFrom(mm)) /\ RunFrom(mm).instret = 0
         /\ runner.suspender => RunFrom(mm).target = mm.target
<1> DEFINE saved == get_target_instret(mm)
           fresh == setup_initial_regs(reset(load_segments(mm)))
<1>1. /\ Machine(fresh) /\ SameBreak(mm, fresh) /\ fresh.instret = 0
      /\ runner.suspender => fresh.target = U64_MAX
  BY FreshFacts, SetupKeeps DEF SameBreak, SameCount
<1>2. RunFrom(mm) = IF saved \ {U64_MAX} = {} THEN fresh
                    ELSE set_target_instret(fresh, CHOOSE t \in saved : TRUE)
  BY DEF RunFrom
<1>3. saved = IF runner.suspender THEN {mm.target} ELSE {}
  BY DEF get_target_instret
<1> HIDE DEF fresh, saved
<1>4. CASE ~runner.suspender
  BY <1>1, <1>2, <1>3, <1>4
<1>5. CASE runner.suspender
  <2>1. saved = {mm.target} /\ (CHOOSE t \in {mm.target} : TRUE) = mm.target
    BY <1>3, <1>5
  <2>2. CASE mm.target = U64_MAX
    BY <1>1, <1>2, <1>5, <2>1, <2>2
  <2>3. CASE mm.target # U64_MAX
    <3>1. RunFrom(mm) = set_target_instret(fresh, mm.target)
      BY <1>2, <2>1, <2>3
    <3>2. mm.target \in Nat
      BY DEF Machine
    <3> QED
      BY <1>1, <1>5, <3>1, <3>2, SetTargetFacts DEF SameBreak
  <2> QED
    BY <2>2, <2>3
<1> QED
  BY <1>4, <1>5

\* The library runs to the target, or for one instruction, and moves the break
\* no further down than where it began.
LEMMA ExecuteFacts ==
  ASSUME NEW mm, Machine(mm), mm.start_brk <= mm.brk, NEW at, rv_execute_from(mm, at)
  PROVE  /\ Machine(m') /\ m'.target = mm.target
         /\ m'.start_brk = mm.start_brk /\ m'.start_brk <= m'.brk
         /\ lib.instret = 3 => m'.instret <= Max({mm.target, began'.instret + 1})
<1>1. began'.instret = mm.instret
  BY DEF rv_execute_from, Machine, Fields
<1>2. PICK n \in IF lib.instret = 0 THEN {mm.instret} ELSE mm.instret + 1..MaxInstret,
           exits \in BOOLEAN, writes \in BOOLEAN :
        /\ ~exits => suspends(lib.instret) /\ n >= mm.target
        /\ lib.instret = 3 => n <= Max({mm.target, mm.instret + 1})
        /\ \E brk \in {mm.brk} \cup (IF writes THEN mm.start_brk..MemSize - 1 ELSE {}),
              code \in IF exits THEN {0, 1} ELSE {mm.exit_code} :
             m' = Ran(mm, n, exits, code, writes, brk)
  BY Zenon DEF rv_execute_from
<1>3. PICK brk \in {mm.brk} \cup (IF writes THEN mm.start_brk..MemSize - 1 ELSE {}),
           code \in IF exits THEN {0, 1} ELSE {mm.exit_code} :
        m' = Ran(mm, n, exits, code, writes, brk)
  BY <1>2, Zenon
<1> DEFINE ran == [mm EXCEPT !.instret = n, !.pc = Dirt, !.exit_code = code,
                             !.has_exited = IF exits THEN 1 ELSE @]
           dirty == [ran EXCEPT !.regs = [r \in DOMAIN @ |-> IF r = 0 THEN 0 ELSE Dirt],
                                !.mem = [a \in Cells |-> Dirt], !.brk = brk, !.csr = Dirt,
                                !.reserved = TRUE]
<1>4. n \in Nat /\ brk \in Nat /\ mm.start_brk <= brk
  BY RunnerAssumption DEF Machine
<1>5. /\ Machine(ran) /\ ran.target = mm.target /\ SameBreak(mm, ran) /\ ran.instret = n
  BY <1>4 DEF Machine, Fields, SameBreak
<1>6. m' = IF writes THEN dirty ELSE ran
  BY <1>3, Zenon DEF Ran
<1> HIDE DEF ran
<1>7. /\ Machine(dirty) /\ dirty.target = ran.target /\ dirty.brk = brk
      /\ dirty.start_brk = ran.start_brk /\ dirty.instret = ran.instret
  BY <1>4, <1>5 DEF Machine, Fields
<1> HIDE DEF dirty
<1>8. lib.instret = 3 => n <= Max({mm.target, mm.instret + 1})
  BY <1>2
<1>9. m' = dirty \/ m' = ran
  BY <1>6
<1>10. Machine(m') /\ m'.target = mm.target /\ m'.start_brk = mm.start_brk /\ m'.instret = n
       /\ m'.start_brk <= m'.brk
  BY <1>4, <1>5, <1>7, <1>9 DEF SameBreak
<1> QED
  BY <1>1, <1>8, <1>10


-----------------------------------------------------------------------------
(* The break. *)

ProgramHeader == [load : BOOLEAN, vaddr : Nat, memsz : Nat, offset : Nat, filesz : Nat]

\* What a library and a program are.
Typed ==
  /\ lib.xlen \in {32, 64}
  /\ elf.phdrs \in Seq(ProgramHeader) /\ elf.bytes \in Seq(Nat)

\* What the checks of validate_segments come to.
LEMMA ValidSegments ==
  ASSUME Typed, validate_segments(elf) = "ok"
  PROVE  /\ Loadable(elf) # {}
         /\ \A i \in Loadable(elf) :
              /\ elf.phdrs[i] \in ProgramHeader
              /\ elf.phdrs[i].offset + elf.phdrs[i].filesz <= Len(elf.bytes)
              /\ EndOf(elf.phdrs[i]) < AddrSpace
         /\ \A i, j \in Loadable(elf) :
              i < j => \/ EndOf(elf.phdrs[i]) <= elf.phdrs[j].vaddr
                       \/ EndOf(elf.phdrs[j]) <= elf.phdrs[i].vaddr
<1> DEFINE beyond(p) == p.offset + p.filesz > Len(elf.bytes)
           overflows(p) == EndOf(p) >= AddrSpace
           bad == {i \in Loadable(elf) : beyond(elf.phdrs[i]) \/ overflows(elf.phdrs[i])}
           overlap(p, q) == ~(EndOf(p) <= q.vaddr \/ EndOf(q) <= p.vaddr)
<1>1. /\ bad = {} /\ Loadable(elf) # {}
      /\ ~\E i, j \in Loadable(elf) : i < j /\ overlap(elf.phdrs[i], elf.phdrs[j])
  <2>1. validate_segments(elf) =
          IF bad # {}
          THEN IF beyond(elf.phdrs[Min(bad)]) THEN "SegmentBeyondFile" ELSE "VirtualAddressOverflow"
          ELSE IF Loadable(elf) = {} THEN "NoLoadableSegments"
          ELSE IF Cardinality(Loadable(elf)) > MAX_SEGMENTS THEN "TooManySegments"
          ELSE IF \E i, j \in Loadable(elf) : i < j /\ overlap(elf.phdrs[i], elf.phdrs[j])
          THEN "OverlappingSegments"
          ELSE "ok"
    BY Zenon DEF validate_segments
  <2> HIDE DEF bad, beyond, overlap
  <2> QED
    BY <2>1
<1>2. ASSUME NEW i \in Loadable(elf)
      PROVE  elf.phdrs[i] \in ProgramHeader /\ ~beyond(elf.phdrs[i]) /\ ~overflows(elf.phdrs[i])
  <2>1. elf.phdrs[i] \in ProgramHeader
    BY DEF Typed, Loadable
  <2> QED
    BY <1>1, <2>1
<1>3. ASSUME NEW i \in Loadable(elf)
      PROVE  /\ elf.phdrs[i].offset + elf.phdrs[i].filesz <= Len(elf.bytes)
             /\ EndOf(elf.phdrs[i]) < AddrSpace
  <2>1. elf.phdrs[i] \in ProgramHeader /\ ~beyond(elf.phdrs[i]) /\ ~overflows(elf.phdrs[i])
    BY <1>2
  <2>2. /\ elf.phdrs[i].offset \in Nat /\ elf.phdrs[i].filesz \in Nat
        /\ elf.phdrs[i].vaddr \in Nat /\ elf.phdrs[i].memsz \in Nat
    BY <2>1 DEF ProgramHeader
  <2>3. Len(elf.bytes) \in Nat /\ AddrSpace \in Nat
    BY RunnerAssumption DEF Typed
  <2>4. EndOf(elf.phdrs[i]) \in Nat
    BY <2>2 DEF EndOf
  <2> QED
    BY SMTT(30), <2>1, <2>2, <2>3, <2>4
<1> QED
  BY <1>1, <1>2, <1>3

\* The initial break is above every segment whose end fits a register.
LEMMA BreakFacts ==
  ASSUME Typed, validate_segments(elf) = "ok"
  PROVE  /\ get_initial_program_break(elf) \in Nat
         /\ \A i \in Loadable(elf) :
              (lib.xlen = 32 => EndOf(elf.phdrs[i]) < AddrSpace32) =>
                EndOf(elf.phdrs[i]) <= get_initial_program_break(elf)
<1> DEFINE ends == {virtual_end(elf, i) : i \in Loadable(elf)}
           S == {0} \cup ends
           w == IF lib.xlen = 32 THEN AddrSpace32 ELSE AddrSpace
<1>1. w \in Nat /\ w > 0
  BY RunnerAssumption
<1>2. ASSUME NEW i \in Loadable(elf)
      PROVE  /\ EndOf(elf.phdrs[i]) \in Nat /\ EndOf(elf.phdrs[i]) < AddrSpace
             /\ virtual_end(elf, i) \in Nat /\ virtual_end(elf, i) < w
             /\ EndOf(elf.phdrs[i]) < w => virtual_end(elf, i) = EndOf(elf.phdrs[i])
  <2>1. EndOf(elf.phdrs[i]) \in Nat /\ EndOf(elf.phdrs[i]) < AddrSpace
    BY ValidSegments DEF ProgramHeader, EndOf
  <2>2. virtual_end(elf, i) = EndOf(elf.phdrs[i]) % w
    BY DEF virtual_end
  <2> HIDE DEF w
  <2> QED
    BY <1>1, <2>1, <2>2
<1>3. S \subseteq Nat /\ 0 \in S /\ \A y \in S : y <= w
  <2> HIDE DEF w
  <2> QED
    BY <1>1, <1>2
<1>4. Max(S) \in S /\ \A y \in S : y <= Max(S)
  <2> HIDE DEF S, w
  <2> QED
    BY ZenonT(30), <1>1, <1>3, MaxFacts
<1>5. get_initial_program_break(elf) = Max(S)
  BY DEF get_initial_program_break
<1>6. \A i \in Loadable(elf) : virtual_end(elf, i) \in S
  OBVIOUS
<1>7. ASSUME NEW i \in Loadable(elf), lib.xlen = 32 => EndOf(elf.phdrs[i]) < AddrSpace32
      PROVE  EndOf(elf.phdrs[i]) < w
  BY <1>2, <1>7
<1> HIDE DEF S, w
<1> QED
  BY ZenonT(30), <1>2, <1>3, <1>4, <1>5, <1>6, <1>7


-----------------------------------------------------------------------------
(* The invariant. *)

\* A limited run that has come back stopped by the limit.
StoppedInTime ==
  (op.name \in {"run", "reset_and_run_to_instret", "execute_from"} /\ runner.suspender
     /\ began # None /\ lib.instret = 3)
  => m.instret <= Max({limit, began.instret + 1})

\* The limit the host last asked for is the target in the state, which no reset
\* may lose; the break never falls below the one the runner was loaded with.
RunnerInv ==
  /\ Typed
  /\ {"at", "state", "memory"} \subseteq DOMAIN maps
  /\ maps.at.state \in Nat /\ maps.at.memory \in Nat
  /\ MemoryFenced
  /\ Machine(m) /\ m.start_brk <= m.brk
  /\ loaded = "ok" => /\ validate_segments(elf) = "ok"
                      /\ m.start_brk = get_initial_program_break(elf)
  /\ limit \in Nat /\ (loaded = "no" => limit = U64_MAX)
  /\ runner.suspender => m.target = limit
  /\ StoppedInTime

\* A new state is a machine without a limit.
LEMMA DefaultFacts ==
  ASSUME NEW brk \in Nat
  PROVE  LET mm == RvState_default(lib, brk)
         IN  /\ Machine(mm) /\ mm.brk = brk /\ mm.start_brk = brk
             /\ runner.suspender => mm.target = U64_MAX
<1>1. U64_MAX \in Nat
  BY RunnerAssumption DEF U64_MAX
<1>2. runner = RunnerFor(lib)
  BY DEF runner
<1> QED
  BY <1>1, <1>2 DEF RvState_default, Machine, Fields

\* Memory that was mapped at a fixed address is fenced.
LEMMA FenceFacts ==
  ASSUME NEW s \in Nat, NEW a \in Nat,
         FixedMemory_new(s, 1) # None,
         new_at_fixed(FixedMemory_new(s, 1).rw, a, MemSize) # None
  PROVE  LET memory == new_at_fixed(FixedMemory_new(s, 1).rw, a, MemSize)
         IN  /\ memory.rw = a..a + MemSize - 1
             /\ s \notin a..a + MemSize - 1
             /\ {a - 1, a + MemSize} \subseteq memory.guard
<1>1. MemSize \in Nat /\ MemSize > 0 /\ GUARD \in Nat /\ GUARD > 0
  BY RunnerAssumption
<1>2. FixedMemory_new(s, 1).rw = s..s + 1 - 1
  BY DEF FixedMemory_new
<1>3. s \in FixedMemory_new(s, 1).rw
  BY <1>2
<1> DEFINE used == FixedMemory_new(s, 1).rw
           start == Max({a - GUARD, 0})
           pages == start..start + MemSize + 2 * GUARD - 1
           usable == start + GUARD..start + GUARD + MemSize - 1
<1>4. start = IF a - GUARD >= 0 THEN a - GUARD ELSE 0
  BY <1>1, MaxOfTwo
<1>5. /\ start # 0 /\ pages \cap used = {}
      /\ new_at_fixed(used, a, MemSize) = [rw |-> usable, guard |-> pages \ usable]
  <2>1. new_at_fixed(used, a, MemSize) =
          IF MemSize = 0 \/ start = 0 \/ pages \cap used # {} THEN None
          ELSE [rw |-> usable, guard |-> pages \ usable]
    BY Zenon DEF new_at_fixed
  <2> HIDE DEF used, start, pages, usable
  <2> QED
    BY <2>1 DEF used
<1> HIDE DEF used, start
<1>6. start = a - GUARD /\ start > 0
  BY <1>1, <1>4, <1>5
<1>7. usable = a..a + MemSize - 1 /\ pages = a - GUARD..a + MemSize + GUARD - 1
  BY <1>1, <1>6
<1>8. s \notin pages
  BY <1>3, <1>5 DEF used
<1> HIDE DEF pages, usable
<1>9. usable \subseteq pages /\ a - 1 \in pages \ usable /\ a + MemSize \in pages \ usable
  BY <1>1, <1>7
<1> QED
  BY <1>5, <1>7, <1>8, <1>9 DEF used

\* What an operation of a loaded runner has to show.
LEMMA OperationKeeps ==
  ASSUME RunnerInv, loaded = "ok", Kept, Machine(m'),
         m'.start_brk = m.start_brk, m'.start_brk <= m'.brk, limit' \in Nat,
         runner.suspender => m'.target = limit', StoppedInTime'
  PROVE  RunnerInv'
<1>1. lib' = lib /\ elf' = elf /\ loaded' = loaded /\ maps' = maps
  BY DEF Kept
<1>2. runner' = runner /\ Typed' /\ MemoryFenced'
      /\ get_initial_program_break(elf)' = get_initial_program_break(elf)
  BY <1>1 DEF runner, RunnerInv, Typed, MemoryFenced, get_initial_program_break, virtual_end
<1>3. validate_segments(elf)' = validate_segments(elf)
  BY <1>1
<1>4. Machine(m)' /\ loaded # "no"
  BY DEF Machine
<1> QED
  BY <1>1, <1>2, <1>3, <1>4 DEF RunnerInv


-----------------------------------------------------------------------------
(* Every step keeps the invariant. *)

\* Runner::load_with_memory.
LEMMA LoadKeeps ==
  ASSUME RunnerInv, Load
  PROVE  RunnerInv'
<1> DEFINE state == FixedMemory_new(maps.at.state, 1)
           memory == IF state = None THEN None ELSE new_at_fixed(state.rw, maps.at.memory, MemSize)
           verdict == IF validate_segments(elf) # "ok" THEN validate_segments(elf)
                      ELSE IF lib.fixed /\ memory = None THEN "FixedAddressUnavailable"
                      ELSE "ok"
<1>1. /\ loaded = "no" /\ loaded' = verdict
      /\ maps' = IF lib.fixed /\ verdict = "ok" THEN [maps EXCEPT !.state = state, !.memory = memory]
                 ELSE maps
      /\ m' = IF verdict = "ok" THEN RvState_default(lib, get_initial_program_break(elf)) ELSE m
      /\ began' = None
      /\ UNCHANGED <<lib, elf, host, file, limit>>
  BY Zenon DEF Load, HostOnly
<1>2. runner' = runner /\ Typed' /\ Typed
      /\ get_initial_program_break(elf)' = get_initial_program_break(elf)
      /\ validate_segments(elf)' = validate_segments(elf)
  BY <1>1 DEF runner, RunnerInv, Typed, get_initial_program_break, virtual_end
<1>3. StoppedInTime'
  BY <1>1 DEF StoppedInTime
<1>4. limit' = U64_MAX /\ limit' \in Nat
  BY <1>1 DEF RunnerInv
<1>5. CASE verdict # "ok"
  <2> HIDE DEF verdict
  <2>1. maps' = maps /\ m' = m /\ loaded' # "ok"
    BY <1>1, <1>5
  <2>2. MemoryFenced' /\ Machine(m)'
    BY <2>1 DEF RunnerInv, MemoryFenced, Machine
  <2> QED
    BY <1>1, <1>2, <1>3, <1>4, <2>1, <2>2 DEF RunnerInv
<1>6. CASE verdict = "ok"
  <2>1. validate_segments(elf) = "ok" /\ (lib.fixed => memory # None)
    BY <1>6
  <2>2. get_initial_program_break(elf) \in Nat
    BY <1>2, <2>1, BreakFacts
  <2>3. /\ Machine(m') /\ m'.brk = get_initial_program_break(elf)
        /\ m'.start_brk = get_initial_program_break(elf)
        /\ runner.suspender => m'.target = U64_MAX
    <3> HIDE DEF verdict
    <3> QED
      BY <1>1, <1>6, <2>2, DefaultFacts
  <2>4. /\ {"at", "state", "memory"} \subseteq DOMAIN maps'
        /\ maps'.at = maps.at /\ maps'.memory = IF lib.fixed THEN memory ELSE maps.memory
    <3> HIDE DEF verdict, state, memory
    <3> QED
      BY <1>1, <1>6 DEF RunnerInv
  <2>5. MemoryFenced'
    <3>1. CASE lib.fixed
      <4>1. state # None /\ memory = new_at_fixed(state.rw, maps.at.memory, MemSize)
        BY <2>1, <3>1
      <4>2. maps.at.state \in Nat /\ maps.at.memory \in Nat
        BY DEF RunnerInv
      <4>3. /\ memory.rw = maps.at.memory..maps.at.memory + MemSize - 1
            /\ maps.at.state \notin maps.at.memory..maps.at.memory + MemSize - 1
            /\ {maps.at.memory - 1, maps.at.memory + MemSize} \subseteq memory.guard
        BY <2>1, <3>1, <4>1, <4>2, FenceFacts
      <4> HIDE DEF state, memory, verdict
      <4> QED
        BY <2>4, <3>1, <4>3 DEF MemoryFenced
    <3>2. CASE ~lib.fixed
      <4> HIDE DEF state, memory, verdict
      <4>1. maps' = maps
        BY <1>1, <3>2
      <4> QED
        BY <4>1 DEF MemoryFenced, RunnerInv
    <3> QED
      BY <3>1, <3>2
  <2>6. Machine(m)' /\ maps'.at.state \in Nat /\ maps'.at.memory \in Nat /\ loaded' = "ok"
    <3> HIDE DEF state, memory, verdict
    <3> QED
      BY <1>1, <1>6, <2>3, <2>4 DEF Machine, RunnerInv
  <2> HIDE DEF state, memory, verdict
  <2> QED
    BY <1>1, <1>2, <1>3, <1>4, <2>1, <2>2, <2>3, <2>4, <2>5, <2>6 DEF RunnerInv
<1> QED
  BY <1>5, <1>6

\* The operations that do not call the library.
LEMMA HostKeeps ==
  ASSUME RunnerInv, prepare \/ poke \/ SetTargetInstret \/ save_state \/ load_state
  PROVE  RunnerInv'
<1>1. /\ loaded = "ok" /\ Machine(m) /\ m.start_brk <= m.brk /\ limit \in Nat
      /\ runner.suspender => m.target = limit
  BY DEF RunnerInv, prepare, poke, SetTargetInstret, save_state, load_state, Uses
<1>2. Kept /\ began' = None
  BY DEF prepare, poke, SetTargetInstret, save_state, load_state, HostOnly
<1>3. StoppedInTime'
  BY <1>2 DEF StoppedInTime
<1>4. U64_MAX \in Nat
  BY RunnerAssumption DEF U64_MAX
<1>5. CASE prepare
  <2>1. m' = reset(load_segments(m)) /\ limit' = U64_MAX
    BY <1>5 DEF prepare
  <2>2. Machine(m') /\ SameBreak(m, m') /\ (runner.suspender => m'.target = U64_MAX)
    BY <1>1, <2>1, FreshFacts
  <2> QED
    BY <1>1, <1>2, <1>3, <1>4, <2>1, <2>2, OperationKeeps DEF SameBreak
<1>6. CASE poke
  <2>1. Machine(m') /\ SameBreak(m, m') /\ SameCount(m, m')
    <3>1. CASE \E r \in {0, 10} : m' = set_reg(m, r, Dirt)
      BY <1>1, <3>1, SetRegKeeps
    <3>2. CASE m' = [m EXCEPT !.pc = Dirt]
      BY <1>1, <3>2 DEF Machine, Fields, SameBreak, SameCount
    <3>3. CASE m' = IF runner.fixed THEN m ELSE [m EXCEPT !.csr = Dirt]
      BY <1>1, <3>3 DEF Machine, Fields, SameBreak, SameCount
    <3>4. CASE m' = clear_exit(m)
      BY <1>1, <3>4, ClearExitKeeps
    <3>5. CASE \E a \in {MemSize - 1, MemSize} :
                 m' = [m EXCEPT !.mem = write_memory(@, a, <<Dirt, Dirt>>)]
      BY <1>1, <3>5 DEF Machine, Fields, SameBreak, SameCount
    <3> QED
      BY <1>6, <3>1, <3>2, <3>3, <3>4, <3>5 DEF poke
  <2>2. limit' = limit
    BY <1>6 DEF poke
  <2> QED
    BY <1>1, <1>2, <1>3, <2>1, <2>2, OperationKeeps DEF SameBreak, SameCount
<1>7. CASE SetTargetInstret
  <2>1. PICK t \in 1..MaxInstret :
          /\ m' = set_target_instret(m, t)
          /\ limit' = IF runner.suspender THEN t ELSE limit
    BY <1>7 DEF SetTargetInstret
  <2>2. t \in Nat
    BY RunnerAssumption
  <2>3. Machine(m') /\ SameBreak(m, m') /\ (runner.suspender => m'.target = t)
    BY <1>1, <2>1, <2>2, SetTargetFacts
  <2>4. limit' \in Nat /\ (runner.suspender => limit' = t)
    BY <1>1, <2>1, <2>2
  <2> QED
    BY <1>1, <1>2, <1>3, <2>3, <2>4, OperationKeeps DEF SameBreak
<1>8. CASE save_state \/ load_state
  <2>1. limit' = limit
    BY <1>8 DEF save_state, load_state
  <2>2. m' = m \/ m' = LoadedFrom(file)
    BY <1>8 DEF save_state, load_state
  <2>3. Machine(LoadedFrom(file)) /\ SameBreak(m, LoadedFrom(file)) /\ SameCount(m, LoadedFrom(file))
    BY <1>1 DEF LoadedFrom, Machine, Fields, SameBreak, SameCount
  <2>4. Machine(m') /\ SameBreak(m, m') /\ SameCount(m, m')
    BY <1>1, <2>2, <2>3 DEF SameBreak, SameCount
  <2> QED
    BY <1>1, <1>2, <1>3, <2>1, <2>4, OperationKeeps DEF SameBreak, SameCount
<1> QED
  BY <1>5, <1>6, <1>7, <1>8


\* An operation that calls the library with a machine whose target is the limit.
LEMMA CallKeeps ==
  ASSUME RunnerInv, loaded = "ok", Kept, NEW mm, Machine(mm), SameBreak(m, mm),
         NEW at, rv_execute_from(mm, at), limit' \in Nat,
         runner.suspender => mm.target = limit'
  PROVE  RunnerInv'
<1>1. mm.start_brk <= mm.brk
  BY DEF RunnerInv, SameBreak
<1>2. /\ Machine(m') /\ m'.target = mm.target
      /\ m'.start_brk = mm.start_brk /\ m'.start_brk <= m'.brk
      /\ lib.instret = 3 => m'.instret <= Max({mm.target, began'.instret + 1})
  BY <1>1, ExecuteFacts
<1>3. lib' = lib /\ runner' = runner
  BY DEF Kept, runner
<1>4. StoppedInTime'
  BY <1>2, <1>3 DEF StoppedInTime
<1> QED
  BY <1>2, <1>4, OperationKeeps DEF SameBreak

\* The operations that call the library.
LEMMA RunKeeps ==
  ASSUME RunnerInv,
         \/ execute_from \/ reset_and_run_to_instret \/ run \/ run_multiple
         \/ run_with_counters
  PROVE  RunnerInv'
<1>1. /\ loaded = "ok" /\ Machine(m) /\ limit \in Nat
      /\ runner.suspender => m.target = limit
  BY DEF RunnerInv, execute_from, reset_and_run_to_instret, run, run_multiple,
     run_with_counters, Uses
<1>2. Kept
  BY DEF execute_from, reset_and_run_to_instret, run, run_multiple, run_with_counters
<1>3. U64_MAX \in Nat
  BY RunnerAssumption DEF U64_MAX
<1>4. CASE execute_from
  <2>1. rv_execute_from(m, m.pc) /\ limit' = limit
    BY <1>4 DEF execute_from
  <2> QED
    BY <1>1, <1>2, <2>1, CallKeeps DEF SameBreak
<1>5. CASE reset_and_run_to_instret
  <2> DEFINE fresh == setup_initial_regs(reset(load_segments(m)))
  <2>1. PICK t \in 1..MaxInstret :
          /\ rv_execute_from(clear_exit(set_target_instret(fresh, t)), elf.entry)
          /\ limit' = IF runner.suspender THEN t ELSE U64_MAX
    BY <1>5, Zenon DEF reset_and_run_to_instret
  <2>2. t \in Nat
    BY RunnerAssumption
  <2>3. Machine(fresh) /\ SameBreak(m, fresh)
    BY <1>1, FreshFacts, SetupKeeps DEF SameBreak
  <2> HIDE DEF fresh
  <2> DEFINE limited == set_target_instret(fresh, t)
             ready == clear_exit(limited)
  <2>4. /\ Machine(limited) /\ SameBreak(fresh, limited)
        /\ runner.suspender => limited.target = t
    BY <2>2, <2>3, SetTargetFacts
  <2>5. rv_execute_from(ready, elf.entry)
    BY <2>1
  <2> HIDE DEF limited
  <2>6. Machine(ready) /\ SameBreak(m, ready) /\ (runner.suspender => ready.target = t)
    BY <2>3, <2>4, ClearExitKeeps DEF SameBreak, SameCount
  <2>7. limit' \in Nat /\ (runner.suspender => limit' = t)
    BY <1>3, <2>1, <2>2
  <2> HIDE DEF ready
  <2> QED
    BY <1>1, <1>2, <2>5, <2>6, <2>7, CallKeeps
<1>6. CASE run
  <2>1. rv_execute_from(RunFrom(m), elf.entry) /\ limit' = limit
    BY <1>6 DEF run
  <2>2. /\ Machine(RunFrom(m)) /\ SameBreak(m, RunFrom(m))
        /\ runner.suspender => RunFrom(m).target = m.target
    BY <1>1, RunFromFacts
  <2> QED
    BY <1>1, <1>2, <2>1, <2>2, CallKeeps
<1>7. CASE run_multiple
  <2> DEFINE ready == reset(load_segments(m))
  <2>1. rv_execute_from(ready, elf.entry) /\ limit' = U64_MAX
    BY <1>7 DEF run_multiple
  <2>2. Machine(ready) /\ SameBreak(m, ready) /\ (runner.suspender => ready.target = U64_MAX)
    BY <1>1, FreshFacts
  <2> HIDE DEF ready
  <2> QED
    BY <1>1, <1>2, <1>3, <2>1, <2>2, CallKeeps
<1>8. CASE run_with_counters
  <2> DEFINE ready == setup_initial_regs(reset(load_segments(m)))
  <2>1. rv_execute_from(ready, elf.entry) /\ limit' = U64_MAX
    BY <1>8 DEF run_with_counters
  <2>2. Machine(ready) /\ SameBreak(m, ready) /\ (runner.suspender => ready.target = U64_MAX)
    BY <1>1, FreshFacts, SetupKeeps DEF SameBreak, SameCount
  <2> HIDE DEF ready
  <2> QED
    BY <1>1, <1>2, <1>3, <2>1, <2>2, CallKeeps
<1> QED
  BY <1>4, <1>5, <1>6, <1>7, <1>8

\* Runner::call_addr, which may be refused or panic before it gets there.
LEMMA CallAddrKeeps ==
  ASSUME RunnerInv, NEW n, call_addr(n)
  PROVE  RunnerInv'
<1> DEFINE fresh == reset(load_segments(m))
           args == {10 + i : i \in 0..n - 1}
           ready == [fresh EXCEPT !.regs = [r \in DOMAIN @ |-> IF r \in args THEN Dirt
                                                              ELSE IF r = 1 THEN 0 ELSE @[r]]]
<1>1. /\ loaded = "ok" /\ Machine(m) /\ m.start_brk <= m.brk /\ limit \in Nat
      /\ runner.suspender => m.target = limit
  BY ZenonT(30) DEF RunnerInv, call_addr, Uses
<1>2. Kept
  BY ZenonT(30) DEF call_addr
<1>3. \/ m' = m /\ began' = None /\ limit' = limit
      \/ m' = fresh /\ began' = None /\ limit' = U64_MAX
      \/ rv_execute_from(ready, elf.entry) /\ limit' = U64_MAX
  BY Zenon DEF call_addr, HostOnly
<1>4. U64_MAX \in Nat
  BY RunnerAssumption DEF U64_MAX
<1>5. Machine(fresh) /\ SameBreak(m, fresh) /\ (runner.suspender => fresh.target = U64_MAX)
  BY <1>1, FreshFacts
<1> HIDE DEF fresh
<1>6. Machine(ready) /\ SameBreak(m, ready) /\ (runner.suspender => ready.target = U64_MAX)
  BY <1>5 DEF Machine, Fields, SameBreak
<1> HIDE DEF ready
<1>7. began' = None => StoppedInTime'
  BY DEF StoppedInTime
<1>8. CASE m' = m /\ began' = None /\ limit' = limit
  BY <1>1, <1>2, <1>7, <1>8, OperationKeeps
<1>9. CASE m' = fresh /\ began' = None /\ limit' = U64_MAX
  BY <1>1, <1>2, <1>4, <1>5, <1>7, <1>9, OperationKeeps DEF SameBreak
<1>10. CASE rv_execute_from(ready, elf.entry) /\ limit' = U64_MAX
  BY SMTT(30), <1>1, <1>2, <1>4, <1>6, <1>10, CallKeeps
<1> QED
  BY <1>3, <1>8, <1>9, <1>10

\* A file that is damaged, and a step that changes nothing.
LEMMA StillKeeps ==
  ASSUME RunnerInv, FileDamaged \/ UNCHANGED vars
  PROVE  RunnerInv'
<1>1. UNCHANGED <<lib, elf, loaded, maps, m, op, began, limit>>
  BY DEF FileDamaged, vars
<1> QED
  BY <1>1 DEF RunnerInv, Typed, MemoryFenced, Machine, StoppedInTime, runner,
     get_initial_program_break, virtual_end

\* A runner that is not loaded yet.
LEMMA RunnerInitInv ==
  ASSUME Init
  PROVE  RunnerInv
<1>1. PICK s \in Scenarios : lib = s.lib /\ elf = s.elf /\ host = s.host
                             /\ maps = [at |-> s.at, state |-> None, memory |-> None]
  BY DEF Init
<1>2. Typed /\ maps.at = s.at /\ maps.at.state \in Nat /\ maps.at.memory \in Nat
  BY <1>1, ScenariosAssumption DEF Typed, ProgramHeader
<1>3. MemoryFenced /\ {"at", "state", "memory"} \subseteq DOMAIN maps
  BY <1>1 DEF MemoryFenced
<1>4. loaded = "no" /\ limit = U64_MAX /\ m = RvState_default(lib, 0) /\ began = None
  BY DEF Init
<1>5. /\ Machine(m) /\ m.brk = 0 /\ m.start_brk = 0
      /\ runner.suspender => m.target = U64_MAX
  BY <1>4, DefaultFacts
<1>6. U64_MAX \in Nat /\ StoppedInTime
  BY <1>4, RunnerAssumption DEF U64_MAX, StoppedInTime
<1> QED
  BY <1>2, <1>3, <1>4, <1>5, <1>6 DEF RunnerInv

-----------------------------------------------------------------------------
\* The invariant holds of every library, program and host program.
THEOREM RunnerInvariance == Spec => []RunnerInv
<1>1. Init => RunnerInv
  BY RunnerInitInv
<1>2. RunnerInv /\ [Next]_vars => RunnerInv'
  BY LoadKeeps, HostKeeps, RunKeeps, CallAddrKeeps, StillKeeps DEF Next, call
<1> QED
  BY <1>1, <1>2, PTL DEF Spec

\* Guest memory at a fixed address is where the library expects it, fenced, and
\* apart from the state (FixedMemory::new, GuardedMemory::new_at_fixed).
THEOREM FenceCorrect == Spec => []MemoryFenced
<1>1. RunnerInv => MemoryFenced
  BY DEF RunnerInv
<1> QED
  BY <1>1, RunnerInvariance, PTL

\* Every program that loads has segments that keep apart, within the file, and
\* a break that stays above them (validate_segments, get_initial_program_break,
\* rv_sys_brk).
THEOREM ImagesCorrect == Spec => []AcceptedImages
<1>1. RunnerInv => AcceptedImages
  <2> SUFFICES ASSUME RunnerInv, loaded = "ok" PROVE AcceptedImages
    BY DEF AcceptedImages
  <2>1. /\ Typed /\ validate_segments(elf) = "ok" /\ Machine(m)
        /\ get_initial_program_break(elf) <= m.brk
    BY DEF RunnerInv
  <2> DEFINE segs == Loadable(elf)
             p(i) == elf.phdrs[i]
             cells(i) == p(i).vaddr..EndOf(p(i)) - 1
  <2>2. \A i \in segs : /\ p(i).vaddr \in Nat /\ EndOf(p(i)) \in Nat
                        /\ i \in Nat /\ p(i).offset + p(i).filesz <= Len(elf.bytes)
    <3> SUFFICES ASSUME NEW i \in segs
                 PROVE  /\ p(i).vaddr \in Nat /\ EndOf(p(i)) \in Nat
                        /\ i \in Nat /\ p(i).offset + p(i).filesz <= Len(elf.bytes)
      OBVIOUS
    <3>1. p(i) \in ProgramHeader /\ p(i).offset + p(i).filesz <= Len(elf.bytes)
      BY <2>1, ValidSegments
    <3>2. i \in Nat
      BY <2>1 DEF Loadable, Typed
    <3> HIDE DEF p
    <3>3. p(i).vaddr \in Nat /\ EndOf(p(i)) \in Nat
      BY <3>1 DEF ProgramHeader, EndOf
    <3> QED
      BY <3>1, <3>2, <3>3
  <2>3. \A i, j \in segs : i # j => cells(i) \cap cells(j) = {}
    <3>1. \A i, j \in segs : i < j => EndOf(p(i)) <= p(j).vaddr \/ EndOf(p(j)) <= p(i).vaddr
      BY <2>1, ValidSegments
    <3> HIDE DEF p, segs
    <3>2. \A i, j \in segs : i < j \/ j < i \/ i = j
      BY <2>2
    <3>3. \A i, j \in segs : i < j => cells(i) \cap cells(j) = {}
      BY <2>2, <3>1
    <3> QED
      BY <3>2, <3>3
  <2>4. ASSUME NEW i \in segs, lib.xlen = 32 => EndOf(p(i)) < AddrSpace32
        PROVE  cells(i) \subseteq 0..m.brk - 1
    <3>1. EndOf(p(i)) <= get_initial_program_break(elf) /\ get_initial_program_break(elf) \in Nat
      BY <2>1, <2>4, BreakFacts
    <3>2. m.brk \in Nat
      BY <2>1 DEF Machine
    <3>3. p(i).vaddr \in Nat /\ EndOf(p(i)) \in Nat
      BY <2>2
    <3> HIDE DEF p, segs
    <3> QED
      BY <2>1, <3>1, <3>2, <3>3
  <2>5. segs # {}
    BY <2>1, ValidSegments
  <2> QED
    BY <2>2, <2>3, <2>4, <2>5 DEF AcceptedImages
<1> QED
  BY <1>1, RunnerInvariance, PTL

\* A run the host limited stops by the limit, whatever came before it
\* (Runner::run, reset_and_run_to_instret, execute_from).
THEOREM LimitCorrect == Spec => RunKeepsLimit
<1> DEFINE A == (op'.name \in {"run", "reset_and_run_to_instret", "execute_from"}
                   /\ runner.suspender /\ began' # None /\ lib.instret = 3)
                => m'.instret <= Max({limit', began'.instret + 1})
<1>1. RunnerInv' /\ [Next]_vars => [A]_vars
  <2> SUFFICES ASSUME RunnerInv', Next PROVE A
    BY SMTT(30)
  <2>1. lib' = lib
    BY ZenonT(30) DEF Next, Load, prepare, poke, SetTargetInstret, execute_from, reset_and_run_to_instret,
       run, run_multiple, run_with_counters, call, call_addr, save_state, FileDamaged,
       load_state, Kept
  <2>2. runner' = runner
    BY <2>1 DEF runner
  <2> QED
    BY <2>1, <2>2 DEF RunnerInv, StoppedInTime
<1> QED
  BY <1>1, RunnerInvariance, PTL DEF Spec, RunKeepsLimit
=============================================================================
