------------------------- MODULE RunnerStoreProofs -------------------------
(***************************************************************************)
(* What the runner puts in memory and registers: the image a run starts    *)
(* from, and a saved state that is loaded again.                           *)
(***************************************************************************)
EXTENDS RunnerProofs

-----------------------------------------------------------------------------
(* The image in memory. *)

\* The file part of segment i covers cell a.
Covers(i, a) ==
  /\ i \in Loadable(elf)
  /\ elf.phdrs[i].vaddr <= a /\ a < elf.phdrs[i].vaddr + elf.phdrs[i].filesz

\* The byte it puts there.
Byte(i, a) == elf.bytes[elf.phdrs[i].offset + a - elf.phdrs[i].vaddr + 1]

\* A header as ELF has it: the part of a segment in the file is not longer than
\* the segment, which validate_segments does not check.
FileInMemory == \A i \in Loadable(elf) : elf.phdrs[i].filesz <= elf.phdrs[i].memsz

\* Part of a sequence of numbers.
LEMMA SubBytes ==
  ASSUME NEW s \in Seq(Nat), NEW o \in Nat, NEW n \in Nat, o + n <= Len(s)
  PROVE  /\ SubSeq(s, o + 1, o + n) \in Seq(Nat) /\ Len(SubSeq(s, o + 1, o + n)) = n
         /\ \A k \in 1..n : SubSeq(s, o + 1, o + n)[k] = s[o + k]
OBVIOUS

\* The bytes of a segment.
LEMMA DataFacts ==
  ASSUME Typed, validate_segments(elf) = "ok", NEW i \in Loadable(elf)
  PROVE  /\ Data(elf, i) \in Seq(Nat) /\ Len(Data(elf, i)) = elf.phdrs[i].filesz
         /\ \A a \in Nat :
              Covers(i, a) => /\ a - elf.phdrs[i].vaddr + 1 \in 1..Len(Data(elf, i))
                              /\ Data(elf, i)[a - elf.phdrs[i].vaddr + 1] = Byte(i, a)
<1> DEFINE o == elf.phdrs[i].offset
           f == elf.phdrs[i].filesz
           v == elf.phdrs[i].vaddr
<1>1. o \in Nat /\ f \in Nat /\ v \in Nat /\ o + f <= Len(elf.bytes) /\ Len(elf.bytes) \in Nat
  BY ValidSegments DEF ProgramHeader, Typed
<1>2. Data(elf, i) = SubSeq(elf.bytes, o + 1, o + f)
  BY DEF Data
<1>3. \A a : Covers(i, a) <=> v <= a /\ a < v + f
  BY DEF Covers
<1>4. \A a : Byte(i, a) = elf.bytes[o + a - v + 1]
  BY DEF Byte
<1> HIDE DEF o, f, v
<1>5. elf.bytes \in Seq(Nat)
  BY DEF Typed
<1>6. /\ SubSeq(elf.bytes, o + 1, o + f) \in Seq(Nat)
      /\ Len(SubSeq(elf.bytes, o + 1, o + f)) = f
      /\ \A k \in 1..f : SubSeq(elf.bytes, o + 1, o + f)[k] = elf.bytes[o + k]
  BY <1>1, <1>5, SubBytes
<1>7. /\ Data(elf, i) \in Seq(Nat) /\ Len(Data(elf, i)) = f
      /\ \A k \in 1..f : Data(elf, i)[k] = elf.bytes[o + k]
  BY <1>2, <1>6
<1>8. ASSUME NEW a \in Nat, v <= a, a < v + f
      PROVE  a - v + 1 \in 1..f /\ Data(elf, i)[a - v + 1] = elf.bytes[o + a - v + 1]
  <2>1. a - v + 1 \in 1..f /\ o + (a - v + 1) = o + a - v + 1
    BY <1>1, <1>8
  <2> QED
    BY <1>7, <2>1
<1> QED
  BY <1>3, <1>4, <1>7, <1>8 DEF f, v

\* Copying puts the data where it belongs and nowhere else.
LEMMA CopyFacts ==
  ASSUME NEW bytes \in [Cells -> Nat], NEW offset \in Nat, NEW data \in Seq(Nat)
  PROVE  /\ copy_from(bytes, offset, data) \in [Cells -> Nat]
         /\ \A a \in Cells :
              copy_from(bytes, offset, data)[a] =
                IF offset <= a /\ a < offset + Len(data) THEN data[a - offset + 1] ELSE bytes[a]
<1>1. \A a \in Cells : a \in Nat
  BY RunnerAssumption DEF Cells
<1>2. Len(data) \in Nat /\ \A k \in 1..Len(data) : data[k] \in Nat
  OBVIOUS
<1>3. \A a \in Cells : a \in offset..offset + Len(data) - 1 <=> offset <= a /\ a < offset + Len(data)
  BY <1>1, <1>2
<1>4. \A a \in Cells : a \in offset..offset + Len(data) - 1 => a - offset + 1 \in 1..Len(data)
  BY <1>1, <1>2
<1>5. copy_from(bytes, offset, data) =
        [a \in Cells |-> IF a \in offset..offset + Len(data) - 1 THEN data[a - offset + 1] ELSE bytes[a]]
  BY DEF copy_from
<1> QED
  BY <1>2, <1>3, <1>4, <1>5

\* Loading goes from cleared memory through the segments one after the other.
LEMMA LoadSteps ==
  ASSUME Typed, validate_segments(elf) = "ok", NEW mm, Machine(mm)
  PROVE  \E g \in [0..Len(elf.phdrs) -> [Cells -> Nat]] :
           /\ g[0] = clear
           /\ \A i \in 1..Len(elf.phdrs) :
                g[i] = IF i \in Loadable(elf)
                       THEN copy_from(g[i - 1], elf.phdrs[i].vaddr, Data(elf, i))
                       ELSE g[i - 1]
           /\ load_segments(mm).mem = g[Len(elf.phdrs)]
<1> DEFINE n == Len(elf.phdrs)
           M == [Cells -> Nat]
           step(i, bytes) == IF i \in Loadable(elf)
                             THEN copy_from(bytes, elf.phdrs[i].vaddr, Data(elf, i))
                             ELSE bytes
           F == [x \in (1..n) \X M |-> step(x[1], x[2])]
           Rec(g) == [i \in 0..n |-> IF i = 0 THEN clear ELSE step(i, g[i - 1])]
           h == CHOOSE g : g = Rec(g)
<1>1. n \in Nat /\ clear \in M
  BY DEF Typed, clear
<1>2. ASSUME NEW i \in 1..n, NEW bytes \in M PROVE step(i, bytes) \in M
  <2>1. CASE i \in Loadable(elf)
    <3>1. elf.phdrs[i].vaddr \in Nat /\ Data(elf, i) \in Seq(Nat)
      BY <2>1, ValidSegments, DataFacts DEF ProgramHeader
    <3> QED
      BY <2>1, <3>1, CopyFacts
  <2>2. CASE i \notin Loadable(elf)
    BY <2>2
  <2> QED
    BY <2>1, <2>2
<1>3. load_segments(mm) = [mm EXCEPT !.mem = h[n]]
  BY Zenon DEF load_segments
<1> HIDE DEF step, M
<1>4. F \in [(1..n) \X M -> M]
  BY <1>2
<1>5. \A i \in 1..n : \A bytes \in M : F[<<i, bytes>>] = step(i, bytes)
  OBVIOUS
<1> HIDE DEF n, F
<1>6. PICK g \in [0..n -> M] : g[0] = clear /\ \A k \in 1..n : g[k] = F[<<k, g[k - 1]>>]
  <2>1. \E g \in [0..n -> M] : History(g, n, clear, F)
    BY <1>1, <1>4, Iterates, Zenon
  <2> QED
    BY ZenonT(30), <2>1 DEF History
<1>7. ASSUME NEW k \in 1..n PROVE g[k] = step(k, g[k - 1])
  <2>1. k - 1 \in 0..n
    BY <1>1
  <2> QED
    BY ZenonT(30), <1>5, <1>6, <2>1
<1>8. g = Rec(g)
  <2>1. \A k \in 0..n : k = 0 \/ k \in 1..n
    BY <1>1
  <2> QED
    BY <1>6, <1>7, <2>1
<1>9. h = Rec(h)
  <2> HIDE DEF Rec
  <2> QED
    BY <1>8, Zenon
<1> HIDE DEF h
<1>10. DOMAIN h = 0..n /\ \A k \in 0..n : h[k] = IF k = 0 THEN clear ELSE step(k, h[k - 1])
  BY ZenonT(30), <1>9
<1>11. ASSUME NEW k \in 0..n PROVE h[k] \in M
  <2> DEFINE bad == {i \in 0..n : h[i] \notin M}
  <2>1. SUFFICES ASSUME bad # {} PROVE FALSE
    OBVIOUS
  <2>2. bad \subseteq Nat
    BY <1>1
  <2> HIDE DEF bad
  <2>3. PICK i \in bad : \A j \in bad : i <= j
    BY ZenonT(30), <2>1, <2>2, LeastOf
  <2>4. i \in 0..n /\ h[i] \notin M
    BY <2>3 DEF bad
  <2>5. CASE i = 0
    BY <1>1, <1>10, <2>4, <2>5
  <2>6. CASE i # 0
    <3>1. i \in 1..n /\ i - 1 \in 0..n /\ i - 1 < i
      BY <1>1, <2>4, <2>6
    <3>2. h[i - 1] \in M
      BY <2>2, <2>3, <3>1 DEF bad
    <3>3. h[i] = step(i, h[i - 1])
      BY <1>10, <2>4, <2>6
    <3> QED
      BY <1>2, <2>4, <3>1, <3>2, <3>3
  <2> QED
    BY <2>5, <2>6
<1>12. h \in [0..n -> M]
  BY <1>9, <1>10, <1>11
<1>13. /\ h[0] = clear
       /\ \A i \in 1..n : h[i] = step(i, h[i - 1])
  BY <1>1, <1>10
<1>14. load_segments(mm).mem = h[n]
  BY <1>3 DEF Machine, Fields
<1> QED
  BY <1>12, <1>13, <1>14, Zenon DEF n, M, step

\* Loaded memory is the image the file describes.
LEMMA ImageLoaded ==
  ASSUME Typed, validate_segments(elf) = "ok", FileInMemory, NEW mm, Machine(mm)
  PROVE  \A a \in Cells : load_segments(mm).mem[a] = ImageCell(a)
<1> DEFINE n == Len(elf.phdrs)
<1>1. PICK g \in [0..n -> [Cells -> Nat]] :
           /\ g[0] = clear
           /\ \A i \in 1..n :
                g[i] = IF i \in Loadable(elf)
                       THEN copy_from(g[i - 1], elf.phdrs[i].vaddr, Data(elf, i))
                       ELSE g[i - 1]
           /\ load_segments(mm).mem = g[n]
  BY LoadSteps, Zenon
<1>2. n \in Nat /\ Loadable(elf) \subseteq 1..n
  BY DEF Typed, Loadable
<1>3. \A a \in Cells : a \in Nat
  BY RunnerAssumption DEF Cells
<1>4. ASSUME NEW i \in Loadable(elf), NEW j \in Loadable(elf), i < j, NEW a \in Nat,
             Covers(i, a), Covers(j, a)
      PROVE  FALSE
  <2>1. /\ elf.phdrs[i].vaddr \in Nat /\ elf.phdrs[i].memsz \in Nat /\ elf.phdrs[i].filesz \in Nat
        /\ elf.phdrs[j].vaddr \in Nat /\ elf.phdrs[j].memsz \in Nat /\ elf.phdrs[j].filesz \in Nat
    BY ValidSegments DEF ProgramHeader
  <2>2. \/ EndOf(elf.phdrs[i]) <= elf.phdrs[j].vaddr
        \/ EndOf(elf.phdrs[j]) <= elf.phdrs[i].vaddr
    BY <1>4, ValidSegments
  <2>3. /\ elf.phdrs[i].filesz <= elf.phdrs[i].memsz
        /\ elf.phdrs[j].filesz <= elf.phdrs[j].memsz
    BY DEF FileInMemory
  <2>4. /\ elf.phdrs[i].vaddr <= a /\ a < elf.phdrs[i].vaddr + elf.phdrs[i].filesz
        /\ elf.phdrs[j].vaddr <= a /\ a < elf.phdrs[j].vaddr + elf.phdrs[j].filesz
    BY <1>4 DEF Covers
  <2>5. \A v1, s1, f1, v2, s2, f2 \in Nat :
          /\ v1 + s1 <= v2 \/ v2 + s2 <= v1
          /\ f1 <= s1 /\ f2 <= s2
          /\ v1 <= a /\ a < v1 + f1 /\ v2 <= a
          => ~(a < v2 + f2)
    OBVIOUS
  <2> QED
    BY ZenonT(30), <2>1, <2>2, <2>3, <2>4, <2>5 DEF EndOf
<1> DEFINE Good(k) == \A a \in Cells :
                        /\ \A i \in 1..k : Covers(i, a) => g[k][a] = Byte(i, a)
                        /\ (\A i \in 1..k : ~Covers(i, a)) => g[k][a] = 0
<1> HIDE DEF n
<1>5. Good(0)
  BY <1>1 DEF clear
<1>6. ASSUME NEW k \in 1..n, Good(k - 1) PROVE Good(k)
  <2>1. k - 1 \in 0..n /\ g[k - 1] \in [Cells -> Nat] /\ k \in Nat
    BY <1>1, <1>2
  <2>2. ASSUME NEW a \in Cells, Covers(k, a)
        PROVE  /\ g[k][a] = Byte(k, a)
               /\ \A i \in 1..k - 1 : ~Covers(i, a)
    <3>1. k \in Loadable(elf)
      BY <2>2 DEF Covers
    <3>2. g[k] = copy_from(g[k - 1], elf.phdrs[k].vaddr, Data(elf, k))
      BY <1>1, <3>1
    <3>3. /\ Data(elf, k) \in Seq(Nat) /\ Len(Data(elf, k)) = elf.phdrs[k].filesz
          /\ Data(elf, k)[a - elf.phdrs[k].vaddr + 1] = Byte(k, a)
      BY <1>3, <2>2, <3>1, DataFacts
    <3>4. elf.phdrs[k].vaddr \in Nat
      BY <3>1, ValidSegments DEF ProgramHeader
    <3>5. g[k][a] = Byte(k, a)
      <4>1. g[k][a] = IF a \in elf.phdrs[k].vaddr..elf.phdrs[k].vaddr + Len(Data(elf, k)) - 1
                      THEN Data(elf, k)[a - elf.phdrs[k].vaddr + 1] ELSE g[k - 1][a]
        BY <3>2 DEF copy_from
      <4>2. elf.phdrs[k].vaddr <= a /\ a < elf.phdrs[k].vaddr + elf.phdrs[k].filesz
        BY <2>2 DEF Covers
      <4>3. a \in elf.phdrs[k].vaddr..elf.phdrs[k].vaddr + Len(Data(elf, k)) - 1
        <5>1. \A v, l, b \in Nat : v <= b /\ b < v + l => b \in v..v + l - 1
          OBVIOUS
        <5>2. a \in Nat /\ Len(Data(elf, k)) \in Nat
          BY <1>3, <3>3
        <5> QED
          BY ZenonT(30), <3>3, <3>4, <4>2, <5>1, <5>2
      <4> QED
        BY <3>3, <4>1, <4>3, Zenon
    <3>6. ASSUME NEW i \in 1..k - 1, Covers(i, a) PROVE FALSE
      <4>1. i \in Loadable(elf) /\ i < k
        BY <2>1, <3>6 DEF Covers
      <4> QED
        BY <1>3, <1>4, <2>2, <3>1, <3>6, <4>1
    <3> QED
      BY <3>5, <3>6
  <2>3. ASSUME NEW a \in Cells, ~Covers(k, a)
        PROVE  g[k][a] = g[k - 1][a]
    <3>1. CASE k \in Loadable(elf)
      <4>1. g[k] = copy_from(g[k - 1], elf.phdrs[k].vaddr, Data(elf, k))
        BY <1>1, <3>1
      <4>2. Data(elf, k) \in Seq(Nat) /\ Len(Data(elf, k)) = elf.phdrs[k].filesz
        BY <3>1, DataFacts
      <4>3. elf.phdrs[k].vaddr \in Nat
        BY <3>1, ValidSegments DEF ProgramHeader
      <4>4. g[k][a] = IF a \in elf.phdrs[k].vaddr..elf.phdrs[k].vaddr + Len(Data(elf, k)) - 1
                      THEN Data(elf, k)[a - elf.phdrs[k].vaddr + 1] ELSE g[k - 1][a]
        BY <4>1 DEF copy_from
      <4>5. ~(elf.phdrs[k].vaddr <= a /\ a < elf.phdrs[k].vaddr + elf.phdrs[k].filesz)
        BY <2>3, <3>1 DEF Covers
      <4> QED
        BY SMTT(30), <1>3, <4>2, <4>3, <4>4, <4>5
    <3>2. CASE k \notin Loadable(elf)
      BY <1>1, <3>2
    <3> QED
      BY <3>1, <3>2
  <2>4. \A i \in 1..k : i = k \/ i \in 1..k - 1
    BY <2>1
  <2>5. \A i \in 1..k - 1 : i \in 1..k /\ k \in 1..k
    BY <2>1
  <2>6. k \in 1..k
    BY <2>1
  <2>7. ASSUME NEW a \in Cells
        PROVE  /\ \A i \in 1..k : Covers(i, a) => g[k][a] = Byte(i, a)
               /\ (\A i \in 1..k : ~Covers(i, a)) => g[k][a] = 0
    <3>1. CASE Covers(k, a)
      BY <2>2, <2>4, <2>6, <3>1
    <3>2. CASE ~Covers(k, a)
      <4>1. /\ \A i \in 1..k - 1 : Covers(i, a) => g[k - 1][a] = Byte(i, a)
            /\ (\A i \in 1..k - 1 : ~Covers(i, a)) => g[k - 1][a] = 0
        BY <1>6
      <4>2. g[k][a] = g[k - 1][a]
        BY <2>3, <3>2
      <4> QED
        BY <2>4, <2>5, <3>2, <4>1, <4>2
    <3> QED
      BY <3>1, <3>2
  <2> QED
    BY <2>7
<1>7. Good(n)
  <2> DEFINE bad == {k \in 0..n : ~Good(k)}
  <2> HIDE DEF Good
  <2>0. n \in 0..n
    BY <1>2
  <2>1. SUFFICES ASSUME bad # {} PROVE FALSE
    BY <2>0, Zenon
  <2>2. bad \subseteq Nat
    BY <1>2
  <2> HIDE DEF bad
  <2>3. PICK k \in bad : \A j \in bad : k <= j
    BY ZenonT(30), <2>1, <2>2, LeastOf
  <2>4. k \in 0..n /\ ~Good(k)
    BY <2>3 DEF bad
  <2>5. k # 0
    BY <1>5, <2>4
  <2>6. k \in 1..n /\ k - 1 \in 0..n /\ k - 1 < k /\ k \in Nat
    BY <1>2, <2>4, <2>5
  <2>7. Good(k - 1)
    BY <2>2, <2>3, <2>6 DEF bad
  <2> QED
    BY <1>6, <2>4, <2>6, <2>7
<1>8. ASSUME NEW a \in Cells PROVE g[n][a] = ImageCell(a)
  <2> DEFINE of == {i \in Loadable(elf) :
                      elf.phdrs[i].vaddr <= a /\ a < elf.phdrs[i].vaddr + elf.phdrs[i].filesz}
             at == CHOOSE i \in of : TRUE
  <2>1. ImageCell(a) = IF of = {} THEN 0 ELSE Byte(at, a)
    BY DEF ImageCell, Byte
  <2>2. \A i : i \in of <=> Covers(i, a)
    BY DEF Covers
  <2>3. of \subseteq 1..n
    BY <1>2
  <2>4. of # {} => at \in of
    BY Zenon
  <2> HIDE DEF of, at
  <2>5. /\ \A i \in 1..n : Covers(i, a) => g[n][a] = Byte(i, a)
        /\ (\A i \in 1..n : ~Covers(i, a)) => g[n][a] = 0
    BY <1>7
  <2> QED
    BY ZenonT(30), <2>1, <2>2, <2>3, <2>4, <2>5
<1> QED
  BY <1>1, <1>8

-----------------------------------------------------------------------------
(* The registers. *)

\* A register file of this library, with x0 at zero.
RegisterFile(regs) == regs = [r \in Regs |-> regs[r]] /\ regs[0] = 0

\* The registers a runner sets by number.
LEMMA RegFacts == {0, 1, 2, 3, 10} \subseteq Regs
<1>1. CASE lib.rve
  <2>1. RegSeq(lib) = <<0, 1, 2, 3, 10>>
    BY <1>1 DEF RegSeq
  <2> QED
    BY <2>1 DEF Regs, Range
<1>2. CASE ~lib.rve
  <2>1. RegSeq(lib) = <<0, 1, 2, 3, 10, 16>>
    BY <1>2 DEF RegSeq
  <2> QED
    BY <2>1 DEF Regs, Range
<1> QED
  BY <1>1, <1>2

\* The runner for fixed addresses is that of the libraries that have them.
LEMMA FixedRunner == runner.fixed <=> lib.fixed
BY DEF runner, RunnerFor, create_rv_runner, FixedAddrRunner, TypedRunner, SuspendRunner,
   PreflightRunner, StatsRunner, DebugRunner, DiffRunner, BufferedDiffRunner

\* A machine as a run has to find it, but for the pc.
Fresh(mm) ==
  /\ \A a \in Cells : mm.mem[a] = ImageCell(a)
  /\ \A r \in Regs : mm.regs[r] = CASE r = 2 -> Symbol("__stack_top")
                                    [] r = 3 -> Symbol("__global_pointer$")
                                    [] OTHER -> 0
  /\ mm.instret = 0 /\ mm.has_exited = 0 /\ mm.exit_code = 0
  /\ ~lib.fixed => ~mm.reserved

\* reset on a loaded image.
LEMMA ResetFresh ==
  ASSUME NEW mm, Machine(mm), RegisterFile(mm.regs)
  PROVE  LET rr == reset(mm)
         IN  /\ rr.mem = mm.mem /\ rr.regs = [r \in Regs |-> 0]
             /\ rr.instret = 0 /\ rr.has_exited = 0 /\ rr.exit_code = 0
             /\ ~lib.fixed => ~rr.reserved
<1>1. DOMAIN mm.regs = Regs
  BY DEF RegisterFile
<1>2. CASE runner.fixed
  BY <1>1, <1>2, FixedRunner DEF reset, FixedAddrRunner_reset, Machine, Fields
<1>3. CASE ~runner.fixed
  <2>1. /\ RvState_reset(mm).mem = mm.mem /\ RvState_reset(mm).regs = [r \in Regs |-> 0]
        /\ RvState_reset(mm).instret = 0 /\ RvState_reset(mm).has_exited = 0
        /\ RvState_reset(mm).exit_code = 0 /\ RvState_reset(mm).reserved = FALSE
        /\ Fields \subseteq DOMAIN RvState_reset(mm)
    BY <1>1 DEF RvState_reset, Machine, Fields
  <2>2. reset(mm) = RvState_reset(mm) \/ reset(mm) = disable(RvState_reset(mm))
    BY <1>3 DEF reset
  <2> QED
    BY <2>1, <2>2 DEF disable, Fields
<1> QED
  BY <1>2, <1>3

\* nn differs from mm in registers at most.
SameButRegs(mm, nn) ==
  /\ nn.mem = mm.mem /\ nn.instret = mm.instret /\ nn.has_exited = mm.has_exited
  /\ nn.exit_code = mm.exit_code /\ nn.reserved = mm.reserved
  /\ Fields \subseteq DOMAIN nn

\* Setting a register other than x0 sets that one.
LEMMA SetRegFacts ==
  ASSUME NEW rr, NEW mm, SameButRegs(rr, mm), NEW r, r # 0, NEW v
  PROVE  SameButRegs(rr, set_reg(mm, r, v)) /\ set_reg(mm, r, v).regs = [mm.regs EXCEPT ![r] = v]
BY DEF SameButRegs, Fields, set_reg

\* A program that was loaded and set up is fresh.
LEMMA FreshMachine ==
  ASSUME Typed, validate_segments(elf) = "ok", FileInMemory,
         NEW mm, Machine(mm), RegisterFile(mm.regs)
  PROVE  Fresh(setup_initial_regs(reset(load_segments(mm))))
<1> DEFINE img == load_segments(mm)
           rr == reset(img)
           gp == lookup_symbol(elf, "__global_pointer$")
           sp == lookup_symbol(elf, "__stack_top")
           m1 == IF gp = {} THEN rr ELSE set_reg(rr, 3, CHOOSE v \in gp : TRUE)
           m2 == IF sp = {} THEN m1 ELSE set_reg(m1, 2, CHOOSE v \in sp : TRUE)
           m3 == set_reg(m2, 1, 0)
<1>1. /\ \A a \in Cells : img.mem[a] = ImageCell(a)
      /\ Machine(img) /\ img.regs = mm.regs
  BY ZenonT(30), ImageLoaded, LoadSegmentsKeeps DEF load_segments, Machine, Fields
<1>2. m3 = setup_initial_regs(rr)
  BY Zenon DEF setup_initial_regs
<1>3. gp = {} \/ gp = {elf.symbols["__global_pointer$"]}
  BY DEF lookup_symbol
<1>4. sp = {} \/ sp = {elf.symbols["__stack_top"]}
  BY DEF lookup_symbol
<1>5. Symbol("__global_pointer$") = IF gp = {} THEN 0 ELSE CHOOSE v \in gp : TRUE
  BY <1>3 DEF lookup_symbol, Symbol
<1>6. Symbol("__stack_top") = IF sp = {} THEN 0 ELSE CHOOSE v \in sp : TRUE
  BY <1>4 DEF lookup_symbol, Symbol
<1> HIDE DEF img, gp, sp
<1>7. /\ rr.mem = img.mem /\ rr.regs = [r \in Regs |-> 0]
      /\ rr.instret = 0 /\ rr.has_exited = 0 /\ rr.exit_code = 0
      /\ ~lib.fixed => ~rr.reserved
  BY <1>1, ResetFresh
<1>8. Machine(rr)
  BY <1>1, ResetFacts
<1> HIDE DEF rr
<1> DEFINE gpv == CHOOSE v \in gp : TRUE
           spv == CHOOSE v \in sp : TRUE
<1>9. /\ SameButRegs(rr, m1)
      /\ m1.regs = [r \in Regs |-> IF r = 3 THEN Symbol("__global_pointer$") ELSE 0]
  <2> HIDE DEF gpv
  <2>1. SameButRegs(rr, rr)
    BY <1>8 DEF SameButRegs, Machine
  <2>2. CASE gp = {}
    BY <1>5, <1>7, <2>1, <2>2
  <2>3. CASE gp # {}
    <3>1. m1 = set_reg(rr, 3, gpv) /\ Symbol("__global_pointer$") = gpv
      BY <1>5, <2>3 DEF gpv
    <3> HIDE DEF m1
    <3>2. SameButRegs(rr, m1) /\ m1.regs = [rr.regs EXCEPT ![3] = gpv]
      BY <2>1, <3>1, SetRegFacts
    <3> QED
      BY <1>7, <3>1, <3>2
  <2> QED
    BY <2>2, <2>3
<1> HIDE DEF m1
<1>10. /\ SameButRegs(rr, m2)
       /\ m2.regs = [r \in Regs |-> IF r = 3 THEN Symbol("__global_pointer$")
                                   ELSE IF r = 2 THEN Symbol("__stack_top") ELSE 0]
  <2> HIDE DEF spv
  <2>1. CASE sp = {}
    BY <1>6, <1>9, <2>1
  <2>2. CASE sp # {}
    <3>1. m2 = set_reg(m1, 2, spv) /\ Symbol("__stack_top") = spv
      BY <1>6, <2>2 DEF spv
    <3>2. SameButRegs(rr, m2) /\ m2.regs = [m1.regs EXCEPT ![2] = spv]
      BY <1>9, <3>1, SetRegFacts
    <3> QED
      BY <1>9, <3>1, <3>2
  <2> QED
    BY <2>1, <2>2
<1> HIDE DEF m2
<1>11. /\ SameButRegs(rr, m3)
       /\ m3.regs = [r \in Regs |-> IF r = 3 THEN Symbol("__global_pointer$")
                                   ELSE IF r = 2 THEN Symbol("__stack_top") ELSE 0]
  <2>1. SameButRegs(rr, m3) /\ m3.regs = [m2.regs EXCEPT ![1] = 0]
    BY <1>10, SetRegFacts
  <2> QED
    BY <1>10, <2>1
<1> HIDE DEF m3
<1>12. Fresh(m3)
  BY <1>1, <1>7, <1>11 DEF Fresh, SameButRegs
<1> QED
  BY ZenonT(30), <1>2, <1>12 DEF rr, img

\* Setting a limit and clearing the exit keep it fresh.
LEMMA FreshKept ==
  ASSUME NEW mm, Machine(mm), Fresh(mm), NEW t
  PROVE  Fresh(set_target_instret(mm, t)) /\ Fresh(clear_exit(mm))
BY DEF Fresh, Machine, Fields, set_target_instret, set_target, clear_exit

-----------------------------------------------------------------------------
(* What is stored. *)

\* A machine with a register file and memory of the right size.
Stored(mm) == RegisterFile(mm.regs) /\ mm.mem \in [Cells -> Nat]

\* Loading keeps it so.
LEMMA StoredLoad ==
  ASSUME Typed, validate_segments(elf) = "ok", NEW mm, Machine(mm), Stored(mm)
  PROVE  Stored(load_segments(mm))
<1>1. PICK g \in [0..Len(elf.phdrs) -> [Cells -> Nat]] :
        load_segments(mm).mem = g[Len(elf.phdrs)]
  BY LoadSteps
<1>2. Len(elf.phdrs) \in 0..Len(elf.phdrs)
  BY DEF Typed
<1>3. load_segments(mm).regs = mm.regs
  BY DEF load_segments, Machine, Fields
<1>4. load_segments(mm).mem \in [Cells -> Nat]
  BY <1>1, <1>2
<1> QED
  BY <1>3, <1>4 DEF Stored

\* RunnerImpl::reset zeroes the registers and leaves memory.
LEMMA StoredReset ==
  ASSUME NEW mm, Machine(mm), Stored(mm)
  PROVE  Stored(reset(mm))
<1>1. reset(mm).mem = mm.mem /\ reset(mm).regs = [r \in Regs |-> 0]
  BY ResetFresh DEF Stored
<1> QED
  BY <1>1, RegFacts DEF Stored, RegisterFile

\* x0 is never set.
LEMMA StoredSetReg ==
  ASSUME NEW mm, Machine(mm), Stored(mm), NEW r, NEW v
  PROVE  Stored(set_reg(mm, r, v))
<1>1. CASE r = 0
  BY <1>1 DEF set_reg
<1>2. CASE r # 0
  <2>1. SameButRegs(mm, mm)
    BY DEF SameButRegs, Machine
  <2>2. set_reg(mm, r, v).mem = mm.mem /\ set_reg(mm, r, v).regs = [mm.regs EXCEPT ![r] = v]
    BY <1>2, <2>1, SetRegFacts DEF SameButRegs
  <2> QED
    BY <1>2, <2>2, RegFacts DEF Stored, RegisterFile
<1> QED
  BY <1>1, <1>2

\* Setting the initial registers sets three of them.
LEMMA StoredSetup ==
  ASSUME NEW mm, Machine(mm), Stored(mm)
  PROVE  Stored(setup_initial_regs(mm))
<1> DEFINE put(acc, r, name) ==
             IF lookup_symbol(elf, name) = {} THEN acc
             ELSE set_reg(acc, r, CHOOSE v \in lookup_symbol(elf, name) : TRUE)
           m1 == put(mm, 3, "__global_pointer$")
           m2 == put(m1, 2, "__stack_top")
<1>1. Machine(m1) /\ Stored(m1)
  BY SetRegKeeps, StoredSetReg
<1>2. setup_initial_regs(mm) = set_reg(m2, 1, 0)
  BY DEF setup_initial_regs
<1> HIDE DEF m1
<1>3. Machine(m2) /\ Stored(m2)
  BY <1>1, SetRegKeeps, StoredSetReg
<1> HIDE DEF m2
<1> QED
  BY <1>2, <1>3, StoredSetReg

\* A limit and an exit are not in the registers or in memory.
LEMMA StoredTarget ==
  ASSUME NEW mm, Machine(mm), Stored(mm), NEW t
  PROVE  Stored(set_target_instret(mm, t)) /\ Stored(clear_exit(mm))
BY DEF Stored, Machine, Fields, set_target_instret, set_target, clear_exit

\* Runner::run starts a loaded program, with a limit or without.
LEMMA StoredRunFrom ==
  ASSUME Typed, validate_segments(elf) = "ok", NEW mm, Machine(mm), Stored(mm)
  PROVE  LET fresh == setup_initial_regs(reset(load_segments(mm)))
         IN  /\ Machine(fresh) /\ Stored(fresh)
             /\ \/ RunFrom(mm) = fresh
                \/ \E t : RunFrom(mm) = set_target_instret(fresh, t)
             /\ Stored(RunFrom(mm))
<1> DEFINE fresh == setup_initial_regs(reset(load_segments(mm)))
           saved == get_target_instret(mm)
<1>1. Machine(fresh) /\ Stored(fresh)
  <2>1. Machine(load_segments(mm)) /\ Stored(load_segments(mm))
    BY LoadSegmentsKeeps, StoredLoad
  <2>2. Machine(reset(load_segments(mm))) /\ Stored(reset(load_segments(mm)))
    BY <2>1, ResetFacts, StoredReset
  <2> QED
    BY <2>2, SetupKeeps, StoredSetup
<1>2. RunFrom(mm) = IF saved \ {U64_MAX} = {} THEN fresh
                    ELSE set_target_instret(fresh, CHOOSE t \in saved : TRUE)
  BY DEF RunFrom
<1> HIDE DEF fresh, saved
<1>3. RunFrom(mm) = fresh \/ \E t : RunFrom(mm) = set_target_instret(fresh, t)
  BY <1>2, Zenon
<1>4. Stored(RunFrom(mm))
  BY <1>1, <1>3, StoredTarget
<1> QED
  BY <1>1, <1>3, <1>4 DEF fresh

\* A guest leaves x0 and the size of memory alone.
LEMMA StoredExecute ==
  ASSUME NEW mm, Machine(mm), Stored(mm), NEW at, rv_execute_from(mm, at)
  PROVE  Stored(m')
<1>1. PICK n, exits, writes, brk, code : m' = Ran(mm, n, exits, code, writes, brk)
  BY Zenon DEF rv_execute_from
<1> DEFINE ran == [mm EXCEPT !.instret = n, !.pc = Dirt, !.exit_code = code,
                             !.has_exited = IF exits THEN 1 ELSE @]
           dirty == [ran EXCEPT !.regs = [r \in DOMAIN @ |-> IF r = 0 THEN 0 ELSE Dirt],
                                !.mem = [a \in Cells |-> Dirt], !.brk = brk, !.csr = Dirt,
                                !.reserved = TRUE]
<1>2. Fields \subseteq DOMAIN ran /\ ran.regs = mm.regs /\ ran.mem = mm.mem
  BY DEF Machine, Fields
<1>3. m' = IF writes THEN dirty ELSE ran
  BY <1>1, Zenon DEF Ran
<1> HIDE DEF ran
<1>4. dirty.regs = [r \in DOMAIN ran.regs |-> IF r = 0 THEN 0 ELSE Dirt]
      /\ dirty.mem = [a \in Cells |-> Dirt]
  BY <1>2 DEF Fields
<1> HIDE DEF dirty
<1>5. Stored(ran)
  BY <1>2 DEF Stored
<1>6. Stored(dirty)
  <2>1. DOMAIN ran.regs = Regs
    BY <1>2 DEF Stored, RegisterFile
  <2> QED
    BY <1>4, <2>1, RegFacts DEF Stored, RegisterFile, Dirt
<1>7. m' = dirty \/ m' = ran
  BY <1>3
<1> QED
  BY <1>5, <1>6, <1>7

-----------------------------------------------------------------------------
(* Saved states. *)

\* The chunks cover memory, and each starts in it.
LEMMA ChunkFacts ==
  /\ Chunks \in Nat /\ MemSize <= Chunks * CHUNK
  /\ \A k \in 1..Chunks : /\ (k - 1) * CHUNK \in Nat /\ (k - 1) * CHUNK < MemSize
                          /\ k * CHUNK = (k - 1) * CHUNK + CHUNK
<1>1. MemSize \in Nat /\ MemSize > 0 /\ CHUNK \in Nat /\ CHUNK > 0
  BY RunnerAssumption
<1>2. Chunks \in Nat /\ MemSize + CHUNK - 1 \in Nat
      /\ Chunks * CHUNK <= MemSize + CHUNK - 1 /\ MemSize + CHUNK - 1 < Chunks * CHUNK + CHUNK
  BY <1>1 DEF Chunks
<1>3. ASSUME NEW k \in 1..Chunks
      PROVE  /\ (k - 1) * CHUNK \in Nat /\ (k - 1) * CHUNK < MemSize
             /\ k * CHUNK = (k - 1) * CHUNK + CHUNK
  <2>1. k \in Nat /\ k <= Chunks /\ k >= 1
    BY <1>2
  <2>2. k * CHUNK <= Chunks * CHUNK
    BY <1>1, <1>2, <2>1
  <2>3. k * CHUNK = (k - 1) * CHUNK + CHUNK
    BY <1>1, <2>1
  <2>4. (k - 1) * CHUNK \in Nat
    BY <1>1, <2>1
  <2>5. \A x, y, c, n \in Nat : x + c <= y /\ y <= n + c - 1 => x < n
    OBVIOUS
  <2>6. Chunks * CHUNK \in Nat
    BY <1>1, <1>2
  <2> QED
    BY <1>1, <1>2, <2>2, <2>3, <2>4, <2>5, <2>6
<1>4. Chunks * CHUNK \in Nat
  BY <1>1, <1>2
<1>5. \A x, c, n \in Nat : n + c - 1 < x + c => n <= x
  OBVIOUS
<1> QED
  BY <1>1, <1>2, <1>3, <1>4, <1>5

\* A chunk that is read at one place and written back there puts that part of the
\* saved memory in place and leaves the rest (read_memory, write_memory).
LEMMA ChunkFits ==
  ASSUME NEW saved \in [Cells -> Nat], NEW bytes \in [Cells -> Nat],
         NEW o \in Nat, o < MemSize, NEW len \in Nat, o + len <= MemSize
  PROVE  LET after == write_memory(bytes, o, read_memory(saved, o, len))
         IN  /\ after \in [Cells -> Nat]
             /\ \A a \in Cells : after[a] = IF o <= a /\ a < o + len THEN saved[a] ELSE bytes[a]
<1> DEFINE data == read_memory(saved, o, len)
<1>1. MemSize \in Nat /\ \A a \in Cells : a \in Nat
  BY RunnerAssumption DEF Cells
<1>2. Min({len, MemSize - o}) = len
  BY <1>1, MinOfTwo
<1>3. ~(o >= MemSize)
  BY <1>1
<1>4. data = [i \in 1..len |-> saved[o + i - 1]]
  BY <1>2, <1>3, Zenon DEF read_memory
<1> HIDE DEF data
<1>5. data \in Seq(Nat) /\ Len(data) = len
  <2>1. \A i \in 1..len : o + i - 1 \in Cells
    BY <1>1 DEF Cells
  <2>2. data \in [1..len -> Nat]
    BY ZenonT(30), <1>4, <2>1
  <2> QED
    BY <2>2
<1>6. Min({Len(data), MemSize - o}) = len
  BY <1>2, <1>5
<1>7. SubSeq(data, 1, len) = data
  BY <1>5
<1>8. write_memory(bytes, o, data) = copy_from(bytes, o, data)
  <2>1. write_memory(bytes, o, data) =
          copy_from(bytes, o, SubSeq(data, 1, Min({Len(data), MemSize - o})))
    BY <1>3, Zenon DEF write_memory
  <2> QED
    BY ZenonT(30), <1>6, <1>7, <2>1
<1>9. /\ copy_from(bytes, o, data) \in [Cells -> Nat]
      /\ \A a \in Cells : copy_from(bytes, o, data)[a] =
                            IF o <= a /\ a < o + Len(data) THEN data[a - o + 1] ELSE bytes[a]
  BY ZenonT(30), <1>5, CopyFacts
<1>10. \A a \in Cells : o <= a /\ a < o + len => data[a - o + 1] = saved[a]
  <2> SUFFICES ASSUME NEW a \in Cells, o <= a, a < o + len PROVE data[a - o + 1] = saved[a]
    OBVIOUS
  <2>1. a \in Nat /\ a - o + 1 \in 1..len /\ o + (a - o + 1) - 1 = a
    BY <1>1
  <2> QED
    BY <1>4, <2>1
<1>11. \A a \in Cells : copy_from(bytes, o, data)[a] =
                          IF o <= a /\ a < o + len THEN saved[a] ELSE bytes[a]
  BY ZenonT(30), <1>5, <1>9, <1>10
<1> QED
  BY <1>8, <1>9, <1>11 DEF data

\* A file, whole or damaged, holds parts of the state it was made of.
FileHolds ==
  file # None =>
    /\ {"header", "pc", "regs", "chunks", "items", "of"} \subseteq DOMAIN file
    /\ file.of.mem \in [Cells -> Nat] /\ RegisterFile(file.of.regs) /\ file.pc = file.of.pc
    /\ file.regs = [i \in 1..Len(RegSeq(lib)) |-> file.of.regs[RegSeq(lib)[i]]]
    /\ file.chunks = [k \in 1..Chunks |->
                        read_memory(file.of.mem, (k - 1) * CHUNK, ChunkSize(k))]

\* The chunks of a file, written one after the other, leave memory of the right
\* size, and those of a whole file the memory that was saved.
LEMMA MemoryLoaded ==
  ASSUME FileHolds, file # None, m.mem \in [Cells -> Nat]
  PROVE  /\ LoadedMemory(file) \in [Cells -> Nat]
         /\ file.items = Items => LoadedMemory(file) = file.of.mem
<1> DEFINE n == Chunks
           M == [Cells -> Nat]
           saved == file.of.mem
           read(k) == 3 + Len(RegSeq(lib)) + k <= file.items
           step(k, bytes) == IF read(k) THEN write_memory(bytes, (k - 1) * CHUNK, file.chunks[k])
                             ELSE bytes
           F == [x \in (1..n) \X M |-> step(x[1], x[2])]
           Rec(g) == [k \in 0..n |-> IF k = 0 THEN m.mem ELSE step(k, g[k - 1])]
           h == CHOOSE g : g = Rec(g)
<1>1. /\ n \in Nat /\ MemSize <= n * CHUNK
      /\ \A k \in 1..n : /\ (k - 1) * CHUNK \in Nat /\ (k - 1) * CHUNK < MemSize
                         /\ k * CHUNK = (k - 1) * CHUNK + CHUNK
  BY ChunkFacts
<1>2. MemSize \in Nat /\ CHUNK \in Nat /\ \A a \in Cells : a \in Nat /\ a < MemSize
  BY RunnerAssumption DEF Cells
<1>3. ASSUME NEW k \in 1..n, NEW bytes \in M, NEW o \in Nat, o = (k - 1) * CHUNK
      PROVE  LET after == write_memory(bytes, o, file.chunks[k])
             IN  /\ after \in M
                 /\ \A a \in Cells : after[a] = IF o <= a /\ a < o + CHUNK THEN saved[a] ELSE bytes[a]
  <2>1. o < MemSize
    BY ZenonT(30), <1>1, <1>3
  <2>2. ChunkSize(k) = IF CHUNK <= MemSize - o THEN CHUNK ELSE MemSize - o
    BY <1>2, <1>3, MinOfTwo DEF ChunkSize
  <2>3. ChunkSize(k) \in Nat /\ o + ChunkSize(k) <= MemSize
    BY <1>2, <2>1, <2>2
  <2>4. file.chunks[k] = read_memory(saved, o, ChunkSize(k)) /\ saved \in M
    BY ZenonT(30), <1>3 DEF FileHolds
  <2> HIDE DEF saved
  <2> DEFINE after == write_memory(bytes, o, file.chunks[k])
  <2>5. /\ after \in M
        /\ \A a \in Cells : after[a] = IF o <= a /\ a < o + ChunkSize(k) THEN saved[a] ELSE bytes[a]
    BY <2>1, <2>3, <2>4, ChunkFits
  <2> HIDE DEF after
  <2>6. \A a \in Cells : a < o + ChunkSize(k) <=> a < o + CHUNK
    BY <1>2, <2>2
  <2> QED
    BY <2>5, <2>6 DEF after
<1>4. ASSUME NEW k \in 1..n, NEW bytes \in M PROVE step(k, bytes) \in M
  <2>1. write_memory(bytes, (k - 1) * CHUNK, file.chunks[k]) \in M
    BY <1>1, <1>3
  <2> QED
    BY <2>1
<1>5. LoadedMemory(file) = h[n]
  BY Zenon DEF LoadedMemory
<1>6. \A k \in 1..n : \A bytes \in M :
        read(k) => step(k, bytes) = write_memory(bytes, (k - 1) * CHUNK, file.chunks[k])
  OBVIOUS
<1>7. m.mem \in M /\ saved \in M
  BY DEF FileHolds
<1>8. file.items = Items => \A k \in 1..n : read(k)
  <2>1. Len(RegSeq(lib)) \in Nat
    BY DEF RegSeq
  <2> QED
    BY <1>1, <2>1 DEF Items
<1> HIDE DEF step, M, read, saved
<1>9. F \in [(1..n) \X M -> M]
  BY <1>4
<1>10. \A k \in 1..n : \A bytes \in M : F[<<k, bytes>>] = step(k, bytes)
  OBVIOUS
<1> HIDE DEF n, F
<1>11. PICK g \in [0..n -> M] : History(g, n, m.mem, F)
  BY <1>1, <1>7, <1>9, Iterates, Zenon
<1>12. g = Rec(g)
  <2>1. \A k \in 0..n : k = 0 \/ (k \in 1..n /\ k - 1 \in 0..n)
    BY <1>1
  <2>2. g[0] = m.mem /\ \A k \in 1..n : g[k] = F[<<k, g[k - 1]>>]
    BY <1>11 DEF History
  <2>3. ASSUME NEW k \in 1..n PROVE g[k] = step(k, g[k - 1])
    <3>1. k - 1 \in 0..n
      BY <1>1
    <3>2. g[k - 1] \in M
      BY <1>11, <3>1
    <3> QED
      BY ZenonT(30), <1>10, <2>2, <3>2
  <2> QED
    BY <1>11, <2>1, <2>2, <2>3
<1>13. h = Rec(h)
  <2> HIDE DEF Rec
  <2> QED
    BY <1>12, Zenon
<1> HIDE DEF h
<1>14. h[0] = m.mem /\ \A k \in 1..n : h[k] = step(k, h[k - 1])
  <2>1. ASSUME NEW k \in 0..n
        PROVE  Rec(h)[k] = IF k = 0 THEN m.mem ELSE step(k, h[k - 1])
    OBVIOUS
  <2>2. 0 \in 0..n /\ \A k \in 1..n : k \in 0..n /\ k # 0
    BY <1>1
  <2> HIDE DEF Rec
  <2>3. \A k \in 0..n : h[k] = IF k = 0 THEN m.mem ELSE step(k, h[k - 1])
    BY <1>13, <2>1, ZenonT(30)
  <2> QED
    BY <2>2, <2>3, ZenonT(30)
<1> DEFINE Good(k) == /\ h[k] \in M
                      /\ file.items = Items =>
                           \A a \in Cells : a < k * CHUNK => h[k][a] = saved[a]
<1>15. Good(0)
  BY <1>2, <1>7, <1>14
<1>16. ASSUME NEW k \in 1..n, Good(k - 1) PROVE Good(k)
  <2>1. PICK o \in Nat : o = (k - 1) * CHUNK
    BY ZenonT(30), <1>1
  <2>2. h[k] = step(k, h[k - 1]) /\ h[k - 1] \in M
    BY <1>14, <1>16
  <2>3. h[k] \in M
    BY <1>4, <2>2
  <2>4. ASSUME file.items = Items, NEW a \in Cells, a < k * CHUNK PROVE h[k][a] = saved[a]
    <3>1. read(k)
      BY <1>8, <2>4
    <3>2. h[k] = write_memory(h[k - 1], o, file.chunks[k])
      BY ZenonT(30), <1>6, <2>1, <2>2, <3>1
    <3>3. h[k][a] = IF o <= a /\ a < o + CHUNK THEN saved[a] ELSE h[k - 1][a]
      BY <1>3, <2>1, <2>2, <3>2
    <3>4. a < o + CHUNK /\ a \in Nat
      BY <1>1, <1>2, <2>1, <2>4
    <3>5. a < o => h[k - 1][a] = saved[a]
      BY <1>16, <2>1, <2>4
    <3>6. o <= a \/ a < o
      BY <3>4
    <3> QED
      BY <3>3, <3>4, <3>5, <3>6
  <2> QED
    BY <2>3, <2>4
<1>17. Good(n)
  <2> DEFINE bad == {k \in 0..n : ~Good(k)}
  <2> HIDE DEF Good
  <2>1. n \in 0..n
    BY <1>1
  <2>2. SUFFICES ASSUME bad # {} PROVE FALSE
    BY <2>1, Zenon
  <2>3. bad \subseteq Nat
    BY <1>1
  <2> HIDE DEF bad
  <2>4. PICK k \in bad : \A j \in bad : k <= j
    BY <2>2, <2>3, LeastOf
  <2>5. k \in 0..n /\ ~Good(k)
    BY <2>4 DEF bad
  <2>6. k # 0
    BY <1>15, <2>5
  <2>7. k \in 1..n /\ k - 1 \in 0..n /\ k - 1 < k /\ k \in Nat
    BY <1>1, <2>5, <2>6
  <2>8. Good(k - 1)
    BY <2>3, <2>4, <2>7 DEF bad
  <2> QED
    BY <1>16, <2>5, <2>7, <2>8
<1>18. ASSUME file.items = Items PROVE h[n] = saved
  <2>1. \A a \in Cells : a < n * CHUNK
    BY <1>1, <1>2
  <2>2. \A a \in Cells : h[n][a] = saved[a]
    BY <1>17, <1>18, <2>1
  <2> QED
    BY <1>7, <1>17, <2>2 DEF M
<1> QED
  BY <1>5, <1>17, <1>18 DEF M, saved

\* The registers of a file are a register file, and those of a whole file the
\* ones that were saved.
LEMMA RegistersLoaded ==
  ASSUME FileHolds, file # None, RegisterFile(m.regs)
  PROVE  /\ RegisterFile(LoadedRegs(file))
         /\ file.items = Items => LoadedRegs(file) = file.of.regs
<1> DEFINE at(r) == CHOOSE i \in 1..Len(RegSeq(lib)) : RegSeq(lib)[i] = r
<1>1. LoadedRegs(file) = [r \in Regs |-> IF r # 0 /\ 3 + at(r) <= file.items THEN file.regs[at(r)]
                                        ELSE m.regs[r]]
  BY DEF LoadedRegs
<1>2. Len(RegSeq(lib)) \in Nat /\ Regs = {RegSeq(lib)[i] : i \in 1..Len(RegSeq(lib))}
  <2>1. CASE lib.rve
    <3>1. RegSeq(lib) = <<0, 1, 2, 3, 10>>
      BY <2>1 DEF RegSeq
    <3> QED
      BY <3>1 DEF Regs, Range
  <2>2. CASE ~lib.rve
    <3>1. RegSeq(lib) = <<0, 1, 2, 3, 10, 16>>
      BY <2>2 DEF RegSeq
    <3> QED
      BY <3>1 DEF Regs, Range
  <2> QED
    BY <2>1, <2>2
<1>3. ASSUME NEW r \in Regs PROVE at(r) \in 1..Len(RegSeq(lib)) /\ RegSeq(lib)[at(r)] = r
  <2>1. \E i \in 1..Len(RegSeq(lib)) : RegSeq(lib)[i] = r
    BY <1>2
  <2> QED
    BY <2>1, Zenon
<1> HIDE DEF at
<1>4. 0 \in Regs /\ m.regs[0] = 0
  BY RegFacts DEF RegisterFile
<1>5. RegisterFile(LoadedRegs(file))
  BY <1>1, <1>4 DEF RegisterFile
<1>6. ASSUME file.items = Items PROVE LoadedRegs(file) = file.of.regs
  <2>1. /\ file.of.regs = [r \in Regs |-> file.of.regs[r]] /\ file.of.regs[0] = 0
        /\ \A i \in 1..Len(RegSeq(lib)) : file.regs[i] = file.of.regs[RegSeq(lib)[i]]
    BY DEF FileHolds, RegisterFile
  <2>2. ASSUME NEW r \in Regs, r # 0 PROVE 3 + at(r) <= file.items
    BY SMTT(30), <1>2, <1>3, <1>6, <2>2, ChunkFacts DEF Items
  <2>3. ASSUME NEW r \in Regs PROVE LoadedRegs(file)[r] = file.of.regs[r]
    <3>1. CASE r = 0
      BY <1>1, <1>4, <2>1, <3>1
    <3>2. CASE r # 0
      <4>1. LoadedRegs(file)[r] = file.regs[at(r)]
        BY <1>1, <2>2, <3>2
      <4> QED
        BY <1>3, <2>1, <4>1
    <3> QED
      BY <3>1, <3>2
  <2> QED
    BY <1>1, <2>1, <2>3
<1> QED
  BY <1>5, <1>6

\* What the host stores stays stored.
StoreInv == Stored(m) /\ FileHolds

\* An operation that keeps the library and the file.
LEMMA StoreKeeps ==
  ASSUME StoreInv, lib' = lib, file' = file, Stored(m')
  PROVE  StoreInv'
<1>1. Regs' = Regs /\ RegSeq(lib)' = RegSeq(lib)
  BY DEF Regs
<1>2. Stored(m)'
  BY <1>1 DEF Stored, RegisterFile
<1>3. FileHolds'
  BY <1>1 DEF StoreInv, FileHolds, RegisterFile
<1> QED
  BY <1>2, <1>3 DEF StoreInv

\* Runner::load_with_memory and the operations that do not call the library.
LEMMA StoreHost ==
  ASSUME RunnerInv, StoreInv, Load \/ prepare \/ poke \/ SetTargetInstret \/ load_state
  PROVE  StoreInv'
<1>1. lib' = lib /\ file' = file /\ Machine(m) /\ Stored(m) /\ Typed
  BY DEF RunnerInv, StoreInv, Load, prepare, poke, SetTargetInstret, load_state, Kept
<1>2. ASSUME NEW brk PROVE Stored(RvState_default(lib, brk))
  BY RegFacts DEF RvState_default, Stored, RegisterFile, Regs, clear
<1>3. CASE Load
  <2>1. m' = m \/ m' = RvState_default(lib, get_initial_program_break(elf))
    BY <1>3 DEF Load
  <2>2. Stored(m')
    BY ZenonT(30), <1>1, <1>2, <2>1
  <2> QED
    BY <1>1, <2>2, StoreKeeps
<1>4. CASE prepare
  <2>1. m' = reset(load_segments(m)) /\ validate_segments(elf) = "ok"
    BY <1>4 DEF prepare, Uses, RunnerInv
  <2>2. Machine(load_segments(m)) /\ Stored(load_segments(m))
    BY <1>1, <2>1, LoadSegmentsKeeps, StoredLoad
  <2>3. Stored(m')
    BY <2>1, <2>2, StoredReset
  <2> QED
    BY <1>1, <2>3, StoreKeeps
<1>5. CASE poke
  <2>1. Stored(m')
    <3>1. CASE \E r \in {0, 10} : m' = set_reg(m, r, Dirt)
      BY <1>1, <3>1, StoredSetReg
    <3>2. CASE m' = [m EXCEPT !.pc = Dirt]
      BY <1>1, <3>2 DEF Machine, Fields, Stored
    <3>3. CASE m' = IF runner.fixed THEN m ELSE [m EXCEPT !.csr = Dirt]
      BY <1>1, <3>3 DEF Machine, Fields, Stored
    <3>4. CASE m' = clear_exit(m)
      BY <1>1, <3>4, StoredTarget
    <3>5. CASE \E a \in {MemSize - 1, MemSize} :
                 m' = [m EXCEPT !.mem = write_memory(@, a, <<Dirt, Dirt>>)]
      <4>1. PICK a \in {MemSize - 1, MemSize} :
              m' = [m EXCEPT !.mem = write_memory(@, a, <<Dirt, Dirt>>)]
        BY <3>5
      <4>2. m'.regs = m.regs /\ m'.mem = write_memory(m.mem, a, <<Dirt, Dirt>>)
        BY <1>1, <4>1 DEF Machine, Fields
      <4>3. m.mem \in [Cells -> Nat] /\ a \in Nat /\ MemSize \in Nat /\ MemSize > 0
        BY <1>1, RunnerAssumption DEF Stored
      <4>4. CASE a = MemSize
        BY SMTT(30), <1>1, <4>2, <4>3, <4>4 DEF write_memory, Stored
      <4>5. CASE a = MemSize - 1
        <5>1. Min({Len(<<Dirt, Dirt>>), MemSize - a}) = 1
          <6>1. Len(<<Dirt, Dirt>>) = 2 /\ MemSize - a = 1
            BY <4>3, <4>5
          <6> QED
            BY <6>1, MinOfTwo
        <5>2. SubSeq(<<Dirt, Dirt>>, 1, 1) \in Seq(Nat)
          BY DEF Dirt
        <5>3. write_memory(m.mem, a, <<Dirt, Dirt>>) =
                copy_from(m.mem, a, SubSeq(<<Dirt, Dirt>>, 1, 1))
          BY <4>3, <4>5, <5>1 DEF write_memory
        <5>4. copy_from(m.mem, a, SubSeq(<<Dirt, Dirt>>, 1, 1)) \in [Cells -> Nat]
          BY <4>3, <5>2, CopyFacts, Zenon
        <5> QED
          BY <1>1, <4>2, <5>3, <5>4 DEF Stored
      <4> QED
        BY <4>4, <4>5
    <3> QED
      BY <1>5, <3>1, <3>2, <3>3, <3>4, <3>5 DEF poke
  <2> QED
    BY <1>1, <2>1, StoreKeeps
<1>6. CASE SetTargetInstret
  <2>1. Stored(m')
    BY <1>1, <1>6, StoredTarget DEF SetTargetInstret
  <2> QED
    BY <1>1, <2>1, StoreKeeps
<1>7. CASE load_state
  <2>1. m' = m \/ (file # None /\ m' = LoadedFrom(file))
    BY <1>7 DEF load_state
  <2>2. ASSUME file # None PROVE Stored(LoadedFrom(file))
    <3>1. /\ RegisterFile(LoadedRegs(file)) /\ LoadedMemory(file) \in [Cells -> Nat]
      BY <1>1, <2>2, RegistersLoaded, MemoryLoaded DEF StoreInv, Stored
    <3>2. /\ LoadedFrom(file).regs = LoadedRegs(file) /\ LoadedFrom(file).mem = LoadedMemory(file)
      BY <1>1 DEF LoadedFrom, Machine, Fields
    <3> QED
      BY <3>1, <3>2 DEF Stored
  <2>3. Stored(m')
    BY <1>1, <2>1, <2>2
  <2> QED
    BY <1>1, <2>3, StoreKeeps
<1> QED
  BY ZenonT(30), <1>3, <1>4, <1>5, <1>6, <1>7

\* The operations that call the library.
LEMMA StoreRun ==
  ASSUME RunnerInv, StoreInv,
         \/ execute_from \/ reset_and_run_to_instret \/ run \/ run_multiple
         \/ run_with_counters \/ call
  PROVE  StoreInv'
<1>1. /\ lib' = lib /\ file' = file /\ Machine(m) /\ Stored(m) /\ Typed
      /\ validate_segments(elf) = "ok"
  BY ZenonT(30) DEF RunnerInv, StoreInv, execute_from, reset_and_run_to_instret, run, run_multiple,
     run_with_counters, call, call_addr, Uses, Kept
<1> DEFINE loadedUp == reset(load_segments(m))
           fresh == setup_initial_regs(loadedUp)
<1>2. Machine(loadedUp) /\ Stored(loadedUp)
  <2>1. Machine(load_segments(m)) /\ Stored(load_segments(m))
    BY <1>1, LoadSegmentsKeeps, StoredLoad
  <2> QED
    BY <2>1, ResetFacts, StoredReset
<1>3. Machine(fresh) /\ Stored(fresh)
  BY <1>2, SetupKeeps, StoredSetup
<1>4. CASE execute_from
  <2>1. Stored(m')
    BY <1>1, <1>4, StoredExecute DEF execute_from
  <2> QED
    BY <1>1, <2>1, StoreKeeps
<1>5. CASE reset_and_run_to_instret
  <2>1. PICK t \in 1..MaxInstret : rv_execute_from(clear_exit(set_target_instret(fresh, t)), elf.entry)
    BY <1>5, Zenon DEF reset_and_run_to_instret
  <2> HIDE DEF fresh
  <2>2. t \in Nat
    BY RunnerAssumption
  <2>3. Machine(set_target_instret(fresh, t)) /\ Stored(set_target_instret(fresh, t))
    BY <1>3, <2>2, SetTargetFacts, StoredTarget
  <2>4. /\ Machine(clear_exit(set_target_instret(fresh, t)))
        /\ Stored(clear_exit(set_target_instret(fresh, t)))
    BY <2>3, ClearExitKeeps, StoredTarget
  <2>5. Stored(m')
    BY <2>1, <2>4, StoredExecute
  <2> QED
    BY <1>1, <2>5, StoreKeeps
<1>6. CASE run
  <2>1. rv_execute_from(RunFrom(m), elf.entry)
    BY <1>6 DEF run
  <2>2. Machine(RunFrom(m)) /\ Stored(RunFrom(m))
    BY <1>1, RunFromFacts, StoredRunFrom
  <2>3. Stored(m')
    BY <2>1, <2>2, StoredExecute
  <2> QED
    BY <1>1, <2>3, StoreKeeps
<1>7. CASE run_multiple
  <2>1. rv_execute_from(loadedUp, elf.entry)
    BY <1>7 DEF run_multiple
  <2> HIDE DEF loadedUp
  <2>2. Stored(m')
    BY <1>2, <2>1, StoredExecute
  <2> QED
    BY <1>1, <2>2, StoreKeeps
<1>8. CASE run_with_counters
  <2>1. rv_execute_from(fresh, elf.entry)
    BY <1>8 DEF run_with_counters
  <2> HIDE DEF fresh
  <2>2. Stored(m')
    BY <1>3, <2>1, StoredExecute
  <2> QED
    BY <1>1, <2>2, StoreKeeps
<1>9. CASE call
  <2>1. PICK n \in {0, 1, 7, 9} : call_addr(n)
    BY <1>9 DEF call
  <2> DEFINE args == {10 + i : i \in 0..n - 1}
             ready == [loadedUp EXCEPT !.regs = [r \in DOMAIN @ |-> IF r \in args THEN Dirt
                                                                  ELSE IF r = 1 THEN 0 ELSE @[r]]]
  <2>2. m' = m \/ m' = loadedUp \/ rv_execute_from(ready, elf.entry)
    BY <2>1, Zenon DEF call_addr
  <2>3. 0 \notin args
    OBVIOUS
  <2> HIDE DEF args, loadedUp
  <2>4. Machine(ready)
    BY <1>2 DEF Machine, Fields
  <2>5. /\ ready.mem = loadedUp.mem
        /\ ready.regs = [r \in DOMAIN loadedUp.regs |-> IF r \in args THEN Dirt
                                                 ELSE IF r = 1 THEN 0 ELSE loadedUp.regs[r]]
    BY <1>2 DEF Machine, Fields
  <2> HIDE DEF ready
  <2>6. DOMAIN loadedUp.regs = Regs /\ loadedUp.regs[0] = 0
    BY <1>2 DEF Stored, RegisterFile
  <2>7. Stored(ready)
    BY <1>2, <2>3, <2>5, <2>6, RegFacts DEF Stored, RegisterFile
  <2>8. Stored(m')
    BY <1>1, <1>2, <2>2, <2>4, <2>7, StoredExecute
  <2> QED
    BY <1>1, <2>8, StoreKeeps
<1> QED
  BY ZenonT(30), <1>4, <1>5, <1>6, <1>7, <1>8, <1>9

\* Runner::save_state, and what happens to the file outside.
LEMMA StoreFile ==
  ASSUME RunnerInv, StoreInv, save_state \/ FileDamaged \/ UNCHANGED vars
  PROVE  StoreInv'
<1>1. lib' = lib /\ m' = m /\ Stored(m)
  BY DEF StoreInv, save_state, FileDamaged, vars, Kept
<1>2. Regs' = Regs /\ RegSeq(lib)' = RegSeq(lib)
  BY <1>1 DEF Regs
<1>3. Stored(m)'
  BY <1>1, <1>2 DEF Stored, RegisterFile
<1>4. CASE save_state
  <2>1. file' = [header |-> Header, pc |-> m.pc, instret |-> m.instret,
                 regs |-> [i \in 1..Len(RegSeq(lib)) |-> m.regs[RegSeq(lib)[i]]],
                 chunks |-> [k \in 1..Chunks |-> read_memory(m.mem, (k - 1) * CHUNK, ChunkSize(k))],
                 items |-> Items, of |-> [pc |-> m.pc, regs |-> m.regs, mem |-> m.mem]]
    BY ZenonT(30), <1>4 DEF save_state
  <2>2. /\ {"header", "pc", "regs", "chunks", "items", "of"} \subseteq DOMAIN file'
        /\ file'.of.mem = m.mem /\ file'.of.regs = m.regs /\ file'.pc = file'.of.pc
        /\ file'.regs = [i \in 1..Len(RegSeq(lib)) |-> m.regs[RegSeq(lib)[i]]]
        /\ file'.chunks = [k \in 1..Chunks |-> read_memory(m.mem, (k - 1) * CHUNK, ChunkSize(k))]
    BY ZenonT(30), <2>1
  <2>3. FileHolds'
    BY <1>1, <1>2, <2>2 DEF FileHolds, Stored, RegisterFile
  <2> QED
    BY ZenonT(30), <1>3, <2>3 DEF StoreInv
<1>5. CASE FileDamaged
  <2>1. /\ file # None
        /\ \/ \E n \in 0..file.items - 1 : file' = [file EXCEPT !.items = n]
           \/ \E f \in {"version", "xlen", "num_regs", "mem_size"} : file' = [file EXCEPT !.header[f] = 0]
    BY <1>5 DEF FileDamaged
  <2>2. /\ {"header", "pc", "regs", "chunks", "items", "of"} \subseteq DOMAIN file
        /\ file.of.mem \in [Cells -> Nat] /\ RegisterFile(file.of.regs) /\ file.pc = file.of.pc
        /\ file.regs = [i \in 1..Len(RegSeq(lib)) |-> file.of.regs[RegSeq(lib)[i]]]
        /\ file.chunks = [k \in 1..Chunks |->
                            read_memory(file.of.mem, (k - 1) * CHUNK, ChunkSize(k))]
    BY <2>1 DEF StoreInv, FileHolds
  <2>3. /\ DOMAIN file' = DOMAIN file /\ file'.of = file.of /\ file'.pc = file.pc
        /\ file'.regs = file.regs /\ file'.chunks = file.chunks
    BY ZenonT(30), <2>1, <2>2
  <2>4. FileHolds'
    BY <1>1, <1>2, <2>2, <2>3 DEF FileHolds, RegisterFile
  <2> QED
    BY <1>3, <2>4 DEF StoreInv
<1>6. CASE UNCHANGED vars
  <2>1. file' = file
    BY <1>6 DEF vars
  <2> QED
    BY <1>1, <2>1, StoreKeeps
<1> QED
  BY <1>4, <1>5, <1>6

\* What the host stores stays stored, in every behaviour.
THEOREM StoreInvariance == Spec => []StoreInv
<1>1. Init => StoreInv
  <2> SUFFICES ASSUME Init PROVE StoreInv
    OBVIOUS
  <2>1. m = RvState_default(lib, 0) /\ file = None
    BY DEF Init
  <2>2. Stored(m)
    BY <2>1, RegFacts DEF RvState_default, Stored, RegisterFile, Regs, clear
  <2> QED
    BY <2>1, <2>2 DEF StoreInv, FileHolds
<1>2. RunnerInv /\ StoreInv /\ [Next]_vars => StoreInv'
  BY StoreHost, StoreRun, StoreFile DEF Next
<1> QED
  BY <1>1, <1>2, RunnerInvariance, PTL DEF Spec

\* Each operation leaves its name.
LEMMA StepNames ==
  /\ Load => op'.name = "load"
  /\ prepare => op'.name = "prepare"
  /\ poke => op'.name = "poke"
  /\ SetTargetInstret => op'.name = "set_target_instret"
  /\ execute_from => op'.name = "execute_from"
  /\ reset_and_run_to_instret => op'.name = "reset_and_run_to_instret"
  /\ run => op'.name = "run"
  /\ run_multiple => op'.name = "run_multiple"
  /\ run_with_counters => op'.name = "run_with_counters"
  /\ call => op'.name = "call"
  /\ save_state => op'.name = "save_state"
  /\ load_state => op'.name = "load_state"
  /\ FileDamaged => op' = op
<1>1. Load => op'.name = "load"
  BY DEF Load, HostOnly, Done
<1>2. prepare => op'.name = "prepare"
  BY DEF prepare, HostOnly, Done
<1>3. poke => op'.name = "poke"
  BY DEF poke, HostOnly, Done
<1>4. SetTargetInstret => op'.name = "set_target_instret"
  BY DEF SetTargetInstret, HostOnly, Done
<1>5. execute_from => op'.name = "execute_from"
  BY DEF execute_from, HostOnly, Done
<1>6. reset_and_run_to_instret => op'.name = "reset_and_run_to_instret"
  BY DEF reset_and_run_to_instret, HostOnly, Done
<1>7. run => op'.name = "run"
  BY DEF run, HostOnly, Done
<1>8. run_multiple => op'.name = "run_multiple"
  BY DEF run_multiple, HostOnly, Done
<1>9. run_with_counters => op'.name = "run_with_counters"
  BY DEF run_with_counters, HostOnly, Done
<1>10. call => op'.name = "call"
  <2>1. \A n : call_addr(n) => \E result : op' = [name |-> "call", result |-> result]
    BY Zenon DEF call_addr, HostOnly, Done
  <2> QED
    BY <2>1 DEF call
<1>11. save_state => op'.name = "save_state"
  BY DEF save_state, HostOnly, Done
<1>12. load_state => op'.name = "load_state"
  BY DEF load_state, HostOnly, Done
<1>13. FileDamaged => op' = op
  BY DEF FileDamaged
<1> QED
  BY ZenonT(30), <1>1, <1>2, <1>3, <1>4, <1>5, <1>6, <1>7, <1>8, <1>9, <1>10, <1>11, <1>12, <1>13

\* A state that loads without an error is the state that was saved, the last,
\* shorter chunk of memory included, and the file of another machine is refused
\* before anything is overwritten (Runner::save_state, Runner::load_state).
THEOREM RestoreCorrect == Spec => LoadRestores
<1> DEFINE A == (op'.name = "load_state" /\ op' # op) =>
                  /\ op'.result = "ok" => m'.pc = file.of.pc /\ m'.regs = file.of.regs
                                          /\ m'.mem = file.of.mem
                  /\ (file # None /\ file.header # Header) => op'.result = "StateError" /\ m' = m
<1>1. RunnerInv /\ StoreInv /\ [Next]_vars => [A]_vars
  <2> SUFFICES ASSUME RunnerInv, StoreInv, Next, op'.name = "load_state", op' # op
               PROVE  A
    OBVIOUS
  <2>1. load_state
    BY StepNames DEF Next
  <2>2. /\ op'.result = "ok" => /\ file # None /\ file.items = Items /\ m' = LoadedFrom(file)
                                /\ header_matches(file)
        /\ ~(file # None /\ header_matches(file)) => op'.result = "StateError" /\ m' = m
    BY <2>1 DEF load_state, HostOnly, Done
  <2>3. file.header # Header => ~header_matches(file)
    BY DEF header_matches
  <2>4. ASSUME op'.result = "ok"
        PROVE  m'.pc = file.of.pc /\ m'.regs = file.of.regs /\ m'.mem = file.of.mem
    <3>1. file # None /\ file.items = Items /\ m' = LoadedFrom(file)
      BY <2>2, <2>4
    <3>2. LoadedRegs(file) = file.of.regs /\ LoadedMemory(file) = file.of.mem
      BY <3>1, RegistersLoaded, MemoryLoaded DEF StoreInv, Stored
    <3>3. file.items >= 2
      <4>1. Len(RegSeq(lib)) \in Nat
        BY ZenonT(30) DEF RegSeq
      <4> QED
        BY <3>1, <4>1, ChunkFacts DEF Items
    <3>4. file.pc = file.of.pc
      BY <3>1 DEF StoreInv, FileHolds
    <3>5. /\ LoadedFrom(file).pc = file.pc /\ LoadedFrom(file).regs = LoadedRegs(file)
          /\ LoadedFrom(file).mem = LoadedMemory(file)
      BY <3>3 DEF LoadedFrom, RunnerInv, Machine, Fields
    <3> QED
      BY <3>1, <3>2, <3>4, <3>5
  <2> QED
    BY <2>2, <2>3, <2>4
<1> QED
  BY <1>1, RunnerInvariance, StoreInvariance, PTL DEF Spec, LoadRestores

-----------------------------------------------------------------------------
(* Fresh runs. *)

\* The machine the library was last handed by an operation that starts a run.
FreshStart ==
  op.name \in {"run", "run_with_counters", "reset_and_run_to_instret"} /\ began # None =>
    Fresh(began) /\ began.pc = elf.entry

\* Handing over a fresh machine.
LEMMA FreshHandedOver ==
  ASSUME NEW mm, Machine(mm), Fresh(mm), rv_execute_from(mm, elf.entry), lib' = lib, elf' = elf
  PROVE  FreshStart'
<1>1. began' = [mm EXCEPT !.pc = elf.entry]
  BY DEF rv_execute_from
<1>2. Fresh(began') /\ began'.pc = elf.entry
  BY <1>1 DEF Fresh, Machine, Fields
<1>3. \A a \in Cells : ImageCell(a)' = ImageCell(a)
  BY DEF ImageCell
<1>4. \A name : Symbol(name)' = Symbol(name)
  BY DEF Symbol
<1>5. Regs' = Regs
  BY DEF Regs
<1>6. Fresh(began)'
  BY <1>2, <1>3, <1>4, <1>5 DEF Fresh
<1> QED
  BY <1>2, <1>6 DEF FreshStart

\* A step hands over a fresh machine, or none that has to be.
LEMMA FreshStep ==
  ASSUME RunnerInv, StoreInv, FileInMemory, FreshStart, [Next]_vars
  PROVE  FreshStart' /\ FileInMemory'
<1>1. lib' = lib /\ elf' = elf
  BY ZenonT(30) DEF Next, Load, prepare, poke, SetTargetInstret, execute_from, reset_and_run_to_instret,
     run, run_multiple, run_with_counters, call, call_addr, save_state, FileDamaged,
     load_state, Kept, vars
<1>2. FileInMemory'
  BY <1>1 DEF FileInMemory
<1> DEFINE fresh == setup_initial_regs(reset(load_segments(m)))
<1>3. ASSUME loaded = "ok" PROVE Machine(fresh) /\ Fresh(fresh)
  <2>1. Machine(m) /\ Stored(m) /\ Typed /\ validate_segments(elf) = "ok"
    BY <1>3 DEF RunnerInv, StoreInv
  <2>2. Fresh(fresh)
    BY <2>1, FreshMachine DEF Stored
  <2>3. Machine(fresh)
    BY <2>1, FreshFacts, SetupKeeps
  <2> QED
    BY <2>2, <2>3
<1>4. CASE reset_and_run_to_instret
  <2>1. PICK t \in 1..MaxInstret : rv_execute_from(clear_exit(set_target_instret(fresh, t)), elf.entry)
    BY <1>4, Zenon DEF reset_and_run_to_instret
  <2>2. t \in Nat /\ loaded = "ok"
    BY <1>4, RunnerAssumption DEF reset_and_run_to_instret, Uses
  <2> HIDE DEF fresh
  <2>3. Machine(set_target_instret(fresh, t)) /\ Fresh(set_target_instret(fresh, t))
    BY <1>3, <2>2, SetTargetFacts, FreshKept
  <2>4. /\ Machine(clear_exit(set_target_instret(fresh, t)))
        /\ Fresh(clear_exit(set_target_instret(fresh, t)))
    BY <2>3, ClearExitKeeps, FreshKept
  <2> QED
    BY <1>1, <1>2, <2>1, <2>4, FreshHandedOver
<1>5. CASE run
  <2>1. rv_execute_from(RunFrom(m), elf.entry) /\ loaded = "ok"
    BY ZenonT(30), <1>5 DEF run, Uses
  <2>2. /\ Machine(RunFrom(m))
        /\ RunFrom(m) = fresh \/ \E t : RunFrom(m) = set_target_instret(fresh, t)
    BY ZenonT(30), <2>1, RunFromFacts, StoredRunFrom DEF RunnerInv, StoreInv
  <2> HIDE DEF fresh
  <2>3. Fresh(RunFrom(m))
    BY <1>3, <2>1, <2>2, FreshKept
  <2> QED
    BY <1>1, <1>2, <2>1, <2>2, <2>3, FreshHandedOver
<1>6. CASE run_with_counters
  <2>1. rv_execute_from(fresh, elf.entry) /\ loaded = "ok"
    BY <1>6 DEF run_with_counters, Uses
  <2> HIDE DEF fresh
  <2> QED
    BY <1>1, <1>2, <1>3, <2>1, FreshHandedOver
<1>7. CASE FileDamaged \/ UNCHANGED vars
  <2>1. op' = op /\ began' = began
    BY <1>7 DEF FileDamaged, vars
  <2>2. /\ \A a \in Cells : ImageCell(a)' = ImageCell(a)
        /\ \A name : Symbol(name)' = Symbol(name)
        /\ Regs' = Regs
    BY <1>1 DEF ImageCell, Symbol, Regs
  <2> QED
    BY <1>1, <1>2, <2>1, <2>2 DEF FreshStart, Fresh
<1>8. CASE \/ Load \/ prepare \/ poke \/ SetTargetInstret \/ execute_from \/ run_multiple
           \/ call \/ save_state \/ load_state
  <2>1. op'.name \notin {"run", "run_with_counters", "reset_and_run_to_instret"}
    BY <1>8, StepNames
  <2> QED
    BY <1>2, <2>1 DEF FreshStart
<1> QED
  BY ZenonT(30), <1>4, <1>5, <1>6, <1>7, <1>8 DEF Next

\* run, run_with_counters and reset_and_run_to_instret hand the library a fresh
\* program whatever the host and earlier runs did, for every program whose
\* segments have no more bytes in the file than in memory (load_segments, reset,
\* setup_initial_regs).
THEOREM FreshCorrect == FileInMemory /\ Spec => RunsStartFresh
<1> DEFINE A == (op'.name \in {"run", "run_with_counters", "reset_and_run_to_instret"}
                   /\ began' # None) =>
       /\ \A a \in Cells : began'.mem[a] = ImageCell(a)
       /\ \A r \in Regs : began'.regs[r] = CASE r = 2 -> Symbol("__stack_top")
                                            [] r = 3 -> Symbol("__global_pointer$")
                                            [] OTHER -> 0
       /\ began'.pc = elf.entry
       /\ began'.instret = 0 /\ began'.has_exited = 0 /\ began'.exit_code = 0
       /\ ~lib.fixed => ~began'.reserved
<1>1. Init => FreshStart
  BY DEF Init, FreshStart
<1>2. RunnerInv /\ StoreInv /\ FileInMemory /\ FreshStart /\ [Next]_vars
        => FreshStart' /\ FileInMemory'
  BY FreshStep
<1>3. FreshStart' /\ [Next]_vars => [A]_vars
  <2> SUFFICES ASSUME FreshStart', Next,
                      op'.name \in {"run", "run_with_counters", "reset_and_run_to_instret"},
                      began' # None
               PROVE  A
    BY ZenonT(30)
  <2>1. lib' = lib /\ elf' = elf
    BY ZenonT(30) DEF Next, Load, prepare, poke, SetTargetInstret, execute_from, reset_and_run_to_instret,
       run, run_multiple, run_with_counters, call, call_addr, save_state, FileDamaged,
       load_state, Kept
  <2>2. /\ \A a \in Cells : ImageCell(a)' = ImageCell(a)
        /\ \A name : Symbol(name)' = Symbol(name)
        /\ Regs' = Regs
    BY <2>1 DEF ImageCell, Symbol, Regs
  <2>3. Fresh(began)' /\ began'.pc = elf.entry
    BY <2>1 DEF FreshStart
  <2> QED
    BY <2>1, <2>2, <2>3 DEF Fresh
<1> QED
  BY <1>1, <1>2, <1>3, RunnerInvariance, StoreInvariance, PTL DEF Spec, RunsStartFresh
=============================================================================
