------------------------- MODULE EmittedCodeProofs -------------------------
(***************************************************************************)
(* For every program, every well-formed image and every mode, the emitted  *)
(* code executes the guest program (ImplementsInterpreter), its suspended  *)
(* states can be resumed in place, and rv_execute_from comes back on time. *)
(*                                                                         *)
(* F is a set of functions that execution never leaves: all of them, or    *)
(* the ones that are not dead code.                                        *)
(***************************************************************************)
EXTENDS EmittedCode, Integers, TLAPS

\* The function whose instructions are being executed.
Path == IF where = "inline" THEN taken_inlines[LastPc(blk)] ELSE blk

\* Positions inside the generated code are real ones.
PositionOK(F) ==
  /\ where # "host" => ~has_exited /\ blk \in F
  /\ where \in {"body", "inline"} =>
       Path \in F /\ Here = code[Path]
  /\ where = "inline" => HasInline(blk)

\* Every frame on the guest's stack leads back to a function.
StackOK(F) == \A k \in 1 .. Len(stack) : Reachable(F, stack[k])

\* A suspended guest stands at the start of a function.
HostPcOK(F) == where = "host" /\ ~has_exited /\ pc \in Pcs => pc \in F

\* The inductive invariant.
IInv(F) == TypeOK /\ WellFormedOn(F) /\ PositionOK(F) /\ StackOK(F) /\ HostPcOK(F)

-----------------------------------------------------------------------------
\* What well-formedness says of one function.
LEMMA FunctionFacts ==
  ASSUME NEW F, WellFormedOn(F), NEW b \in F
  PROVE  /\ b \in Pcs
         /\ code[b] \in Seq(Pcs)
         /\ Len(code[b]) \in Nat \ {0}
         /\ code[b][1] = b
         /\ LastPc(b) \in Pcs
         /\ \A k \in 1 .. Len(code[b]) : code[b][k] \in Pcs
         /\ LeavesFor(F, b) /\ ReturnsTo(F, b) /\ InlinesTarget(b)
         /\ \A k \in 1 .. Len(code[b]) - 1 : RunsOn(F, b, k)
<1>1. b \in Pcs /\ code[b] \in Seq(Pcs) /\ code[b] # <<>>
  BY DEF WellFormedOn, ImageType
<1>2. Len(code[b]) \in Nat /\ Len(code[b]) # 0
  BY <1>1
<1>3. \A k \in 1 .. Len(code[b]) : code[b][k] \in Pcs
  BY <1>1
<1>4. LastPc(b) \in Pcs
  BY <1>2, <1>3 DEF LastPc
<1> QED
  BY <1>1, <1>2, <1>3, <1>4 DEF WellFormedOn

\* An address control may come to resolves to itself, whichever map is used.
LEMMA ReachableResolves ==
  ASSUME NEW F, WellFormedOn(F), NEW a \in Addresses, Reachable(F, a)
  PROVE  /\ a \in Pcs => /\ is_valid_address(a)
                         /\ resolve_address(a) = a
                         /\ dispatch_table(a) = a
                         /\ a \in DOMAIN code
                         /\ a # NoPc
         /\ a \notin Pcs => ~is_valid_address(a) /\ dispatch_table(a) = NoPc
BY NAssumption DEF WellFormedOn, ImageType, Reachable, is_valid_address, resolve_address,
       dispatch_table, Pcs, NoPc, Addresses

\* Instructions have operations and targets of the right kind.
LEMMA InstrFacts ==
  ASSUME NEW F, WellFormedOn(F), NEW c \in Pcs
  PROVE  prog[c].op \in Ops /\ prog[c].target \in Addresses
         /\ c \in Addresses /\ c + 1 \in Addresses
BY NAssumption DEF WellFormedOn, ImageType, Instr, Pcs, Addresses

-----------------------------------------------------------------------------
\* Where an instruction stands.
LEMMA HereFacts ==
  ASSUME NEW F, IInv(F), where \in {"body", "inline"}
  PROVE  /\ Path \in F /\ Here = code[Path]
         /\ idx \in 1 .. Len(code[Path])
         /\ current_pc = code[Path][idx]
         /\ current_pc \in Pcs
         /\ is_last => current_pc = LastPc(Path)
         /\ ~is_last => idx \in 1 .. Len(code[Path]) - 1
         /\ instr = prog[current_pc]
         /\ blk \in F
         /\ instr_idx \in Nat
         /\ GuestPc = current_pc
         /\ ~Halted
<1>1. Path \in F /\ Here = code[Path] /\ blk \in F /\ ~has_exited
  BY DEF IInv, PositionOK, TypeOK
<1>2. idx \in 1 .. Len(code[Path])
  BY <1>1 DEF IInv, TypeOK
<1>3. Len(code[Path]) \in Nat \ {0} /\ Len(code[blk]) \in Nat \ {0}
  BY <1>1, FunctionFacts DEF IInv
<1>4. current_pc = code[Path][idx] /\ current_pc \in Pcs
  BY <1>1, <1>2, FunctionFacts DEF IInv, current_pc
<1>5. instr_idx \in Nat
  BY <1>2, <1>3 DEF instr_idx
<1>6. GuestPc = current_pc
  BY DEF GuestPc
<1>7. is_last => current_pc = LastPc(Path)
  BY <1>1, <1>4 DEF is_last, LastPc
<1>8. ~is_last => idx \in 1 .. Len(code[Path]) - 1
  BY <1>1, <1>2, <1>3 DEF is_last
<1> QED
  BY <1>1, <1>2, <1>4, <1>5, <1>6, <1>7, <1>8 DEF instr, Halted

\* Control has come to address a with n instructions counted: it is at the
\* top of a's function, or back with the host.
Arrived(a, n) ==
  \/ a \in Pcs /\ a \in DOMAIN code /\ Enter(a, n)
  \/ MustSuspend(n) /\ Suspend(a, n)
  \/ a \notin Pcs /\ \E c \in {a, current_pc, pc} : ExitAt(c, n)

\* Every way of leaving a function arrives.
LEMMA LeavingArrives ==
  ASSUME NEW F, IInv(F), where \in {"body", "inline"},
         NEW a \in Addresses, Reachable(F, a), NEW n \in Nat,
         \/ JumpStatic(a, n) \/ BranchTo(a, n)
         \/ JumpDynamic(a, n) \/ SideExit(a, n)
  PROVE  Arrived(a, n)
<1>1. WellFormedOn(F) /\ pc \in Addresses /\ current_pc \in Addresses
  BY HereFacts, InstrFacts DEF IInv, TypeOK
<1>2. /\ a \in Pcs => /\ is_valid_address(a) /\ resolve_address(a) = a
                       /\ dispatch_table(a) = a /\ a \in DOMAIN code /\ a # NoPc
      /\ a \notin Pcs => ~is_valid_address(a) /\ dispatch_table(a) = NoPc
  BY <1>1, ReachableResolves
<1>3. CASE JumpStatic(a, n)
  BY <1>1, <1>2, <1>3 DEF JumpStatic, Arrived
<1>4. CASE BranchTo(a, n)
  BY <1>1, <1>2, <1>4 DEF BranchTo, Arrived
<1>5. CASE JumpDynamic(a, n)
  BY <1>1, <1>2, <1>5 DEF JumpDynamic, Arrived
<1>6. CASE SideExit(a, n)
  BY <1>1, <1>2, <1>6 DEF SideExit, Arrived
<1> QED
  BY <1>3, <1>4, <1>5, <1>6

\* Arriving at a is the interpreter's Goto(a).
LEMMA ArrivedGoes ==
  ASSUME NEW F, IInv(F), where \in {"body", "inline"},
         NEW a \in Addresses, NEW n, Arrived(a, n), UNCHANGED image
  PROVE  Ref!Goto(a)
<1>1. ~has_exited
  BY DEF IInv, PositionOK
<1>2. CASE a \in Pcs /\ a \in DOMAIN code /\ Enter(a, n)
  <2>1. where' = "entry" /\ GuestPc' = a /\ ~has_exited'
    BY <1>1, <1>2 DEF Enter, GuestPc, rvstate
  <2> QED
    BY <1>2, <2>1 DEF Ref!Goto, Ref!Pcs, Ref!NoPc, Pcs, NoPc, Halted
<1>3. CASE MustSuspend(n) /\ Suspend(a, n)
  <2>1. where' = "host" /\ GuestPc' = a /\ ~has_exited'
    BY <1>1, <1>3 DEF Suspend, SaveAndReturn, GuestPc
  <2> QED
    BY <2>1 DEF Ref!Goto, Ref!Pcs, Ref!NoPc, Pcs, NoPc, Halted
<1>4. CASE a \notin Pcs /\ \E c \in {a, current_pc, pc} : ExitAt(c, n)
  <2>1. has_exited'
    BY <1>4 DEF ExitAt
  <2> QED
    BY <1>4, <2>1 DEF Ref!Goto, Ref!Pcs, Ref!NoPc, Pcs, NoPc, Halted
<1> QED
  BY <1>2, <1>3, <1>4 DEF Arrived

\* Arriving at an address keeps every invariant of positions.
LEMMA ArrivedKeeps ==
  ASSUME NEW F, IInv(F), where \in {"body", "inline"}, UNCHANGED image,
         NEW a \in Addresses, Reachable(F, a), NEW n \in Nat, Arrived(a, n)
  PROVE  /\ where' \in {"host", "entry"}
         /\ where' = "host" => blk' = NoPc /\ idx' = 0
         /\ where' = "entry" => blk' \in DOMAIN code' /\ blk' \in F
         /\ acc' \in Nat /\ instret' \in Nat
         /\ pc' \in Addresses /\ has_exited' \in BOOLEAN
         /\ PositionOK(F)' /\ HostPcOK(F)'
<1>1. ~has_exited /\ has_exited \in BOOLEAN /\ instret \in Nat /\ pc \in Addresses
  BY DEF IInv, PositionOK, TypeOK
<1>2. CASE a \in Pcs /\ a \in DOMAIN code /\ Enter(a, n)
  BY <1>1, <1>2 DEF Enter, rvstate, image, PositionOK, HostPcOK, Reachable
<1>3. CASE MustSuspend(n) /\ Suspend(a, n)
  BY <1>1, <1>3 DEF Suspend, SaveAndReturn, image, PositionOK, HostPcOK,
                    Reachable
<1>4. CASE a \notin Pcs /\ \E c \in {a, current_pc, pc} : ExitAt(c, n)
  <2>1. current_pc \in Addresses
    BY HereFacts, InstrFacts DEF IInv
  <2> QED
    BY <1>1, <1>4, <2>1 DEF ExitAt, SaveAndReturn, image, PositionOK, HostPcOK
<1> QED
  BY <1>2, <1>3, <1>4 DEF Arrived

-----------------------------------------------------------------------------
\* The instruction being executed leads to address a, and does to the stack
\* what it should.
LeadsTo(a) ==
  \/ instr.op \in FallOps /\ a = current_pc + 1 /\ UNCHANGED stack
  \/ instr.op = "jump" /\ a = instr.target /\ UNCHANGED stack
  \/ /\ instr.op = "call" /\ a = instr.target
     /\ Len(stack) < MaxDepth /\ stack' = Append(stack, current_pc + 1)
  \/ /\ instr.op = "branch" /\ a = IF cond THEN instr.target ELSE current_pc + 1
     /\ UNCHANGED stack
  \/ /\ instr.op = "ret" /\ a = stack[Len(stack)]
     /\ stack # <<>> /\ stack' = SubSeq(stack, 1, Len(stack) - 1)

\* Nothing an image is made of changes, so neither does what is said of it.
LEMMA ImageKept ==
  ASSUME NEW F, UNCHANGED image
  PROVE  /\ WellFormedOn(F)' <=> WellFormedOn(F)
         /\ \A a : Reachable(F, a)' <=> Reachable(F, a)
         /\ counts' = counts /\ suspends' = suspends
<1>1. /\ prog' = prog /\ code' = code /\ instret_mode' = instret_mode
      /\ absorbed_to_merged' = absorbed_to_merged /\ taken_inlines' = taken_inlines
  BY DEF image
<1>2. \A a : Reachable(F, a)' <=> Reachable(F, a)
  BY <1>1 DEF Reachable
<1>3. WellFormedOn(F)' <=> WellFormedOn(F)
  BY <1>1 DEF WellFormedOn, ImageType, RunsOn, LeavesFor, ReturnsTo, InlinesTarget,
              HasInline, LastPc, Reachable, per_instruction
<1>4. counts' = counts /\ suspends' = suspends
  BY <1>1 DEF counts, suspends
<1> QED
  BY <1>2, <1>3, <1>4

\* The stack of return addresses stays one.
LEMMA StackKept ==
  ASSUME NEW F, IInv(F), where \in {"body", "inline"}, UNCHANGED image,
         NEW a, LeadsTo(a)
  PROVE  stack' \in Seq(Addresses) /\ StackOK(F)'
<1>1. /\ current_pc \in Pcs /\ current_pc + 1 \in Addresses
      /\ stack \in Seq(Addresses) /\ StackOK(F)
  BY HereFacts, InstrFacts DEF IInv, TypeOK
<1>2. instr.op = "call" => Reachable(F, current_pc + 1)
  BY HereFacts, FunctionFacts DEF IInv, ReturnsTo
<1>3. CASE UNCHANGED stack
  BY ZenonT(30), <1>1, <1>3, ImageKept DEF StackOK
<1>4. CASE instr.op = "call" /\ stack' = Append(stack, current_pc + 1)
  <2>1. stack' \in Seq(Addresses) /\ Len(stack') = Len(stack) + 1
    BY <1>1, <1>4
  <2>2. \A k \in 1 .. Len(stack') :
           IF k = Len(stack') THEN stack'[k] = current_pc + 1
           ELSE k \in 1 .. Len(stack) /\ stack'[k] = stack[k]
    BY <1>1, <1>4, <2>1
  <2> QED
    BY ZenonT(30), <1>1, <1>2, <1>4, <2>1, <2>2, ImageKept DEF StackOK
<1>5. CASE stack # <<>> /\ stack' = SubSeq(stack, 1, Len(stack) - 1)
  <2>1. /\ stack' \in Seq(Addresses) /\ Len(stack') = Len(stack) - 1
        /\ \A k \in 1 .. Len(stack') : k \in 1 .. Len(stack) /\ stack'[k] = stack[k]
    <3>1. Len(stack) \in Nat /\ Len(stack) # 0
      BY <1>1, <1>5
    <3>2. \A k \in 1 .. Len(stack) - 1 : k \in 1 .. Len(stack)
      BY <3>1
    <3> DEFINE m == Len(stack) - 1
    <3>3. m \in Int /\ 1 \in Int /\ \A k \in 1 .. m : stack[k] \in Addresses
      BY <1>1, <3>1, <3>2
    <3> HIDE DEF m
    <3>4. /\ SubSeq(stack, 1, m) \in Seq(Addresses)
          /\ Len(SubSeq(stack, 1, m)) = IF 1 <= m THEN m - 1 + 1 ELSE 0
          /\ \A k \in 1 .. m - 1 + 1 : SubSeq(stack, 1, m)[k] = stack[1 + k - 1]
      BY <3>3
    <3>5. stack' = SubSeq(stack, 1, m)
      BY <1>5 DEF m
    <3>6. Len(stack') = m /\ \A k \in 1 .. m : stack'[k] = stack[k]
      <4>1. m \in Nat
        BY <3>1 DEF m
      <4> QED
        BY <4>1, <3>4, <3>5
    <3> QED
      BY ZenonT(30), <3>1, <3>2, <3>4, <3>5, <3>6 DEF m
  <2> QED
    BY ZenonT(30), <1>1, <2>1, ImageKept DEF StackOK
<1> QED
  BY <1>3, <1>4, <1>5 DEF LeadsTo

\* Where control may be led from the last instruction of a function, and by a
\* return or a side exit.
LEMMA LeadsToReachable ==
  ASSUME NEW F, IInv(F), where \in {"body", "inline"}, NEW a, LeadsTo(a),
         \/ is_last
         \/ instr.op = "branch" /\ cond
  PROVE  a \in Addresses /\ Reachable(F, a)
<1>1. /\ WellFormedOn(F) /\ Path \in F /\ current_pc \in Pcs
      /\ instr = prog[current_pc] /\ idx \in 1 .. Len(code[Path])
      /\ stack \in Seq(Addresses) /\ StackOK(F)
  BY HereFacts DEF IInv, TypeOK
<1>2. instr.target \in Addresses /\ current_pc + 1 \in Addresses
  BY <1>1, InstrFacts
<1>3. CASE is_last /\ instr.op # "ret"
  <2>1. LeavesFor(F, Path) /\ current_pc = LastPc(Path)
    BY <1>1, <1>3, HereFacts, FunctionFacts
  <2> QED
    BY <1>1, <1>2, <1>3, <2>1 DEF LeadsTo, LeavesFor, FallOps, JumpOps
<1>4. CASE instr.op = "ret"
  <2>1. a = stack[Len(stack)] /\ Len(stack) \in 1 .. Len(stack)
    BY <1>1, <1>4 DEF LeadsTo, FallOps
  <2> QED
    BY <1>1, <2>1 DEF StackOK
<1>5. CASE ~is_last /\ instr.op = "branch" /\ cond
  <2>1. idx \in 1 .. Len(code[Path]) - 1 /\ current_pc = code[Path][idx]
    BY <1>5, HereFacts
  <2>2. RunsOn(F, Path, idx)
    BY <1>1, <2>1, FunctionFacts
  <2> QED
    BY <1>1, <1>2, <1>5, <2>1, <2>2 DEF RunsOn, LeadsTo, FallOps, JumpOps
<1> QED
  BY <1>3, <1>4, <1>5

\* An executed instruction that leads to a, once control is there, is a step
\* of the interpreter.
LEMMA LeadsToRefines ==
  ASSUME NEW F, IInv(F), where \in {"body", "inline"}, NEW a, LeadsTo(a), Ref!Goto(a),
         UNCHANGED image, cond' \in BOOLEAN
  PROVE  Ref!Step
<1>1. ~Halted /\ GuestPc = current_pc /\ instr = prog[current_pc] /\ prog' = prog
  BY HereFacts DEF image
<1> QED
  BY <1>1 DEF LeadsTo, Ref!Step, Ref!FallThrough, Ref!TakeJump, Ref!TakeCall,
              Ref!TakeBranch, Ref!Return, Ref!FallOps, FallOps

-----------------------------------------------------------------------------
\* A branch with an inlined path: the path is the function at its target.
LEMMA InlineFacts ==
  ASSUME NEW F, IInv(F), where = "body", is_last, HasInline(blk)
  PROVE  /\ instr.op = "branch"
         /\ taken_inlines[LastPc(blk)] = instr.target
         /\ instr.target \in F
         /\ InlinePath(blk) = code[instr.target]
         /\ Len(code[instr.target]) \in Nat \ {0}
         /\ code[instr.target] # <<>>
         /\ code[instr.target][1] = instr.target
<1>1. WellFormedOn(F) /\ blk \in F /\ Path = blk
  BY HereFacts DEF IInv, Path
<1>2. current_pc = LastPc(blk) /\ current_pc \in Pcs /\ instr = prog[current_pc]
  BY <1>1, HereFacts
<1>3. InlinesTarget(blk) /\ LeavesFor(F, blk)
  BY <1>1, FunctionFacts
<1>4. instr.op = "branch" /\ taken_inlines[LastPc(blk)] = instr.target
  BY <1>2, <1>3 DEF InlinesTarget, HasInline
<1>5. instr.target \in Pcs
  BY <1>1, <1>4 DEF HasInline, WellFormedOn, ImageType
<1>6. instr.target \in F /\ instr.target \in DOMAIN code
  BY <1>1, <1>2, <1>3, <1>4, <1>5 DEF LeavesFor, Reachable, WellFormedOn
<1>7. InlinePath(blk) = code[instr.target]
  BY <1>4, <1>6 DEF InlinePath
<1> QED
  BY <1>1, <1>4, <1>6, <1>7, FunctionFacts DEF WellFormedOn

\* An inlined path has a length.
LEMMA InlineLength ==
  ASSUME NEW F, WellFormedOn(F), NEW b \in F, HasInline(b)
  PROVE  Len(InlinePath(b)) \in Nat
<1> DEFINE s == taken_inlines[LastPc(b)]
<1>1. LastPc(b) \in DOMAIN taken_inlines /\ prog[LastPc(b)].op = "branch"
  BY DEF HasInline
<1>2. s \in Pcs /\ F \subseteq DOMAIN code
  BY <1>1 DEF WellFormedOn, ImageType
<1>3. s = prog[LastPc(b)].target /\ LeavesFor(F, b)
  BY FunctionFacts DEF InlinesTarget
<1>4. s \in F
  BY <1>1, <1>2, <1>3 DEF LeavesFor, Reachable
<1>5. Len(code[s]) \in Nat
  BY <1>4, FunctionFacts
<1> QED
  BY <1>2, <1>4, <1>5 DEF InlinePath

\* A path is a function, and what is inlined into it.
LEMMA PathLengthType ==
  ASSUME NEW F, WellFormedOn(F), NEW b \in F
  PROVE  /\ PathLength(b) \in Nat \ {0}
         /\ PathLength(b) >= Len(code[b])
         /\ HasInline(b) => PathLength(b) = Len(code[b]) + Len(InlinePath(b))
<1> DEFINE inlined == IF HasInline(b) THEN Len(InlinePath(b)) ELSE 0
<1>1. Len(code[b]) \in Nat \ {0}
  BY FunctionFacts
<1>2. inlined \in Nat
  BY InlineLength, Zenon
<1>3. PathLength(b) = Len(code[b]) + inlined
  BY DEF PathLength
<1>4. HasInline(b) => inlined = Len(InlinePath(b))
  OBVIOUS
<1> HIDE DEF inlined
<1>5. PathLength(b) \in Nat \ {0} /\ PathLength(b) >= Len(code[b])
  BY <1>1, <1>2, <1>3
<1> QED
  BY <1>3, <1>4, <1>5, Zenon

\* No instruction counts for more than its path.
LEMMA PathFacts ==
  ASSUME NEW F, IInv(F), where \in {"body", "inline"}
  PROVE  /\ PathLength(blk) \in Nat \ {0}
         /\ instr_idx \in 1 .. PathLength(blk)
<1>1. /\ blk \in F /\ Len(code[blk]) \in Nat \ {0}
      /\ Path \in F /\ Len(code[Path]) \in Nat \ {0}
      /\ idx \in 1 .. Len(code[Path]) /\ Here = code[Path]
  BY HereFacts, FunctionFacts DEF IInv
<1>2. CASE where = "body"
  <2>1. Path = blk /\ instr_idx = idx
    BY <1>1, <1>2 DEF Path, instr_idx
  <2>2. PathLength(blk) \in Nat \ {0} /\ PathLength(blk) >= Len(code[blk])
    BY <1>1, PathLengthType DEF IInv
  <2> QED
    BY <1>1, <2>1, <2>2
<1>3. CASE where = "inline"
  <2>1. HasInline(blk) /\ InlinePath(blk) = code[Path]
    BY <1>1, <1>3 DEF IInv, PositionOK, Here
  <2>2. PathLength(blk) = Len(code[blk]) + Len(code[Path])
    BY ZenonT(30), <1>1, <2>1, PathLengthType DEF IInv
  <2>3. instr_idx = Len(code[blk]) - 1 + idx
    BY <1>3 DEF instr_idx
  <2>4. \A x, y \in Nat \ {0} : \A i \in 1 .. y :
          x + y \in Nat \ {0} /\ x - 1 + i \in 1 .. x + y
    OBVIOUS
  <2> QED
    BY <1>1, <2>2, <2>3, <2>4, Zenon
<1> QED
  BY <1>2, <1>3

\* The instructions that leave their function arrive where they lead, with the
\* count of the instructions executed in it.
LEMMA Transfers ==
  ASSUME NEW F, IInv(F), Executes,
         \/ LastFall \/ LastJump \/ LastBranch \/ LastRet \/ MidBranchTaken
         \/ OpenInline /\ ~cond
  PROVE  \E a \in Addresses, n \in Nat :
           /\ Reachable(F, a) /\ LeadsTo(a) /\ Arrived(a, n)
           /\ n <= acc + instr_idx /\ n <= acc + PathLength(blk)
           /\ counts /\ ~OpenInline => n = IF per_instruction /\ is_last THEN acc + 1
                                          ELSE acc + instr_idx
<1> USE DEF Executes
<1>1. /\ acc \in Nat /\ acc + instr_idx \in Nat /\ Counted \in Nat
      /\ instr = prog[current_pc]
      /\ acc <= acc + PathLength(blk)
      /\ acc + instr_idx <= acc + PathLength(blk)
      /\ acc <= acc + instr_idx /\ acc + instr_idx <= acc + instr_idx
      /\ Counted <= acc + PathLength(blk) /\ Counted <= acc + instr_idx
      /\ counts => Counted = IF per_instruction THEN acc + 1 ELSE acc + instr_idx
  BY SMTT(30), HereFacts, PathFacts DEF IInv, TypeOK, Counted
<1>2. CASE LastFall
  <2>1. LeadsTo(current_pc + 1) /\ is_last
    BY <1>2 DEF LastFall, LeadsTo
  <2> QED
    BY <1>1, <1>2, <2>1, LeadsToReachable, LeavingArrives DEF LastFall
<1>3. CASE LastJump
  <2>1. LeadsTo(instr.target) /\ is_last
    BY <1>3 DEF LastJump, LeadsTo
  <2> QED
    BY <1>1, <1>3, <2>1, LeadsToReachable, LeavingArrives DEF LastJump
<1>4. CASE LastBranch
  <2> DEFINE a == IF cond THEN instr.target ELSE current_pc + 1
  <2>1. LeadsTo(a) /\ is_last /\ BranchTo(a, Counted)
    BY ZenonT(30), <1>4 DEF LastBranch, LeadsTo
  <2> QED
    BY <1>1, <2>1, LeadsToReachable, LeavingArrives
<1>5. CASE LastRet
  <2> DEFINE a == stack[Len(stack)]
  <2>1. LeadsTo(a) /\ is_last /\ JumpDynamic(a, Counted)
    BY <1>5 DEF LastRet, LeadsTo
  <2> QED
    BY <1>1, <2>1, LeadsToReachable, LeavingArrives
<1>6. CASE MidBranchTaken
  <2> DEFINE n == IF counts THEN acc + instr_idx ELSE acc
  <2>1. /\ LeadsTo(instr.target) /\ instr.op = "branch" /\ cond /\ ~is_last
        /\ SideExit(instr.target, n)
    BY <1>6 DEF MidBranchTaken, LeadsTo
  <2>2. /\ n \in Nat /\ n <= acc + PathLength(blk) /\ n <= acc + instr_idx
        /\ counts => n = acc + instr_idx
    BY <1>1
  <2> HIDE DEF n
  <2> QED
    BY <2>1, <2>2, LeadsToReachable, LeavingArrives
<1>7. CASE OpenInline /\ ~cond
  <2>1. instr.op = "branch"
    BY <1>7, InlineFacts DEF OpenInline
  <2>2. LeadsTo(current_pc + 1) /\ is_last /\ JumpStatic(current_pc + 1, acc)
    BY <1>7, <2>1 DEF OpenInline, LeadsTo
  <2> QED
    BY <1>1, <1>7, <2>2, LeadsToReachable, LeavingArrives
<1> QED
  BY ZenonT(30), <1>2, <1>3, <1>4, <1>5, <1>6, <1>7

\* The instructions that end the run.
LEMMA Exits ==
  ASSUME NEW F, IInv(F), ExitStatement \/ LastExit
  PROVE  /\ instr.op \in ExitingOps \cup {"exit"} /\ UNCHANGED stack
         /\ \E n \in Nat : ExitAt(current_pc, n)
<1>1. acc \in Nat /\ acc + instr_idx \in Nat /\ Counted \in Nat
  BY SMTT(30), HereFacts DEF IInv, TypeOK, Counted, ExitStatement, LastExit, Executes
<1> QED
  BY <1>1 DEF ExitStatement, LastExit

\* The steps that stay in their function come to the instruction they lead to.
LEMMA StaysInside ==
  ASSUME NEW F, IInv(F), Executes, MidInstr \/ (OpenInline /\ cond)
  PROVE  /\ \E a \in Pcs : LeadsTo(a) /\ GuestPc' = a
         /\ where' \in {"body", "inline"}
         /\ PositionOK(F)' /\ idx' \in 1 .. Len(Here')
         /\ UNCHANGED <<blk, acc, pc, instret, has_exited>>
<1>0. /\ where \in {"body", "inline"} /\ prog' = prog /\ code' = code
      /\ taken_inlines' = taken_inlines /\ ~has_exited
  BY DEF Executes, image, IInv, PositionOK
<1>1. CASE MidInstr
  <2>1. /\ idx \in 1 .. Len(code[Path]) - 1 /\ Path \in F
        /\ current_pc = code[Path][idx] /\ instr = prog[current_pc]
        /\ Here = code[Path]
    BY <1>0, <1>1, HereFacts DEF MidInstr
  <2>2. RunsOn(F, Path, idx) /\ Len(code[Path]) \in Nat
        /\ code[Path][idx + 1] \in Pcs /\ idx + 1 \in 1 .. Len(code[Path])
    BY <2>1, FunctionFacts DEF IInv
  <2>3. /\ idx' = idx + 1 /\ where' = where /\ blk' = blk /\ acc' = acc
        /\ pc' = pc /\ instret' = instret /\ has_exited' = has_exited
    BY <1>1 DEF MidInstr, NextInstr, rvstate
  <2>4. Here' = Here /\ Path' = Path /\ HasInline(blk)' = HasInline(blk)
    BY <1>0, <2>3 DEF Here, Path, InlinePath, HasInline, LastPc
  <2>5. GuestPc' = code[Path][idx + 1]
    BY ZenonT(30), <1>0, <2>1, <2>3, <2>4 DEF GuestPc, current_pc
  <2>6. LeadsTo(code[Path][idx + 1])
    BY ZenonT(30), <1>1, <2>1, <2>2 DEF LeadsTo, RunsOn, MidInstr, JumpOps, FallOps
  <2> QED
    BY ZenonT(30), <1>0, <2>1, <2>2, <2>3, <2>4, <2>5, <2>6 DEF PositionOK, IInv
<1>2. CASE OpenInline /\ cond
  <2>1. where = "body" /\ is_last /\ HasInline(blk)
    BY <1>2 DEF OpenInline
  <2>2. /\ instr.op = "branch" /\ taken_inlines[LastPc(blk)] = instr.target
        /\ instr.target \in F /\ InlinePath(blk) = code[instr.target]
        /\ Len(code[instr.target]) \in Nat \ {0} /\ code[instr.target] # <<>>
        /\ code[instr.target][1] = instr.target
    BY <2>1, InlineFacts
  <2>3. /\ where' = "inline" /\ idx' = 1 /\ blk' = blk /\ acc' = acc
        /\ pc' = pc /\ instret' = instret /\ has_exited' = has_exited
        /\ stack' = stack
    BY <1>2, <2>2 DEF OpenInline, rvstate
  <2>4. /\ Here' = code[instr.target] /\ Path' = instr.target
        /\ HasInline(blk)' = HasInline(blk)
    BY <1>0, <2>2, <2>3 DEF Here, Path, InlinePath, HasInline, LastPc
  <2>5. GuestPc' = instr.target
    BY <1>0, <2>2, <2>3, <2>4 DEF GuestPc, current_pc
  <2>6. LeadsTo(instr.target) /\ instr.target \in Pcs
    BY <1>2, <2>2, <2>3 DEF LeadsTo, IInv, WellFormedOn, ImageType
  <2> QED
    BY <1>0, <2>1, <2>2, <2>3, <2>4, <2>5, <2>6, HereFacts DEF PositionOK
<1> QED
  BY <1>1, <1>2

-----------------------------------------------------------------------------
\* A run begins at a function with nothing executed.
LEMMA StartIInv ==
  ASSUME NEW F, WellFormedOn(F), pc \in F, ExecInit
  PROVE  IInv(F)
<1>1. /\ WellFormedOn(F) /\ pc \in F /\ where = "host" /\ blk = NoPc
      /\ idx = 0 /\ acc = 0 /\ instret = 0 /\ has_exited = FALSE
      /\ target_instret = 0 /\ cond \in BOOLEAN /\ stack = <<>>
      /\ retired = 0 /\ launch = 0
  BY DEF ExecInit
<1>2. pc \in Pcs /\ pc \in Addresses
  BY <1>1, FunctionFacts, InstrFacts
<1>3. TypeOK
  <2>1. stack \in Seq(Addresses)
    BY <1>1
  <2>2. acc \in Nat /\ instret \in Nat /\ target_instret \in Nat
        /\ retired \in Nat /\ launch \in Nat /\ has_exited \in BOOLEAN
    BY ZenonT(30), <1>1
  <2> QED
    BY <1>1, <1>2, <2>1, <2>2 DEF TypeOK
<1>4. PositionOK(F) /\ StackOK(F) /\ HostPcOK(F)
  BY <1>1 DEF PositionOK, StackOK, HostPcOK
<1> QED
  BY <1>1, <1>3, <1>4 DEF IInv

\* The host's two operations and the check at a function's entry keep the
\* invariant and leave the guest where it is.
LEMMA EdgesKeep ==
  ASSUME NEW F, IInv(F), SetTarget \/ rv_execute_from \/ BlockEntry
  PROVE  /\ IInv(F)'
         /\ UNCHANGED <<prog, cond, stack>>
         /\ Halted' = Halted /\ (~Halted => GuestPc' = GuestPc)
<1>0. /\ UNCHANGED image
      /\ UNCHANGED <<prog, code, absorbed_to_merged, taken_inlines>>
      /\ UNCHANGED <<cond, stack, retired>>
  BY DEF SetTarget, rv_execute_from, BlockEntry, image
<1>1. WellFormedOn(F)' /\ StackOK(F)'
  BY <1>0, ImageKept DEF IInv, StackOK
<1>2. CASE SetTarget
  BY <1>0, <1>1, <1>2, BoundsAssumption
     DEF SetTarget, IInv, TypeOK, PositionOK, HostPcOK, control, rvstate,
         GuestPc, Halted
<1>3. CASE rv_execute_from
  <2>1. /\ where = "host" /\ ~has_exited /\ launch' = instret
        /\ target_instret' = target_instret /\ pc \in Addresses
    BY <1>3 DEF rv_execute_from, IInv, TypeOK
  <2>2. CASE pc \in Pcs
    <3>1. pc \in F /\ pc \in DOMAIN code /\ dispatch_table(pc) = pc /\ pc # NoPc
      BY <2>1, <2>2, NAssumption DEF IInv, WellFormedOn, HostPcOK, dispatch_table, Pcs, NoPc
    <3>2. Enter(pc, instret)
      BY <1>3, <3>1 DEF rv_execute_from
    <3> QED
      BY <1>0, <1>1, <2>1, <2>2, <3>1, <3>2
         DEF Enter, rvstate, IInv, TypeOK, PositionOK, HostPcOK, GuestPc, Halted
  <2>3. CASE pc \notin Pcs
    <3>1. dispatch_table(pc) = NoPc
      BY <2>3 DEF IInv, WellFormedOn, ImageType, dispatch_table
    <3>2. ExitAt(pc, instret)
      BY <1>3, <3>1 DEF rv_execute_from
    <3> QED
      BY <1>0, <1>1, <2>1, <2>3, <3>2
         DEF ExitAt, SaveAndReturn, IInv, TypeOK, PositionOK, HostPcOK, GuestPc, Halted
  <2> QED
    BY <2>2, <2>3
<1>4. CASE BlockEntry
  <2>1. /\ where = "entry" /\ ~has_exited /\ launch' = launch
        /\ target_instret' = target_instret /\ blk \in F
        /\ blk \in Pcs /\ blk \in Addresses /\ Len(code[blk]) \in Nat \ {0}
        /\ code[blk][1] = blk
    BY <1>4, FunctionFacts, InstrFacts DEF BlockEntry, IInv, TypeOK, PositionOK
  <2>2. CASE MustSuspend(acc)
    BY <1>0, <1>1, <1>4, <2>1, <2>2
       DEF BlockEntry, Suspend, SaveAndReturn, IInv, TypeOK, PositionOK, HostPcOK,
           GuestPc, Halted
  <2>3. CASE ~MustSuspend(acc)
    <3>1. where' = "body" /\ idx' = 1 /\ UNCHANGED <<blk, acc, pc, instret, has_exited>>
      BY <1>4, <2>3 DEF BlockEntry, rvstate
    <3>2. Here' = code[blk] /\ Path' = blk /\ GuestPc' = blk
      BY <1>0, <2>1, <3>1 DEF Here, Path, GuestPc, current_pc
    <3> QED
      BY <1>0, <1>1, <2>1, <3>1, <3>2
         DEF IInv, TypeOK, PositionOK, HostPcOK, GuestPc, Halted
  <2> QED
    BY ZenonT(30), <2>2, <2>3
<1> QED
  BY <1>2, <1>3, <1>4

\* Every step of the generated code keeps the invariant, and is a step of the
\* interpreter or leaves the guest where it is.
LEMMA InstructionsKeep ==
  ASSUME NEW F, IInv(F), Executes, Guest, ~BlockEntry
  PROVE  IInv(F)' /\ Ref!Step
<1>0. /\ where \in {"body", "inline"} /\ UNCHANGED image /\ cond' \in BOOLEAN
      /\ UNCHANGED <<prog, code, absorbed_to_merged, taken_inlines>>
      /\ target_instret' \in Nat /\ launch' \in Nat /\ retired' \in Nat
  BY DEF Executes, image, IInv, TypeOK
<1>1. WellFormedOn(F)'
  BY <1>0, ImageKept DEF IInv
<1>2. CASE \/ LastFall \/ LastJump \/ LastBranch \/ LastRet \/ MidBranchTaken
           \/ OpenInline /\ ~cond
  <2>1. PICK a \in Addresses, n \in Nat : Reachable(F, a) /\ LeadsTo(a) /\ Arrived(a, n)
    BY <1>2, Transfers
  <2>2. stack' \in Seq(Addresses) /\ StackOK(F)'
    BY ZenonT(30), <1>0, <2>1, StackKept
  <2>3. /\ where' \in {"host", "entry"}
        /\ where' = "host" => blk' = NoPc /\ idx' = 0
        /\ where' = "entry" => blk' \in DOMAIN code' /\ blk' \in F
        /\ acc' \in Nat /\ instret' \in Nat
        /\ pc' \in Addresses /\ has_exited' \in BOOLEAN
        /\ PositionOK(F)' /\ HostPcOK(F)'
    BY <1>0, <2>1, ArrivedKeeps
  <2>4. TypeOK'
    BY <1>0, <2>2, <2>3 DEF TypeOK
  <2>5. Ref!Step
    BY <1>0, <2>1, ArrivedGoes, LeadsToRefines
  <2> QED
    BY <1>1, <2>2, <2>3, <2>4, <2>5 DEF IInv
<1>3. CASE MidInstr \/ (OpenInline /\ cond)
  <2>1. PICK a \in Pcs : LeadsTo(a) /\ GuestPc' = a
    BY <1>3, StaysInside
  <2>2. /\ where' \in {"body", "inline"} /\ PositionOK(F)' /\ idx' \in 1 .. Len(Here')
        /\ UNCHANGED <<blk, acc, pc, instret, has_exited>>
    BY <1>3, StaysInside
  <2>3. stack' \in Seq(Addresses) /\ StackOK(F)'
    BY <1>0, <2>1, StackKept
  <2>4. TypeOK' /\ HostPcOK(F)'
    BY <1>0, <2>2, <2>3 DEF IInv, TypeOK, HostPcOK
  <2>5. Ref!Goto(a)
    BY <1>0, <2>1, <2>2 DEF Ref!Goto, Ref!Pcs, Ref!NoPc, Pcs, NoPc, Halted, IInv, PositionOK
  <2>6. Ref!Step
    BY <1>0, <2>1, <2>5, LeadsToRefines
  <2> QED
    BY <1>1, <2>2, <2>3, <2>4, <2>6 DEF IInv
<1>4. CASE ExitStatement \/ LastExit
  <2>1. /\ instr.op \in ExitingOps \cup {"exit"} /\ stack' = stack
        /\ current_pc \in Addresses
    BY <1>0, <1>4, Exits, HereFacts, InstrFacts DEF IInv
  <2>2. PICK n \in Nat : ExitAt(current_pc, n)
    BY <1>4, Exits
  <2>3. StackOK(F)'
    BY <1>0, <2>1, ImageKept DEF IInv, StackOK
  <2>4. TypeOK' /\ PositionOK(F)' /\ HostPcOK(F)'
    BY ZenonT(30), <1>0, <2>1, <2>2 DEF ExitAt, SaveAndReturn, IInv, TypeOK, PositionOK, HostPcOK
  <2>5. ~Halted /\ GuestPc = current_pc /\ instr = prog[current_pc]
    BY <1>0, HereFacts
  <2>6. Ref!Halt
    BY <2>2 DEF ExitAt, Ref!Halt, Halted, Ref!NoPc, NoPc
  <2>7. Ref!Step
    BY <1>0, <2>1, <2>5, <2>6 DEF Ref!Step, Ref!ExitRequest, Ref!ExitingOps, ExitingOps
  <2> QED
    BY ZenonT(30), <1>1, <2>3, <2>4, <2>7 DEF IInv
<1> QED
  BY <1>2, <1>3, <1>4 DEF Guest

LEMMA GuestExecutes ==
  ASSUME Guest, ~BlockEntry
  PROVE  Executes
BY DEF Guest, ExitStatement, MidInstr, MidBranchTaken, LastFall, LastJump,
       LastBranch, OpenInline, LastRet, LastExit

\* One step of the emitted code: the invariant is kept, and the interpreter
\* takes a step or none.
LEMMA StepKeeps ==
  ASSUME NEW F, IInv(F), [Next]_vars
  PROVE  IInv(F)' /\ [Ref!Step]_(Ref!vars)
<1>1. CASE SetTarget \/ rv_execute_from \/ BlockEntry
  <2>1. IInv(F)' /\ UNCHANGED <<prog, cond, stack>> /\ Halted' = Halted
        /\ (~Halted => GuestPc' = GuestPc)
    BY <1>1, EdgesKeep
  <2>2. UNCHANGED Ref!vars
    BY <2>1 DEF Ref!vars
  <2> QED
    BY <2>1, <2>2
<1>2. CASE Guest /\ ~BlockEntry
  BY <1>2, GuestExecutes, InstructionsKeep
<1>3. CASE UNCHANGED vars
  <2>1. /\ UNCHANGED image /\ UNCHANGED <<where, blk, idx, acc, pc, instret, has_exited>>
        /\ UNCHANGED <<prog, code, absorbed_to_merged, taken_inlines>>
        /\ UNCHANGED <<target_instret, cond, stack, retired, launch>>
    BY <1>3 DEF vars, image, control, rvstate
  <2>2. WellFormedOn(F)' /\ StackOK(F)'
    BY <2>1, ImageKept DEF IInv, StackOK
  <2>3. Here' = Here /\ Path' = Path /\ GuestPc' = GuestPc /\ HasInline(blk)' = HasInline(blk)
    BY <2>1 DEF Here, Path, GuestPc, current_pc, InlinePath, HasInline, LastPc
  <2>4. IInv(F)'
    BY <2>1, <2>2, <2>3 DEF IInv, TypeOK, PositionOK, HostPcOK
  <2>5. UNCHANGED Ref!vars
    BY <2>1, <2>3 DEF Ref!vars, Halted
  <2> QED
    BY <2>4, <2>5
<1> QED
  BY <1>1, <1>2, <1>3 DEF Next, Host

\* Execution never leaves the functions it began in.
Confined == \E F : IInv(F)

\* The invariant holds in every reachable state.
THEOREM Invariance == Spec => []Confined
<1>1. Init => Confined
  BY StartIInv DEF Init, WellFormed, Confined
<1>2. Confined /\ [Next]_vars => Confined'
  BY StepKeeps DEF Confined
<1> QED
  BY <1>1, <1>2, PTL DEF Spec

\* Every variable of the emitted code has its type: control stands at an
\* instruction of a function that was emitted.
THEOREM TypeCorrect == Spec => []TypeOK
<1>1. Confined => TypeOK
  BY ZenonT(30) DEF Confined, IInv
<1> QED
  BY <1>1, Invariance, PTL

\* A suspended guest resumes at RvState.pc and nowhere else.
THEOREM ResumptionCorrect == Spec => []ResumesInPlace
<1>1. Confined => ResumesInPlace
  BY DEF Confined, IInv, WellFormedOn, HostPcOK, ResumesInPlace, dispatch_table
<1> QED
  BY <1>1, Invariance, PTL

\* Every well-formed image executes its program, for every number of
\* instructions, every program and every instret mode.
THEOREM Refinement == Spec => ImplementsInterpreter
<1>1. Init => Ref!Init
  <2> SUFFICES ASSUME Init PROVE Ref!Init
    OBVIOUS
  <2>1. WellFormed /\ pc \in DOMAIN code /\ ExecInit
    BY DEF Init
  <2>2. pc \in Pcs /\ prog \in [Pcs -> Instr]
    BY <2>1 DEF WellFormed, WellFormedOn, ImageType
  <2>3. GuestPc = pc /\ ~Halted /\ cond \in BOOLEAN /\ stack = <<>>
    BY <2>1, <2>2 DEF ExecInit, GuestPc, Halted
  <2> QED
    BY <2>2, <2>3 DEF Ref!Init, Ref!Pcs, Ref!Instr, Ref!Ops, Ref!Addresses, Ref!FallOps,
                      Ref!JumpOps, Pcs, Instr, Ops, Addresses, FallOps, JumpOps
<1>2. Confined /\ [Next]_vars => [Ref!Step]_(Ref!vars)
  BY StepKeeps DEF Confined
<1> QED
  BY <1>1, <1>2, Invariance, PTL DEF Spec, ImplementsInterpreter, Ref!Spec

-----------------------------------------------------------------------------
(* What RvState.instret is good for: in every well-formed image            *)
(* rv_execute_from comes back on time, and where no count is dropped       *)
(* (no exiting ecall, no inlined path) the count is exact.                 *)

\* Inside a function the target has not been reached; at the entry of one it
\* is exceeded by less than the path that led there.
OnTime ==
  suspends =>
    /\ where \in {"body", "inline"} => acc < target_instret
    /\ where = "entry" /\ launch < target_instret =>
         \E b \in DOMAIN code : acc < target_instret + PathLength(b)

\* What SuspendsOnTime says of one step.
ReturnsOnTime ==
  where # "host" /\ where' = "host" /\ ~has_exited' =>
    /\ suspends
    /\ target_instret <= instret'
    /\ launch < target_instret =>
         \E b \in DOMAIN code : instret' < target_instret + PathLength(b)

\* Path lengths are a matter of the image.
LEMMA PathLengthKept ==
  ASSUME UNCHANGED image
  PROVE  code' = code /\ \A b : PathLength(b)' = PathLength(b)
<1>1. prog' = prog /\ code' = code /\ taken_inlines' = taken_inlines
  BY DEF image
<1> QED
  BY <1>1 DEF PathLength, HasInline, InlinePath, LastPc

\* Every step returns on time, and keeps the invariant.
LEMMA OnTimeStep ==
  ASSUME NEW F, IInv(F), OnTime, [Next]_vars
  PROVE  OnTime' /\ ReturnsOnTime
<1>0. acc \in Nat /\ instret \in Nat /\ target_instret \in Nat /\ launch \in Nat
  BY DEF IInv, TypeOK
<1>1. CASE SetTarget
  BY <1>1 DEF SetTarget, OnTime, ReturnsOnTime, control
<1>2. CASE rv_execute_from
  <2>1. /\ where = "host" /\ launch' = instret /\ target_instret' = target_instret
        /\ UNCHANGED image
    BY <1>2 DEF rv_execute_from
  <2>2. CASE where' = "entry"
    <3>1. acc' = instret /\ blk' = dispatch_table(pc)
      BY <1>2, <2>2 DEF rv_execute_from, Enter, ExitAt, SaveAndReturn
    <3>2. PICK b \in F : b = blk' /\ b \in DOMAIN code
      <4>1. blk' \in F
        BY <1>2, <2>2, EdgesKeep DEF IInv, PositionOK
      <4> QED
        BY ZenonT(30), <4>1 DEF IInv, WellFormedOn
    <3>3. launch' < target_instret' => acc' < target_instret' + PathLength(b)
      BY <1>0, <2>1, <3>1, PathLengthType DEF IInv
    <3> QED
      BY <2>1, <2>2, <3>2, <3>3, PathLengthKept DEF OnTime, ReturnsOnTime
  <2>3. CASE where' = "host"
    BY <2>1, <2>3 DEF OnTime, ReturnsOnTime
  <2> QED
    BY <1>2, <2>2, <2>3 DEF rv_execute_from, Enter, ExitAt, SaveAndReturn
<1>3. CASE BlockEntry
  <2>1. /\ where = "entry" /\ target_instret' = target_instret /\ launch' = launch
        /\ UNCHANGED image
    BY <1>3 DEF BlockEntry
  <2>2. CASE MustSuspend(acc)
    <3>1. where' = "host" /\ instret' = acc
      BY <1>3, <2>2 DEF BlockEntry, Suspend, SaveAndReturn
    <3> QED
      BY <2>1, <2>2, <3>1 DEF MustSuspend, OnTime, ReturnsOnTime
  <2>3. CASE ~MustSuspend(acc)
    <3>1. where' = "body" /\ acc' = acc
      BY <1>3, <2>3 DEF BlockEntry
    <3> QED
      BY <1>0, <2>1, <2>3, <3>1, ImageKept DEF MustSuspend, OnTime, ReturnsOnTime
  <2> QED
    BY <2>2, <2>3
<1>4. CASE Guest /\ ~BlockEntry
  <2>1. Executes
    BY <1>4, GuestExecutes
  <2>2. /\ where \in {"body", "inline"} /\ target_instret' = target_instret
        /\ launch' = launch /\ UNCHANGED image
    BY <2>1 DEF Executes
  <2>3. suspends => acc < target_instret
    BY <2>2 DEF OnTime
  <2>4. CASE \/ LastFall \/ LastJump \/ LastBranch \/ LastRet \/ MidBranchTaken
             \/ OpenInline /\ ~cond
    <3>1. PICK a \in Addresses, n \in Nat :
            Arrived(a, n) /\ n <= acc + PathLength(blk)
      BY ZenonT(30), <2>1, <2>4, Transfers
    <3>2. blk \in DOMAIN code /\ PathLength(blk) \in Nat \ {0}
      BY ZenonT(30), <2>2, HereFacts, PathLengthType DEF IInv, WellFormedOn
    <3>3. suspends => n < target_instret + PathLength(blk)
      BY <1>0, <2>3, <3>1, <3>2
    <3>4. CASE Enter(a, n)
      <4>1. where' = "entry" /\ acc' = n
        BY <3>4 DEF Enter
      <4> QED
        BY <2>2, <3>2, <3>3, <4>1, PathLengthKept, ImageKept DEF OnTime, ReturnsOnTime
    <3>5. CASE MustSuspend(n) /\ Suspend(a, n)
      BY <2>2, <3>2, <3>3, <3>5
         DEF MustSuspend, Suspend, SaveAndReturn, OnTime, ReturnsOnTime
    <3>6. CASE \E c : ExitAt(c, n)
      BY <3>6 DEF ExitAt, SaveAndReturn, OnTime, ReturnsOnTime
    <3> QED
      BY <3>1, <3>4, <3>5, <3>6 DEF Arrived
  <2>5. CASE MidInstr \/ (OpenInline /\ cond)
    <3>1. where' \in {"body", "inline"} /\ acc' = acc
      BY <2>1, <2>5, StaysInside
    <3> QED
      BY <2>2, <2>3, <3>1, ImageKept DEF OnTime, ReturnsOnTime
  <2>6. CASE ExitStatement \/ LastExit
    BY ZenonT(30), <2>6, Exits DEF ExitAt, SaveAndReturn, OnTime, ReturnsOnTime
  <2> QED
    BY <1>4, <2>4, <2>5, <2>6 DEF Guest
<1>5. CASE UNCHANGED vars
  <2>1. /\ UNCHANGED image /\ target_instret' = target_instret /\ launch' = launch
        /\ where' = where /\ acc' = acc
    BY <1>5 DEF vars, control
  <2> QED
    BY <2>1, PathLengthKept, ImageKept DEF OnTime, ReturnsOnTime
<1> QED
  BY <1>1, <1>2, <1>3, <1>4, <1>5 DEF Next, Host

\* rv_execute_from comes back at the target, and overshoots it by less than
\* one path through one function, in every well-formed image.
THEOREM SuspensionOnTime == Spec => SuspendsOnTime
<1>1. Init => OnTime
  BY DEF Init, ExecInit, OnTime
<1>2. Confined /\ OnTime /\ [Next]_vars => OnTime' /\ ReturnsOnTime
  BY OnTimeStep DEF Confined
<1>3. ReturnsOnTime =>
        [where # "host" /\ where' = "host" /\ ~has_exited' =>
           /\ suspends
           /\ target_instret <= instret'
           /\ launch < target_instret =>
                \E b \in DOMAIN code : instret' < target_instret + PathLength(b)]_vars
  BY DEF ReturnsOnTime
<1> QED
  BY <1>1, <1>2, <1>3, Invariance, PTL DEF Spec, SuspendsOnTime

-----------------------------------------------------------------------------
\* The argument instret is the count at the entry of the function, and the
\* instructions executed since are the ones before idx.
CountOK ==
  Countable /\ counts =>
    /\ where = "host" => instret = retired
    /\ where = "entry" => acc = retired
    /\ where \in {"body", "inline"} => where = "body" /\ acc + idx - 1 = retired

LEMMA CountableKept ==
  ASSUME UNCHANGED image
  PROVE  (Countable /\ counts)' <=> (Countable /\ counts)
<1>1. /\ prog' = prog /\ code' = code /\ taken_inlines' = taken_inlines
      /\ instret_mode' = instret_mode
  BY DEF image
<1> QED
  BY <1>1 DEF Countable, HasInline, LastPc, counts

\* Every step keeps the count.
LEMMA CountStep ==
  ASSUME NEW F, IInv(F), CountOK, [Next]_vars
  PROVE  CountOK'
<1>0. /\ acc \in Nat /\ instret \in Nat /\ retired \in Nat
  BY DEF IInv, TypeOK
<1>1. CASE SetTarget \/ rv_execute_from \/ BlockEntry
  <2>1. UNCHANGED image /\ retired' = retired
    BY <1>1 DEF SetTarget, rv_execute_from, BlockEntry
  <2>2. (Countable /\ counts)' <=> (Countable /\ counts)
    BY <2>1, CountableKept
  <2> QED
    BY <1>0, <1>1, <2>1, <2>2
       DEF CountOK, SetTarget, rv_execute_from, BlockEntry, Enter, ExitAt, Suspend,
           SaveAndReturn, control, rvstate
<1>2. CASE Guest /\ ~BlockEntry
  <2>1. Executes
    BY <1>2, GuestExecutes
  <2>2. /\ where \in {"body", "inline"} /\ retired' = retired + 1
        /\ (Countable /\ counts)' <=> (Countable /\ counts)
    BY <2>1, CountableKept DEF Executes
  <2> SUFFICES ASSUME Countable, counts
               PROVE  /\ where' = "host" => instret' = retired'
                      /\ where' = "entry" => acc' = retired'
                      /\ where' \in {"body", "inline"} =>
                           where' = "body" /\ acc' + idx' - 1 = retired'
    BY ZenonT(30), <2>2 DEF CountOK
  <2>3. /\ where = "body" /\ acc + idx - 1 = retired /\ instr_idx = idx
        /\ idx \in 1 .. Len(code[blk]) /\ blk \in F
        /\ Len(code[blk]) \in Nat \ {0} /\ ~HasInline(blk)
    <3>1. where = "body" /\ acc + idx - 1 = retired
      BY ZenonT(30), <2>2 DEF CountOK
    <3>2. Path \in F /\ idx \in 1 .. Len(code[Path]) /\ Path = blk /\ WellFormedOn(F)
      BY ZenonT(30), <2>2, <3>1, HereFacts DEF Path, IInv
    <3>3. Len(code[blk]) \in Nat \ {0} /\ blk \in DOMAIN code
      BY <3>2, FunctionFacts DEF WellFormedOn
    <3>4. ~HasInline(blk)
      BY <3>3, Zenon DEF Countable
    <3>5. instr_idx = idx
      BY <3>1, <3>2 DEF instr_idx
    <3> QED
      BY <3>1, <3>2, <3>3, <3>4, <3>5
  <2>4. acc + instr_idx = retired + 1 /\ (per_instruction => idx = 1)
    <3>1. per_instruction => Len(code[blk]) = 1
      BY <2>3 DEF IInv, WellFormedOn
    <3>2. idx \in Nat
      BY <2>3
    <3>3. acc + instr_idx = retired + 1
      BY <1>0, <2>3, <3>2
    <3>4. Len(code[blk]) = 1 => idx = 1
      BY <2>3
    <3> QED
      BY ZenonT(30), <3>1, <3>3, <3>4
  <2>5. CASE \/ LastFall \/ LastJump \/ LastBranch \/ LastRet \/ MidBranchTaken
             \/ OpenInline /\ ~cond
    <3>1. ~OpenInline
      BY <2>3 DEF OpenInline
    <3>2. PICK a \in Addresses, n \in Nat :
            /\ Arrived(a, n)
            /\ n = IF per_instruction /\ is_last THEN acc + 1 ELSE acc + instr_idx
      BY <2>1, <2>5, <3>1, Transfers
    <3>3. n = retired + 1
      BY <2>3, <2>4, <3>2
    <3> QED
      BY <2>2, <3>2, <3>3
         DEF Arrived, Enter, Suspend, ExitAt, SaveAndReturn
  <2>6. CASE MidInstr \/ (OpenInline /\ cond)
    <3>1. MidInstr
      BY <2>3, <2>6 DEF OpenInline
    <3> QED
      BY <1>0, <2>2, <2>3, <3>1 DEF MidInstr, NextInstr
  <2>7. CASE ExitStatement
    <3>1. instr.op # "ecall" /\ instr.op \in ExitingOps
      BY <2>2, <2>7, HereFacts DEF ExitStatement, Countable
    <3>2. instret' = acc + instr_idx /\ where' = "host"
      BY <2>7, <3>1 DEF ExitStatement, ExitingOps, ExitAt, SaveAndReturn
    <3> QED
      BY ZenonT(30), <2>2, <2>4, <3>2
  <2>8. CASE LastExit
    <3>1. where' = "host" /\ instret' = Counted
      BY <2>8 DEF LastExit, ExitAt, SaveAndReturn
    <3>2. Counted = acc + instr_idx
      BY <2>3, <2>4 DEF Counted
    <3> QED
      BY <2>2, <2>4, <3>1, <3>2
  <2> QED
    BY <1>2, <2>5, <2>6, <2>7, <2>8 DEF Guest
<1>3. CASE UNCHANGED vars
  <2>1. UNCHANGED image /\ UNCHANGED <<where, acc, idx, instret, retired>>
    BY <1>3 DEF vars, control, rvstate
  <2> QED
    BY <2>1, CountableKept DEF CountOK
<1> QED
  BY <1>1, <1>2, <1>3 DEF Next, Host

\* Whenever the host has control of a countable image, RvState.instret is the
\* number of guest instructions executed, however the guest came back.
THEOREM CountExact == Spec => []CountableExact
<1>1. Init => CountOK
  BY DEF Init, ExecInit, CountOK
<1>2. Confined /\ CountOK /\ [Next]_vars => CountOK'
  BY CountStep DEF Confined
<1>3. CountOK => CountableExact
  BY DEF CountOK, InstretExact, CountableExact
<1> QED
  BY <1>1, <1>2, <1>3, Invariance, PTL DEF Spec
=============================================================================
