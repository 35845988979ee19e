------------------------ MODULE DebugSessionProofs -------------------------
(***************************************************************************)
(* The debuggers tell their users the truth, for every program, every      *)
(* well-formed image and every sequence of commands: steps are exact and   *)
(* continue stops at breakpoints where each instruction is a function of   *)
(* its own, and an exit is reported only when there was one.               *)
(*                                                                         *)
(* A debugger may resume a guest that has exited, so that the invariant    *)
(* of the emitted code holds only until then; where the flag is cleared    *)
(* and every instruction begins a function, it holds for good.             *)
(***************************************************************************)
EXTENDS DebugSession, EmittedCodeProofs

\* Positions in the generated code are real ones.
Sound == ~ended \/ (SteppedImage /\ frontend = "debug")

\* Every function may be executed: a debugger can send the guest to any.
FullInv == \E F : F = DOMAIN code /\ IInv(F)

\* The emitted code keeps it.
LEMMA FullStep ==
  ASSUME FullInv, [Next]_vars, UNCHANGED image
  PROVE  FullInv'
BY StepKeeps DEF FullInv, image

\* The saved pc leads to its own function or nowhere.
PcOK == pc \in DOMAIN code \/ dispatch_table(pc) = NoPc

SessionType ==
  /\ frontend \in {"gdb", "debug"}
  /\ frontend = "debug" => suspends
  /\ exec_mode \in {"continue", "step"}
  /\ wanted \in Nat /\ before \in Nat /\ retired \in Nat
  /\ frontend = "gdb" \/ exec_mode = "continue" => wanted = 1
  /\ ended \in BOOLEAN

PositionInv ==
  Sound => /\ FullInv
           /\ session # "running" => where = "host"
           /\ SteppedImage => PcOK

\* No path counts more instructions than it executes.
CountLow ==
  /\ where = "host" => instret <= retired
  /\ where = "entry" => acc <= retired
  /\ where = "body" => acc + idx - 1 <= retired
  /\ where = "inline" => acc + Len(code[blk]) + idx - 1 <= retired

\* A guest that has not exited is back only because of its target.
LiveInv ==
  ~ended =>
    /\ ~has_exited /\ exit_code = 0 /\ reported # "exited"
    /\ session = "running" /\ where = "host" => suspends /\ target_instret <= instret
    /\ session = "running" /\ frontend = "gdb" /\ exec_mode = "continue" /\ suspends =>
         target_instret = NoTarget
    /\ CountLow /\ retired <= MaxRetired

\* A step is on its way to its target, and not past it.
StepInv ==
  SteppedImage /\ ~ended =>
    /\ where = "host" => instret = retired
    /\ where # "host" => acc = retired /\ where # "inline"
    /\ session = "resumed" /\ exec_mode = "step" => before = retired
    /\ session = "running" /\ exec_mode = "step" =>
         /\ target_instret = before + wanted /\ retired <= target_instret
         /\ where = "body" => acc < target_instret
    /\ StepsExactly

\* Continue executes one instruction at a time, and has looked at the
\* breakpoints before each but the first.
ContinueInv ==
  SteppedImage /\ frontend = "debug" /\ exec_mode = "continue" =>
    /\ session = "resumed" /\ retired # before => pc \notin breakpoints
    /\ session = "running" /\ where # "host" =>
         /\ target_instret = acc + 1
         /\ retired # before => blk \notin breakpoints

\* The inductive invariant.
DebugInv == SessionType /\ PositionInv /\ LiveInv /\ StepInv /\ ContinueInv


-----------------------------------------------------------------------------
(* Frames. *)

\* Whether an image is stepped is a matter of the image.
LEMMA SteppedKept ==
  ASSUME UNCHANGED image
  PROVE  /\ SteppedImage' <=> SteppedImage
         /\ code' = code /\ \A a : dispatch_table(a)' = dispatch_table(a)
         /\ suspends' <=> suspends
<1>1. /\ prog' = prog /\ code' = code /\ instret_mode' = instret_mode
      /\ absorbed_to_merged' = absorbed_to_merged /\ taken_inlines' = taken_inlines
  BY DEF image
<1> QED
  BY <1>1 DEF SteppedImage, HasInline, LastPc, per_instruction, dispatch_table, suspends

\* The actions that only concern the debugger.
Prompt ==
  AddBreakpoint \/ RemoveBreakpoint \/ Command \/ Quit \/ on_interrupt
    \/ run_until_stop_at_breakpoint \/ execute_step_end

\* The debuggers call execute_from with a target of their choice.
Launch == run_until_stop_start \/ execute_step

\* What the other actions leave alone.
LEMMA Frames ==
  ASSUME SessionType, [DebugNext]_debugVars
  PROVE  /\ \/ Prompt /\ UNCHANGED <<vars, exit_code, ended>>
            \/ write_registers \/ Launch \/ run_until_stop_end
            \/ (GuestExits \/ GuestRuns) /\ UNCHANGED debugger
            \/ UNCHANGED debugVars
         /\ UNCHANGED image /\ frontend' = frontend
         /\ ended => ended'
<1>1. CASE Prompt
  BY <1>1 DEF Prompt, AddBreakpoint, RemoveBreakpoint, Command, Quit, on_interrupt,
     run_until_stop_at_breakpoint, execute_step_end, vars
<1>2. CASE write_registers
  BY <1>2 DEF write_registers, debugger
<1>3. CASE Launch
  BY <1>3 DEF Launch, run_until_stop_start, execute_step, execute_from
<1>4. CASE run_until_stop_end
  BY <1>4 DEF run_until_stop_end
<1>5. CASE GuestExits
  <2>1. UNCHANGED image
    BY <1>5 DEF GuestExits, ExitStatement, LastExit, Executes
  <2> QED
    BY ZenonT(30), <1>5, <2>1 DEF GuestExits, debugger
<1>6. CASE GuestRuns
  <2>1. UNCHANGED image
    BY <1>6 DEF GuestRuns, BlockEntry, MidInstr, MidBranchTaken, LastFall, LastJump, LastBranch,
       OpenInline, LastRet, Executes
  <2>2. ended => ended'
    <3>1. ended' = (ended \/ has_exited')
      BY <1>6 DEF GuestRuns
    <3> QED
      BY <3>1, Zenon DEF SessionType
  <2> QED
    BY <1>6, <2>1, <2>2 DEF GuestRuns, debugger
<1>7. CASE UNCHANGED debugVars
  BY <1>7 DEF debugVars, vars, debugger
<1> QED
  BY ZenonT(30), <1>1, <1>2, <1>3, <1>4, <1>5, <1>6, <1>7 DEF DebugNext, Prompt, Launch


\* The session's own variables keep their types.
LEMMA SessionTypeKept ==
  ASSUME SessionType, [DebugNext]_debugVars
  PROVE  SessionType'
<1>1. UNCHANGED image /\ frontend' = frontend /\ (suspends' <=> suspends)
  BY Frames, SteppedKept
<1>2. retired' \in Nat
  <2>1. CASE UNCHANGED retired
    BY <2>1 DEF SessionType
  <2>2. CASE Executes
    BY <2>2 DEF SessionType, Executes
  <2> QED
    BY ZenonT(30), <2>1, <2>2, Frames DEF Launch, run_until_stop_start, execute_step, execute_from,
       run_until_stop_end, write_registers, GuestExits, GuestRuns, ExitStatement, LastExit,
       BlockEntry, MidInstr, MidBranchTaken, LastFall, LastJump, LastBranch, OpenInline, LastRet,
       debugVars, vars
<1>3. ended' \in BOOLEAN
  <2>1. CASE GuestRuns
    BY <2>1, Zenon DEF GuestRuns
  <2>2. CASE GuestExits
    BY <2>2 DEF GuestExits
  <2> QED
    BY ZenonT(30), <2>1, <2>2, Frames DEF SessionType, Launch, run_until_stop_start, execute_step,
       execute_from, run_until_stop_end, write_registers, debugVars
<1>4. CASE Command
  <2>1. wanted' \in Nat /\ (frontend = "gdb" \/ exec_mode' = "continue" => wanted' = 1)
    BY <1>4, FrontendsAssumption DEF Command
  <2> QED
    BY <1>1, <1>2, <1>3, <1>4, <2>1 DEF Command, SessionType
<1>5. CASE UNCHANGED <<exec_mode, wanted, before>>
  BY <1>1, <1>2, <1>3, <1>5 DEF SessionType
<1> QED
  BY ZenonT(30), <1>4, <1>5, Frames DEF Prompt, AddBreakpoint, RemoveBreakpoint, Quit, on_interrupt,
     run_until_stop_at_breakpoint, execute_step_end, write_registers, Launch,
     run_until_stop_start, execute_step, run_until_stop_end, debugger, debugVars

-----------------------------------------------------------------------------
(* Positions. *)

\* What is sound was sound: the guest does not come back to life.
LEMMA SoundBefore ==
  ASSUME SessionType, [DebugNext]_debugVars, Sound'
  PROVE  Sound
BY Frames, SteppedKept DEF Sound

\* A launch goes to the function at the pc, or ends the guest.
LEMMA Launches ==
  ASSUME SessionType, PositionInv, LiveInv, Launch, Sound
  PROVE  /\ where = "host" /\ session = "resumed" /\ session' = "running"
         /\ UNCHANGED <<pc, instret, retired, cond, stack>> /\ launch' = instret
         /\ \/ /\ pc \in DOMAIN code /\ dispatch_table(pc) = pc
               /\ where' = "entry" /\ blk' = pc /\ idx' = 0 /\ acc' = instret
               /\ has_exited' = FALSE /\ ended' = ended
               /\ ~ended => exit_code' = 0
            \/ /\ where' = "host" /\ blk' = NoPc /\ idx' = 0 /\ acc' = 0
               /\ has_exited' = TRUE /\ ended' = TRUE
         /\ frontend = "gdb" =>
              set_target_instret(IF exec_mode = "step" THEN instret + 1 ELSE NoTarget)
         /\ frontend = "debug" => set_target_instret(instret + wanted)
<1>1. session = "resumed" /\ where = "host" /\ FullInv
  BY ZenonT(30) DEF Launch, run_until_stop_start, execute_step, PositionInv
<1>2. PICK flag \in {has_exited, FALSE}, exited_with \in {exit_code, 0} :
        /\ execute_from(flag, exited_with)
        /\ frontend = "debug" => flag = FALSE /\ exited_with = 0
    BY ZenonT(30) DEF Launch, run_until_stop_start, execute_step
<1>3. /\ frontend = "gdb" =>
           set_target_instret(IF exec_mode = "step" THEN instret + 1 ELSE NoTarget)
      /\ frontend = "debug" => set_target_instret(instret + wanted)
  BY ZenonT(30) DEF Launch, run_until_stop_start, execute_step, StepTarget
<1>4. CASE dispatch_table(pc) # NoPc
  <2>1. pc \in DOMAIN code
    <3>1. CASE ended
      BY <1>4, <3>1 DEF Sound, PositionInv, PcOK
    <3>2. CASE ~ended
      BY <1>1, <1>4, <3>2
         DEF LiveInv, FullInv, IInv, HostPcOK, WellFormedOn, ImageType, dispatch_table
    <3> QED
      BY <3>1, <3>2
  <2>2. dispatch_table(pc) = pc
    BY <2>1 DEF dispatch_table
  <2>3. flag = FALSE
    <3>1. CASE frontend = "debug"
      BY <1>2, <3>1
    <3>2. CASE frontend = "gdb"
      <4>1. ~has_exited /\ has_exited \in BOOLEAN
        BY <1>1, <3>2 DEF Sound, LiveInv, FullInv, IInv, TypeOK
      <4>2. has_exited = FALSE
        BY <4>1, Zenon
      <4> QED
        BY ZenonT(30), <1>2, <4>2
    <3> QED
      BY ZenonT(30), <3>1, <3>2 DEF SessionType
  <2>4. ~ended => exited_with = 0
    BY <1>2 DEF LiveInv
  <2> QED
    BY <1>1, <1>2, <1>3, <1>4, <2>1, <2>2, <2>3, <2>4 DEF execute_from
<1>5. CASE dispatch_table(pc) = NoPc
  BY <1>1, <1>2, <1>3, <1>5 DEF execute_from, ExitAt, SaveAndReturn
<1> QED
  BY ZenonT(30), <1>4, <1>5

\* A launch keeps the positions.
LEMMA LaunchKeeps ==
  ASSUME SessionType, PositionInv, LiveInv, Launch, Sound, UNCHANGED image
  PROVE  FullInv' /\ (SteppedImage => PcOK')
<1>1. FullInv /\ (SteppedImage => PcOK)
  BY DEF PositionInv
<1>2. PICK F : F = DOMAIN code /\ IInv(F)
  BY <1>1 DEF FullInv
<1>8. WellFormedOn(F)' /\ StackOK(F)'
  BY <1>2, Launches, ImageKept DEF IInv, StackOK
<1>3. target_instret' \in Nat
  <2>1. instret \in Nat /\ wanted \in Nat /\ NoTarget \in Nat /\ target_instret \in Nat
    BY <1>1, BoundsAssumption DEF FullInv, IInv, TypeOK, SessionType, NoTarget
  <2>2. \E n \in Nat : set_target_instret(n)
    <3>1. CASE frontend = "gdb"
      <4>1. (IF exec_mode = "step" THEN instret + 1 ELSE NoTarget) \in Nat
        BY <2>1
      <4> QED
        BY <3>1, <4>1, Launches, Zenon
    <3>2. CASE frontend = "debug"
      <4>1. instret + wanted \in Nat
        BY <2>1
      <4> QED
        BY <3>2, <4>1, Launches, Zenon
    <3> QED
      BY <3>1, <3>2 DEF SessionType
  <2> QED
    BY <2>1, <2>2 DEF set_target_instret
<1>4. /\ instret' \in Nat /\ retired' \in Nat /\ launch' \in Nat /\ pc' \in Addresses
      /\ cond' \in BOOLEAN /\ stack' \in Seq(Addresses) /\ acc' \in Nat
      /\ has_exited' \in BOOLEAN
  <2>1. /\ instret \in Nat /\ retired \in Nat /\ pc \in Addresses
        /\ cond \in BOOLEAN /\ stack \in Seq(Addresses)
    BY <1>1 DEF FullInv, IInv, TypeOK
  <2>2. /\ UNCHANGED <<pc, instret, retired, cond, stack>> /\ launch' = instret
        /\ acc' = instret \/ acc' = 0
        /\ has_exited' = TRUE \/ has_exited' = FALSE
    BY ZenonT(30), Launches
  <2>3. has_exited' \in BOOLEAN /\ cond' \in BOOLEAN
    BY <2>1, <2>2, Zenon
  <2>4. acc' \in Nat
    BY <2>1, <2>2
  <2> QED
    BY <2>1, <2>2, <2>3, <2>4
<1>5. where' \in {"host", "entry"} /\ code' = code
  BY ZenonT(30), Launches, SteppedKept
<1>6. TypeOK'
  BY ZenonT(30), <1>3, <1>4, <1>5, Launches DEF TypeOK
<1>7. PositionOK(F)' /\ HostPcOK(F)'
  BY ZenonT(30), <1>2, <1>5, Launches DEF PositionOK, HostPcOK
<1>9. FullInv'
  BY <1>2, <1>5, <1>6, <1>7, <1>8 DEF FullInv, IInv
<1> QED
  BY <1>1, <1>9, Launches, SteppedKept DEF PcOK


\* In a stepped image every function is one instruction.
LEMMA SteppedHere ==
  ASSUME FullInv, SteppedImage
  PROVE  /\ counts /\ suspends /\ per_instruction
         /\ where # "inline"
         /\ where = "body" =>
              /\ blk \in DOMAIN code /\ current_pc = blk
              /\ idx = 1 /\ instr_idx = 1 /\ is_last
              /\ ~OpenInline
<1>1. counts /\ suspends /\ per_instruction
  BY DEF SteppedImage, per_instruction, counts, suspends
<1>2. where # "inline"
  BY DEF SteppedImage, FullInv, IInv, PositionOK, TypeOK
<1>3. ASSUME where = "body"
      PROVE  /\ blk \in DOMAIN code /\ current_pc = blk
             /\ idx = 1 /\ instr_idx = 1 /\ is_last /\ ~OpenInline
  <2>1. blk \in DOMAIN code /\ Here = code[blk] /\ idx \in 1 .. Len(code[blk])
    BY <1>3, HereFacts DEF FullInv, Path
  <2>2. Len(code[blk]) = 1 /\ code[blk][1] = blk
    BY <1>1, <2>1 DEF FullInv, IInv, WellFormed, WellFormedOn
  <2>3. idx = 1
    BY <2>1, <2>2
  <2> QED
    BY <1>3, <2>1, <2>2, <2>3
       DEF current_pc, instr_idx, is_last, SteppedImage, OpenInline
<1> QED
  BY <1>1, <1>2, <1>3

\* Where the guest leads, dispatch leads too, or nowhere.
LEMMA ArrivesAtPcOK ==
  ASSUME FullInv, SteppedImage, PcOK, where = "body", UNCHANGED image,
         NEW a \in Addresses, NEW n \in Nat, Reachable(DOMAIN code, a), Arrived(a, n)
  PROVE  PcOK'
<1>1. \/ pc' = pc \/ pc' = a \/ pc' = current_pc
  BY DEF Arrived, Enter, Suspend, ExitAt, SaveAndReturn, rvstate
<1>2. /\ code' = code /\ \A c : dispatch_table(c)' = dispatch_table(c)
  BY SteppedKept
<1>3. dispatch_table(pc)' = dispatch_table(pc')
  BY <1>2 DEF dispatch_table, image
<1>4. a \in DOMAIN code \/ dispatch_table(a) = NoPc
  BY ReachableResolves DEF FullInv, IInv
<1>5. current_pc \in DOMAIN code
  BY SteppedHere
<1> QED
  BY <1>1, <1>2, <1>3, <1>4, <1>5 DEF PcOK

\* The guest keeps the positions, and runs only inside execute_from.
LEMMA GuestKeeps ==
  ASSUME SessionType, PositionInv, Sound, GuestExits \/ GuestRuns, UNCHANGED image
  PROVE  /\ FullInv' /\ (SteppedImage => PcOK')
         /\ session = "running" /\ where # "host" /\ Guest
<1>1. FullInv /\ (SteppedImage => PcOK)
  BY DEF PositionInv
<1>2. Guest
  BY DEF GuestExits, GuestRuns, Guest
<1>3. BlockEntry \/ Executes
  BY <1>2, GuestExecutes
<1>4. where # "host"
  BY <1>3 DEF BlockEntry, Executes
<1>5. FullInv'
  BY <1>1, <1>2, FullStep DEF Next
<1>6. ASSUME SteppedImage PROVE PcOK'
  <2>0. /\ code' = code /\ dispatch_table(pc)' = dispatch_table(pc')
    BY SteppedKept DEF dispatch_table, image
  <2>1. CASE BlockEntry
    <3>1. pc' = pc \/ (pc' = blk /\ blk \in DOMAIN code)
      BY <1>1, <2>1 DEF BlockEntry, Suspend, SaveAndReturn, rvstate, FullInv, IInv, TypeOK
    <3> QED
      BY <1>1, <1>6, <2>0, <3>1 DEF PcOK
  <2>2. CASE Executes
    <3>1. where = "body"
      BY <1>1, <1>6, <2>2, SteppedHere DEF Executes
    <3>2. CASE LastFall \/ LastJump \/ LastBranch \/ LastRet \/ MidBranchTaken
      <4>1. PICK a \in Addresses, n \in Nat : Reachable(DOMAIN code, a) /\ Arrived(a, n)
        BY <1>1, <2>2, <3>2, Transfers DEF FullInv
      <4> QED
        BY <1>1, <1>6, <3>1, <4>1, ArrivesAtPcOK
    <3>3. CASE ExitStatement \/ LastExit
      <4>1. pc' = current_pc
        BY ZenonT(30), <1>1, <3>3, Exits DEF FullInv, ExitAt, SaveAndReturn
      <4> QED
        BY <1>1, <1>6, <2>0, <3>1, <4>1, SteppedHere DEF PcOK
    <3>4. CASE MidInstr
      BY <1>1, <1>6, <3>1, <3>4, SteppedHere DEF MidInstr
    <3>5. CASE OpenInline
      BY <1>1, <1>6, <3>1, <3>5, SteppedHere
    <3>6. ~BlockEntry
      BY <3>1 DEF BlockEntry
    <3> QED
      BY <1>2, <3>2, <3>3, <3>4, <3>5, <3>6 DEF Guest
  <2> QED
    BY <1>3, <2>1, <2>2
<1> QED
  BY <1>1, <1>2, <1>4, <1>5, <1>6 DEF PositionInv


\* Every step keeps the positions.
LEMMA PositionStep ==
  ASSUME SessionType, PositionInv, LiveInv, [DebugNext]_debugVars
  PROVE  PositionInv'
<1> SUFFICES ASSUME Sound'
             PROVE  /\ FullInv' /\ (session' # "running" => where' = "host")
                    /\ SteppedImage => PcOK'
  BY Frames, SteppedKept DEF PositionInv
<1>0. /\ Sound /\ FullInv /\ (session # "running" => where = "host")
      /\ (SteppedImage => PcOK) /\ UNCHANGED image
  BY SoundBefore, Frames DEF PositionInv
<1>1. ASSUME UNCHANGED vars
      PROVE  FullInv' /\ (SteppedImage => PcOK') /\ where' = where
  <2>1. FullInv' /\ where' = where /\ pc' = pc
    BY <1>0, <1>1, FullStep DEF vars, control, rvstate
  <2>2. dispatch_table(pc)' = dispatch_table(pc)
    BY <1>0, <2>1 DEF dispatch_table, image
  <2> QED
    BY <1>0, <2>1, <2>2, SteppedKept DEF PcOK
<1>2. CASE Prompt /\ UNCHANGED <<vars, exit_code, ended>>
  <2>1. where = "host"
    BY <1>0, <1>2 DEF Prompt, AddBreakpoint, RemoveBreakpoint, Command, Quit, on_interrupt,
       run_until_stop_at_breakpoint, execute_step_end
  <2> QED
    BY <1>1, <1>2, <2>1
<1>3. CASE write_registers
  <2>1. where = "host" /\ pc' \in DOMAIN code /\ pc' \in Addresses /\ code' = code
    BY <1>0, <1>3, InstrFacts, SteppedKept, NAssumption
       DEF write_registers, FullInv, IInv, WellFormed, WellFormedOn, ImageType, Pcs, Addresses
  <2>2. UNCHANGED <<where, blk, idx, acc, instret, has_exited, target_instret, cond, stack,
                    retired, launch>>
    BY <1>3 DEF write_registers, control
  <2>3. PICK F : F = DOMAIN code /\ IInv(F)
    BY <1>0 DEF FullInv
  <2>4. WellFormedOn(F)' /\ StackOK(F)'
    BY <1>0, <2>2, <2>3, ImageKept DEF IInv, StackOK
  <2>5. TypeOK' /\ PositionOK(F)' /\ HostPcOK(F)'
    BY <2>1, <2>2, <2>3 DEF IInv, TypeOK, PositionOK, HostPcOK
  <2>6. FullInv'
    BY <2>1, <2>3, <2>4, <2>5 DEF FullInv, IInv
  <2> QED
    BY ZenonT(30), <2>1, <2>2, <2>6 DEF PcOK
<1>4. CASE Launch
  BY <1>0, <1>4, LaunchKeeps, Launches
<1>5. CASE run_until_stop_end
  <2>1. ~has_exited /\ has_exited \in BOOLEAN
    BY <1>0, <1>5 DEF run_until_stop_end, Sound, LiveInv, FullInv, IInv, TypeOK
  <2>2. has_exited = FALSE
    BY <2>1, Zenon
  <2>3. has_exited' = has_exited
    BY ZenonT(30), <1>5, <2>2 DEF run_until_stop_end
  <2>4. UNCHANGED vars
    BY <1>5, <2>3 DEF run_until_stop_end, vars, rvstate
  <2> QED
    BY <1>1, <1>5, <2>4 DEF run_until_stop_end
<1>6. CASE (GuestExits \/ GuestRuns) /\ UNCHANGED debugger
  BY <1>0, <1>6, GuestKeeps DEF debugger
<1>7. CASE UNCHANGED debugVars
  <2>1. UNCHANGED vars /\ session' = session
    BY <1>7 DEF debugVars, debugger
  <2> QED
    BY <1>0, <1>1, <2>1
<1> QED
  BY <1>2, <1>3, <1>4, <1>5, <1>6, <1>7, Frames


-----------------------------------------------------------------------------
(* Exits and counts. *)

\* A guest that goes on living is back because of its target, and has counted no
\* more than it executed.
LEMMA GuestCounts ==
  ASSUME FullInv, Guest, ~has_exited', CountLow, retired <= MaxRetired
  PROVE  /\ where' = "host" => suspends /\ target_instret' <= instret'
         /\ CountLow' /\ retired' <= MaxRetired
<1>0. /\ acc \in Nat /\ instret \in Nat /\ retired \in Nat /\ target_instret \in Nat
      /\ MaxRetired \in Nat
  BY BoundsAssumption DEF FullInv, IInv, TypeOK
<1>1. CASE BlockEntry
  <2>1. /\ where = "entry" /\ blk \in DOMAIN code /\ target_instret' = target_instret
        /\ retired' = retired /\ acc <= retired
    BY <1>1 DEF BlockEntry, FullInv, IInv, TypeOK, CountLow
  <2>2. CASE MustSuspend(acc)
    BY <1>0, <1>1, <2>1, <2>2
       DEF BlockEntry, MustSuspend, Suspend, SaveAndReturn, CountLow
  <2>3. CASE ~MustSuspend(acc)
    <3>1. where' = "body" /\ idx' = 1 /\ acc' = acc
      BY <1>1, <2>3 DEF BlockEntry
    <3> QED
      BY <1>0, <2>1, <3>1 DEF CountLow
  <2> QED
    BY <2>2, <2>3
<1>2. CASE ~BlockEntry
  <2>1. /\ Executes /\ where \in {"body", "inline"} /\ retired' = retired + 1
        /\ retired' <= MaxRetired /\ target_instret' = target_instret /\ UNCHANGED image
    BY SMTT(30), <1>0, <1>2, GuestExecutes DEF Executes
  <2>2. /\ blk \in DOMAIN code /\ Len(code[blk]) \in Nat \ {0} /\ idx \in Nat
        /\ instr_idx \in Nat /\ code' = code
    BY <2>1, HereFacts, FunctionFacts DEF FullInv, IInv, image
  <2>3. acc + instr_idx <= retired + 1
    BY <1>0, <2>1, <2>2 DEF CountLow, instr_idx
  <2>4. CASE \/ LastFall \/ LastJump \/ LastBranch \/ LastRet \/ MidBranchTaken
             \/ OpenInline /\ ~cond
    <3>1. PICK a \in Addresses, n \in Nat : Arrived(a, n) /\ n <= acc + instr_idx
      BY <2>1, <2>4, Transfers DEF FullInv
    <3>2. n <= retired'
      BY <1>0, <2>1, <2>2, <2>3, <3>1
    <3> QED
      BY <1>0, <2>1, <3>1, <3>2
         DEF Arrived, Enter, Suspend, ExitAt, SaveAndReturn, MustSuspend, CountLow
  <2>5. CASE MidInstr
    <3>1. where' = where /\ idx' = idx + 1 /\ acc' = acc /\ blk' = blk
      BY <2>5 DEF MidInstr, NextInstr
    <3> QED
      BY <1>0, <2>1, <2>2, <3>1 DEF CountLow
  <2>6. CASE OpenInline /\ cond
    <3>1. where' \in {"body", "inline"}
      BY <2>1, <2>6, StaysInside DEF FullInv
    <3>2. where = "body" /\ where' = "inline" /\ idx' = 1 /\ acc' = acc /\ blk' = blk
      BY <2>6, <3>1 DEF OpenInline, JumpStatic, Suspend, Enter, ExitAt, SaveAndReturn
    <3>3. idx = Len(code[blk])
      BY <2>6, <3>2 DEF OpenInline, is_last, Here
    <3> QED
      BY <1>0, <2>1, <2>2, <3>2, <3>3 DEF CountLow
  <2>7. CASE ExitStatement \/ LastExit
    BY ZenonT(30), <2>7, Exits DEF FullInv, ExitAt
  <2> QED
    BY <1>2, <2>4, <2>5, <2>6, <2>7 DEF Guest
<1> QED
  BY <1>1, <1>2


\* A living guest is back with the GDB target only from a step that is complete:
\* continue gives it no target to come back for.
LEMMA LiveContinueReturns ==
  ASSUME SessionType, PositionInv, LiveInv, ~ended, session = "running", where = "host",
         frontend = "gdb"
  PROVE  exec_mode = "step" /\ suspends /\ stepped
<1>1. /\ instret \in Nat /\ retired \in Nat /\ MaxRetired \in Nat /\ target_instret \in Nat
  BY BoundsAssumption DEF PositionInv, Sound, FullInv, IInv, TypeOK
<1>2. suspends /\ target_instret <= instret /\ exit_code = 0
  BY DEF LiveInv
<1>3. exec_mode # "continue"
  BY <1>1, <1>2 DEF LiveInv, CountLow, NoTarget
<1> QED
  BY <1>1, <1>2, <1>3 DEF stepped, SessionType

\* Every step keeps what is known of a living guest.
LEMMA LiveStep ==
  ASSUME SessionType, PositionInv, LiveInv, [DebugNext]_debugVars
  PROVE  LiveInv'
<1> SUFFICES ASSUME ~ended' PROVE LiveInv'
  BY DEF LiveInv
<1>0. /\ ~ended /\ Sound /\ FullInv /\ (session # "running" => where = "host")
      /\ UNCHANGED image /\ frontend' = frontend /\ code' = code /\ (suspends' <=> suspends)
  BY Frames, SteppedKept DEF Sound, PositionInv
<1>1. /\ ~has_exited /\ exit_code = 0 /\ reported # "exited"
      /\ CountLow /\ retired <= MaxRetired
      /\ (session = "running" /\ where = "host" => suspends /\ target_instret <= instret)
      /\ (session = "running" /\ frontend = "gdb" /\ exec_mode = "continue" /\ suspends =>
            target_instret = NoTarget)
  BY <1>0 DEF LiveInv
<1>2. ASSUME UNCHANGED <<control, instret, retired>>
      PROVE  CountLow' /\ retired' <= MaxRetired
  BY <1>0, <1>1, <1>2 DEF CountLow, control
<1>3. CASE Prompt /\ UNCHANGED <<vars, exit_code, ended>>
  <2>1. CountLow' /\ retired' <= MaxRetired /\ has_exited' = has_exited /\ exit_code' = exit_code
    BY ZenonT(30), <1>2, <1>3 DEF vars, rvstate
  <2>2. reported' # "exited" /\ session' # "running"
    BY <1>1, <1>3 DEF Prompt, AddBreakpoint, RemoveBreakpoint, Command, Quit, on_interrupt,
       run_until_stop_at_breakpoint, execute_step_end
  <2> QED
    BY <1>1, <2>1, <2>2 DEF LiveInv
<1>4. CASE write_registers
  <2>1. /\ CountLow' /\ retired' <= MaxRetired /\ has_exited' = has_exited
        /\ exit_code' = exit_code
    BY <1>2, <1>4 DEF write_registers
  <2>2. reported' = reported /\ session' = "idle"
    BY <1>4 DEF write_registers, debugger
  <2> QED
    BY <1>1, <2>1, <2>2 DEF LiveInv
<1>5. CASE Launch
  <2>1. /\ where = "host" /\ where' = "entry" /\ acc' = instret /\ retired' = retired
        /\ has_exited' = FALSE /\ exit_code' = 0
    BY ZenonT(30), <1>0, <1>5, Launches
  <2>2. reported' = reported /\ exec_mode' = exec_mode
    BY ZenonT(30), <1>5 DEF Launch, run_until_stop_start, execute_step
  <2>3. CountLow' /\ retired' <= MaxRetired
    BY <1>1, <2>1 DEF CountLow
  <2>4. frontend = "gdb" /\ exec_mode = "continue" /\ suspends => target_instret' = NoTarget
    BY <1>0, <1>5, Launches DEF set_target_instret
  <2> QED
    BY <1>0, <1>1, <2>1, <2>2, <2>3, <2>4 DEF LiveInv, NoTarget
<1>6. CASE run_until_stop_end
  <2>1. exec_mode = "step" /\ suspends /\ stepped
    BY <1>0, <1>6, LiveContinueReturns DEF run_until_stop_end
  <2>2. /\ reported' = "done_step" /\ session' = "idle" /\ has_exited' = FALSE
        /\ exit_code' = 0 /\ UNCHANGED <<control, instret, retired>>
    BY <1>6, <2>1 DEF run_until_stop_end
  <2> QED
    BY <1>2, <2>2 DEF LiveInv
<1>7. CASE (GuestExits \/ GuestRuns) /\ UNCHANGED debugger
  <2>1. GuestRuns /\ Guest
    BY <1>7 DEF GuestExits, GuestRuns, Guest
  <2>2. ~has_exited'
    <3>1. ended' = (ended \/ has_exited')
      BY <2>1 DEF GuestRuns
    <3> QED
      BY <3>1, Zenon
  <2>3. exit_code' = 0
    BY <1>1, <2>1, <2>2 DEF GuestRuns
  <2>4. /\ where' = "host" => suspends /\ target_instret' <= instret'
        /\ CountLow' /\ retired' <= MaxRetired
    BY <1>0, <1>1, <2>1, <2>2, GuestCounts
  <2>5. session' = session /\ exec_mode' = exec_mode /\ reported' = reported
    BY <1>7 DEF debugger
  <2>6. target_instret' = target_instret
    BY <2>1, GuestExecutes DEF BlockEntry, Executes
  <2> QED
    BY <1>0, <1>1, <2>2, <2>3, <2>4, <2>5, <2>6 DEF LiveInv, NoTarget
<1>8. CASE UNCHANGED debugVars
  <2>1. UNCHANGED <<vars, exit_code, session, exec_mode, reported>>
    BY <1>8 DEF debugVars, debugger
  <2>2. UNCHANGED <<control, instret, retired, has_exited, target_instret, where>>
    BY <2>1 DEF vars, rvstate, control
  <2> QED
    BY <1>0, <1>1, <1>2, <2>1, <2>2 DEF LiveInv, NoTarget
<1> QED
  BY <1>3, <1>4, <1>5, <1>6, <1>7, <1>8, Frames


-----------------------------------------------------------------------------
(* Steps and breakpoints. *)

\* The guest of a stepped image: entry checks and instructions alternate, and
\* the count is exact at each.
LEMMA SteppedGuest ==
  ASSUME FullInv, SteppedImage, Guest
  PROVE  /\ target_instret' = target_instret
         /\ \/ /\ where = "entry" /\ retired' = retired
               /\ \/ where' = "host" /\ instret' = acc
                  \/ where' = "body" /\ acc' = acc /\ blk' = blk /\ acc < target_instret
            \/ /\ where = "body" /\ retired' = retired + 1
               /\ \/ where' = "host" /\ (~has_exited' => instret' = acc + 1)
                  \/ where' = "entry" /\ acc' = acc + 1 /\ acc + 1 < target_instret
<1>0. /\ acc \in Nat /\ target_instret \in Nat /\ suspends /\ counts /\ per_instruction
  BY SteppedHere DEF FullInv, IInv, TypeOK
<1>1. CASE BlockEntry
  BY <1>0, <1>1 DEF BlockEntry, MustSuspend, Suspend, SaveAndReturn
<1>2. CASE ~BlockEntry
  <2>1. /\ Executes /\ where = "body" /\ retired' = retired + 1
        /\ target_instret' = target_instret
    BY <1>2, GuestExecutes, SteppedHere DEF Executes
  <2>2. is_last /\ ~OpenInline
    BY <2>1, SteppedHere
  <2>3. CASE ExitStatement \/ LastExit
    BY ZenonT(30), <2>1, <2>3, Exits DEF FullInv, ExitAt, SaveAndReturn
  <2>4. CASE LastFall \/ LastJump \/ LastBranch \/ LastRet
    <3>1. PICK a \in Addresses, n \in Nat : Arrived(a, n) /\ n = acc + 1
      BY <1>0, <2>1, <2>2, <2>4, Transfers DEF FullInv
    <3>2. \/ where' = "host" /\ (~has_exited' => instret' = acc + 1)
          \/ where' = "entry" /\ acc' = acc + 1
      BY <3>1 DEF Arrived, Enter, Suspend, ExitAt, SaveAndReturn
    <3>3. MustSuspend(acc + 1) => where' = "host"
      <4>1. Counted = acc + 1
        BY <1>0 DEF Counted
      <4>2. PICK b : JumpStatic(b, acc + 1) \/ BranchTo(b, acc + 1) \/ JumpDynamic(b, acc + 1)
        BY <2>4, <4>1 DEF LastFall, LastJump, LastBranch, LastRet
      <4> QED
        BY <4>2 DEF JumpStatic, BranchTo, JumpDynamic, Suspend, ExitAt, SaveAndReturn
    <3> QED
      BY <1>0, <2>1, <3>2, <3>3 DEF MustSuspend
  <2>5. ~MidInstr /\ ~MidBranchTaken
    BY <2>2 DEF MidInstr, MidBranchTaken
  <2> QED
    BY <1>2, <2>2, <2>3, <2>4, <2>5 DEF Guest
<1> QED
  BY <1>1, <1>2

\* A step that reports its end is at its target.
LEMMA StepsEnd ==
  ASSUME SessionType, PositionInv, LiveInv, StepInv, SteppedImage, ~ended,
         session = "running", where = "host", exec_mode = "step"
  PROVE  retired = before + wanted
<1>1. target_instret <= instret /\ instret = retired /\ retired <= target_instret
      /\ target_instret = before + wanted
  BY DEF LiveInv, StepInv
<1>2. target_instret \in Nat /\ retired \in Nat
  BY DEF PositionInv, Sound, FullInv, IInv, TypeOK
<1> QED
  BY <1>1, <1>2


\* Every step keeps what is known of the step command.
LEMMA StepStep ==
  ASSUME SessionType, PositionInv, LiveInv, StepInv, [DebugNext]_debugVars
  PROVE  StepInv'
<1> SUFFICES ASSUME SteppedImage', ~ended' PROVE StepInv'
  BY DEF StepInv
<1>0. /\ ~ended /\ Sound /\ FullInv /\ (session # "running" => where = "host")
      /\ SteppedImage /\ frontend' = frontend /\ UNCHANGED image /\ suspends
  BY Frames, SteppedKept, SteppedHere DEF Sound, PositionInv
<1>1. /\ where = "host" => instret = retired
      /\ where # "host" => acc = retired /\ where # "inline"
      /\ session = "resumed" /\ exec_mode = "step" => before = retired
      /\ session = "running" /\ exec_mode = "step" =>
           /\ target_instret = before + wanted /\ retired <= target_instret
           /\ where = "body" => acc < target_instret
      /\ StepsExactly
  BY <1>0 DEF StepInv
<1>2. /\ acc \in Nat /\ instret \in Nat /\ retired \in Nat /\ target_instret \in Nat
      /\ wanted \in Nat /\ before \in Nat
  BY <1>0 DEF FullInv, IInv, TypeOK, SessionType
<1>3. CASE Prompt /\ UNCHANGED <<vars, exit_code, ended>>
  <2>1. UNCHANGED <<where, acc, instret, retired, target_instret>> /\ where = "host"
    BY ZenonT(30), <1>0, <1>3 DEF vars, control, rvstate, Prompt, AddBreakpoint, RemoveBreakpoint, Command,
       Quit, on_interrupt, run_until_stop_at_breakpoint, execute_step_end
  <2>2. session' # "running"
    BY ZenonT(30), <1>3 DEF Prompt, AddBreakpoint, RemoveBreakpoint, Command, Quit, on_interrupt,
       run_until_stop_at_breakpoint, execute_step_end
  <2>3. session' = "resumed" /\ exec_mode' = "step" => before' = retired
    BY <1>3 DEF Prompt, AddBreakpoint, RemoveBreakpoint, Command, Quit, on_interrupt,
       run_until_stop_at_breakpoint, execute_step_end
  <2>4. StepsExactly'
    <3>1. CASE UNCHANGED <<session, exec_mode, reported, before, wanted>>
      BY ZenonT(30), <1>0, <1>1, <1>3, <2>1, <3>1 DEF StepsExactly
    <3>2. CASE execute_step_end
      BY <1>0, <2>1, <3>2, StepsEnd DEF execute_step_end, StepsExactly
    <3>3. CASE session' # "idle" \/ reported' \notin {"done_step", "stepped"}
      BY ZenonT(30), <3>3 DEF StepsExactly
    <3> QED
      BY <1>3, <3>1, <3>2, <3>3 DEF Prompt, AddBreakpoint, RemoveBreakpoint, Command, Quit,
         on_interrupt, run_until_stop_at_breakpoint
  <2> QED
    BY ZenonT(30), <1>1, <2>1, <2>2, <2>3, <2>4 DEF StepInv
<1>4. CASE write_registers
  <2>1. UNCHANGED <<where, acc, instret, retired, target_instret, session, exec_mode, reported,
                    before, wanted>> /\ session = "idle"
    BY <1>4 DEF write_registers, control, debugger
  <2> QED
    BY <1>0, <1>1, <2>1 DEF StepInv, StepsExactly
<1>5. CASE Launch
  <2>1. /\ session = "resumed" /\ session' = "running" /\ where = "host" /\ where' = "entry"
        /\ acc' = instret /\ retired' = retired
    BY ZenonT(30), <1>0, <1>5, Launches
  <2>2. UNCHANGED <<exec_mode, reported, before, wanted>>
    BY ZenonT(30), <1>5 DEF Launch, run_until_stop_start, execute_step
  <2>3. exec_mode = "step" => target_instret' = instret + wanted
    <3>1. CASE frontend = "gdb"
      BY <1>0, <1>5, <3>1, Launches DEF set_target_instret, SessionType
    <3>2. CASE frontend = "debug"
      BY ZenonT(30), <1>0, <1>5, <3>2, Launches DEF set_target_instret
    <3> QED
      BY <3>1, <3>2 DEF SessionType
  <2> QED
    BY <1>1, <1>2, <2>1, <2>2, <2>3 DEF StepInv, StepsExactly
<1>6. CASE run_until_stop_end
  <2>1. /\ UNCHANGED <<where, instret, retired, before, wanted>> /\ where = "host"
        /\ session = "running" /\ session' # "running" /\ session' # "resumed"
        /\ exec_mode' = exec_mode
    BY <1>6 DEF run_until_stop_end, control
  <2>2. exec_mode = "step"
    BY <1>0, <1>6, LiveContinueReturns DEF run_until_stop_end
  <2>3. retired = before + wanted
    BY ZenonT(30), <1>0, <2>1, <2>2, StepsEnd
  <2> QED
    BY <1>1, <2>1, <2>3 DEF StepInv, StepsExactly
<1>7. CASE (GuestExits \/ GuestRuns) /\ UNCHANGED debugger
  <2>1. GuestRuns /\ Guest /\ session = "running"
    BY ZenonT(30), <1>0, <1>7, GuestKeeps DEF GuestExits
  <2>2. ~has_exited'
    <3>1. ended' = (ended \/ has_exited')
      BY <2>1 DEF GuestRuns
    <3> QED
      BY <3>1, Zenon
  <2>3. UNCHANGED <<session, exec_mode, reported, before, wanted>>
    BY <1>7 DEF debugger
  <2>4. StepsExactly'
    BY <2>1, <2>3 DEF StepsExactly
  <2> QED
    BY <1>0, <1>1, <1>2, <2>1, <2>2, <2>3, <2>4, SteppedGuest DEF StepInv
<1>8. CASE UNCHANGED debugVars
  <2>1. UNCHANGED <<where, acc, instret, retired, target_instret, session, exec_mode, reported,
                    before, wanted>>
    BY ZenonT(30), <1>8 DEF debugVars, vars, control, rvstate, debugger
  <2> QED
    BY <1>0, <1>1, <2>1 DEF StepInv, StepsExactly
<1> QED
  BY ZenonT(30), <1>3, <1>4, <1>5, <1>6, <1>7, <1>8, Frames


\* Every step keeps what is known of the continue command.
LEMMA ContinueStep ==
  ASSUME SessionType, PositionInv, LiveInv, ContinueInv, [DebugNext]_debugVars
  PROVE  ContinueInv'
<1> SUFFICES ASSUME SteppedImage', frontend' = "debug", exec_mode' = "continue"
             PROVE  /\ session' = "resumed" /\ retired' # before' => pc' \notin breakpoints'
                    /\ session' = "running" /\ where' # "host" =>
                         /\ target_instret' = acc' + 1
                         /\ retired' # before' => blk' \notin breakpoints'
  BY DEF ContinueInv
<1>0. /\ SteppedImage /\ frontend = "debug" /\ Sound /\ FullInv /\ UNCHANGED image /\ suspends
      /\ (session # "running" => where = "host") /\ wanted \in Nat
  BY Frames, SteppedKept, SteppedHere DEF Sound, PositionInv, SessionType
<1>1. CASE Prompt /\ UNCHANGED <<vars, exit_code, ended>>
  <2>1. UNCHANGED <<pc, retired>>
    BY ZenonT(30), <1>1 DEF vars, rvstate
  <2>2. session' # "running" /\ (session' = "resumed" /\ retired # before' => pc \notin breakpoints')
    BY ZenonT(30), <1>1, <2>1 DEF Prompt, AddBreakpoint, RemoveBreakpoint, Command, Quit, on_interrupt,
       run_until_stop_at_breakpoint, execute_step_end, should_stop
  <2> QED
    BY <2>1, <2>2
<1>2. CASE write_registers \/ run_until_stop_end
  BY <1>0, <1>2 DEF write_registers, run_until_stop_end
<1>3. CASE Launch
  <2>1. /\ UNCHANGED <<exec_mode, before, breakpoints>>
    BY ZenonT(30), <1>3 DEF Launch, run_until_stop_start, execute_step
  <2>2. /\ session = "resumed" /\ session' = "running" /\ retired' = retired
        /\ where' = "host" \/ (where' = "entry" /\ blk' = pc /\ acc' = instret)
        /\ target_instret' = instret + wanted
    BY ZenonT(30), <1>0, <1>3, Launches DEF set_target_instret
  <2>3. wanted = 1
    BY <2>1 DEF SessionType
  <2> QED
    BY <1>0, <2>1, <2>2, <2>3 DEF ContinueInv
<1>4. CASE (GuestExits \/ GuestRuns) /\ UNCHANGED debugger
  <2>1. Guest /\ session = "running" /\ where # "host"
    BY <1>0, <1>4, GuestKeeps
  <2>2. UNCHANGED <<session, exec_mode, before, breakpoints>>
    BY <1>4 DEF debugger
  <2>3. target_instret = acc + 1 /\ (retired # before => blk \notin breakpoints)
    BY <1>0, <2>1, <2>2 DEF ContinueInv
  <2>4. acc \in Nat
    BY <1>0 DEF FullInv, IInv, TypeOK
  <2>5. \/ where' = "host"
        \/ UNCHANGED <<target_instret, acc, blk, retired>>
    BY <1>0, <2>1, <2>3, <2>4, SteppedGuest
  <2> QED
    BY <2>1, <2>2, <2>3, <2>5
<1>5. CASE UNCHANGED debugVars
  <2>1. UNCHANGED <<pc, retired, where, target_instret, acc, blk, session, exec_mode, before,
                    breakpoints>>
    BY <1>5 DEF debugVars, vars, control, rvstate, debugger
  <2> QED
    BY <1>0, <2>1 DEF ContinueInv
<1> QED
  BY <1>1, <1>2, <1>3, <1>4, <1>5, Frames

-----------------------------------------------------------------------------
\* The debuggers begin where the invariant holds.
LEMMA DebugInitInv ==
  ASSUME DebugInit
  PROVE  DebugInv
<1>1. WellFormed /\ ExecInit
  BY DEF DebugInit
<1>2. /\ frontend \in {"gdb", "debug"} /\ (frontend = "debug" => suspends)
  BY FrontendsAssumption DEF DebugInit
<1>3. pc = NoPc \/ pc \in DOMAIN code
  BY <1>2 DEF DebugInit
<1>4. pc \in Addresses /\ PcOK /\ (pc \in Pcs => pc \in DOMAIN code)
  BY <1>1, <1>3, NAssumption
     DEF WellFormed, WellFormedOn, ImageType, PcOK, dispatch_table, Pcs, NoPc, Addresses
<1>5. FullInv
  <2>1. TypeOK
    <3>1. has_exited \in BOOLEAN /\ cond \in BOOLEAN
      BY <1>1, Zenon DEF ExecInit
    <3> QED
      BY <1>1, <1>4, <3>1 DEF ExecInit, TypeOK
  <2>2. PICK F : F = DOMAIN code
    OBVIOUS
  <2>3. WellFormedOn(F) /\ PositionOK(F) /\ StackOK(F) /\ HostPcOK(F)
    BY <1>1, <1>4, <2>2 DEF ExecInit, PositionOK, StackOK, HostPcOK, WellFormed
  <2> QED
    BY <2>1, <2>2, <2>3 DEF FullInv, IInv
<1>6. SessionType
  <2>1. ended \in BOOLEAN
    BY Zenon DEF DebugInit
  <2> QED
    BY <1>1, <1>2, <2>1 DEF DebugInit, ExecInit, SessionType
<1>7. PositionInv
  BY ZenonT(30), <1>1, <1>4, <1>5 DEF PositionInv, ExecInit
<1>8. LiveInv
  BY SMTT(30), <1>1, BoundsAssumption DEF DebugInit, ExecInit, LiveInv, CountLow
<1>9. StepInv /\ ContinueInv
  BY <1>1 DEF DebugInit, ExecInit, StepInv, StepsExactly, ContinueInv
<1> QED
  BY <1>6, <1>7, <1>8, <1>9 DEF DebugInv

\* The invariant holds in every reachable state of every session.
THEOREM DebugInvariance == DebugSpec => []DebugInv
<1>1. DebugInit => DebugInv
  BY DebugInitInv
<1>2. DebugInv /\ [DebugNext]_debugVars => DebugInv'
  BY SessionTypeKept, PositionStep, LiveStep, StepStep, ContinueStep DEF DebugInv
<1> QED
  BY <1>1, <1>2, PTL DEF DebugSpec

\* A step of either debugger that leaves the guest alive has executed exactly as
\* many instructions as were asked for, whatever was done before it
\* (run_until_stop, execute_step).
THEOREM StepsCorrect == DebugSpec => []StepsExactly
<1>1. DebugInv => StepsExactly
  BY DEF DebugInv, StepInv, StepsExactly
<1> QED
  BY <1>1, DebugInvariance, PTL

\* No debugger reports an exit of a guest that has not exited: a suspension is
\* never mistaken for one (run_until_stop, execute_step).
THEOREM ExitsCorrect == DebugSpec => []ExitsReported
<1>1. DebugInv => ExitsReported
  BY DEF DebugInv, LiveInv, ExitsReported
<1> QED
  BY <1>1, DebugInvariance, PTL

\* The continue command of the interactive debugger executes no instruction at a
\* breakpoint but the one it starts from (handle_continue).
THEOREM ContinueCorrect == DebugSpec => InteractiveContinueStops
<1>1. ASSUME DebugInv, [DebugNext]_debugVars, frontend = "debug", SteppedImage,
             exec_mode = "continue", retired' # retired, retired # before
      PROVE  current_pc \notin breakpoints
  <2>1. SessionType /\ PositionInv /\ LiveInv /\ ContinueInv /\ Sound /\ FullInv
    BY ZenonT(30), <1>1 DEF DebugInv, Sound, PositionInv
  <2>2. GuestExits \/ GuestRuns
    <3>1. CASE Launch
      BY <1>1, <2>1, <3>1, Launches
    <3>2. CASE UNCHANGED retired
      BY <1>1, <3>2
    <3> QED
      BY ZenonT(30), <2>1, <1>1, <3>1, <3>2, Frames
         DEF vars, write_registers, run_until_stop_end, debugVars
  <2>3. Guest /\ session = "running" /\ where # "host"
    BY <1>1, <2>1, <2>2, Frames, GuestKeeps
  <2>4. where = "body"
    BY <1>1, <2>1, <2>3, SteppedGuest
  <2> QED
    BY <1>1, <2>1, <2>3, <2>4, SteppedHere DEF ContinueInv
<1>2. DebugInv /\ [DebugNext]_debugVars =>
        [frontend = "debug" /\ SteppedImage /\ exec_mode = "continue"
           /\ retired' # retired /\ retired # before => current_pc \notin breakpoints]_debugVars
  BY <1>1
<1> QED
  BY <1>2, DebugInvariance, PTL DEF DebugSpec, InteractiveContinueStops
=============================================================================
