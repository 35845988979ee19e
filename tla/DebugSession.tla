--------------------------- MODULE DebugSession ----------------------------
(***************************************************************************)
(* The two debuggers over the generated code: the GDB remote target        *)
(* (crates/rvr/src/gdb/target.rs) and the interactive debugger of          *)
(* `rvr run --debug` (crates/rvr/src/commands/run.rs).  Both set           *)
(* target_instret, call execute_from and decide from RvState what to tell  *)
(* their user.                                                             *)
(*                                                                         *)
(* frontend     "gdb" or "debug"                                           *)
(* exit_code    RvState.exit_code                                          *)
(* session      "idle" at the prompt, "resumed" about to execute,          *)
(*              "running" inside execute_from, "closed"                    *)
(* exec_mode    "continue" or "step", the command being served             *)
(* reported     what the user was told last                                *)
(* wanted       the number of instructions a step asks for                 *)
(* before       ghost: instructions executed before the command            *)
(* ended        ghost: the guest has exited                                *)
(***************************************************************************)
EXTENDS EmittedCode

CONSTANTS Frontends,   \* the debuggers to run
          MaxStep      \* bound on the argument of the step command

ASSUME FrontendsAssumption ==
  Frontends \subseteq {"gdb", "debug"} /\ MaxStep \in Nat \ {0}

VARIABLES frontend, exit_code, breakpoints, session, exec_mode, reported,
          wanted, before, ended

debugger == <<frontend, breakpoints, session, exec_mode, reported, wanted, before>>
debugVars == <<vars, exit_code, debugger, ended>>

\* u64::MAX: no run is that long.
NoTarget == MaxRetired + 1

\* Mutated form: the breakpoints are not consulted.
should_stop_never == FALSE

should_stop == pc \in breakpoints

\* The target is only looked at by code compiled to suspend.
set_target_instret(n) == target_instret' = IF suspends THEN n ELSE target_instret

\* Runner::execute_from(get_pc()), called with has_exited and exit_code as given.
execute_from(flag, exited_with) ==
  /\ session' = "running"
  /\ launch' = instret
  /\ IF dispatch_table(pc) # NoPc
       THEN /\ where' = "entry" /\ blk' = dispatch_table(pc)
            /\ idx' = 0 /\ acc' = instret
            /\ has_exited' = flag /\ exit_code' = exited_with
            /\ UNCHANGED <<pc, instret, ended>>
       ELSE /\ ExitAt(pc, instret)
            /\ exit_code' = 1
            /\ ended' = TRUE
  /\ UNCHANGED <<image, cond, stack, retired>>

-----------------------------------------------------------------------------
(* The user. *)

\* add_sw_breakpoint and handle_break, remove_sw_breakpoint and handle_delete.
AddBreakpoint ==
  /\ session = "idle"
  /\ \E a \in Pcs \ breakpoints : breakpoints' = breakpoints \cup {a}
  /\ UNCHANGED <<vars, exit_code, frontend, session, exec_mode, reported, wanted, before, ended>>

RemoveBreakpoint ==
  /\ session = "idle"
  /\ \E a \in breakpoints : breakpoints' = breakpoints \ {a}
  /\ UNCHANGED <<vars, exit_code, frontend, session, exec_mode, reported, wanted, before, ended>>

\* write_registers: a GDB client moves the pc to where there is code.
write_registers ==
  /\ session = "idle"
  /\ frontend = "gdb"
  /\ pc' \in DOMAIN code
  /\ UNCHANGED <<image, control, instret, has_exited, target_instret, cond, stack,
                 retired, launch, exit_code, debugger, ended>>

\* resume and step of the GDB target, the continue and step commands.
Command ==
  /\ session = "idle"
  /\ session' = "resumed"
  /\ exec_mode' \in {"continue", "step"}
  /\ wanted' \in IF exec_mode' = "step" /\ frontend = "debug" THEN 0 .. MaxStep ELSE {1}
  /\ before' = retired
  /\ UNCHANGED <<vars, exit_code, frontend, breakpoints, reported, ended>>

\* quit, or the client disconnects.
Quit ==
  /\ session = "idle"
  /\ session' = "closed"
  /\ UNCHANGED <<vars, exit_code, frontend, breakpoints, exec_mode, reported, wanted,
                 before, ended>>

\* wait_for_stop_reason finds incoming data, on_interrupt answers it.
on_interrupt ==
  /\ session = "resumed"
  /\ frontend = "gdb"
  /\ session' = "idle"
  /\ reported' = "signal"
  /\ UNCHANGED <<vars, exit_code, frontend, breakpoints, exec_mode, wanted, before, ended>>

-----------------------------------------------------------------------------
(* GdbTargetCore::run_until_stop. *)

run_until_stop_at_breakpoint ==
  /\ session = "resumed"
  /\ frontend = "gdb"
  /\ should_stop
  /\ session' = "idle"
  /\ reported' = "sw_breakpoint"
  /\ UNCHANGED <<vars, exit_code, frontend, breakpoints, exec_mode, wanted, before, ended>>

run_until_stop_start ==
  /\ session = "resumed"
  /\ frontend = "gdb"
  /\ ~should_stop
  /\ set_target_instret(IF exec_mode = "step" THEN instret + 1 ELSE NoTarget)
  /\ execute_from(has_exited, exit_code)
  /\ UNCHANGED <<frontend, breakpoints, exec_mode, reported, wanted, before>>

\* Mutated form: the target itself is not enough.
stepped_past == exit_code = 0 /\ instret > target_instret

\* "Check if we suspended": the flag itself is not read.
stepped == exit_code = 0 /\ instret >= target_instret

\* The stop reason after execute_from.  An exit ends the session.
run_until_stop_end ==
  /\ session = "running" /\ where = "host"
  /\ frontend = "gdb"
  /\ \/ /\ exec_mode = "step" /\ suspends /\ stepped
        /\ reported' = "done_step"
        /\ session' = "idle"
        /\ has_exited' = FALSE /\ exit_code' = 0
     \/ /\ exec_mode = "continue" /\ should_stop
        /\ reported' = "sw_breakpoint"
        /\ session' = "idle"
        /\ UNCHANGED <<has_exited, exit_code>>
     \/ /\ \/ exec_mode = "step" /\ ~(suspends /\ stepped)
           \/ exec_mode = "continue" /\ ~should_stop
        /\ reported' = "exited"
        /\ session' = "closed"
        /\ UNCHANGED <<has_exited, exit_code>>
  /\ UNCHANGED <<image, control, pc, instret, target_instret, cond, stack, retired, launch,
                 frontend, breakpoints, exec_mode, wanted, before, ended>>

-----------------------------------------------------------------------------
(* The interactive debugger. *)

\* Mutated form: the count is taken for the target.
StepTargetAbsolute(n) == n

StepTarget(n) == instret + n

\* execute_step up to the call.
execute_step ==
  /\ session = "resumed"
  /\ frontend = "debug"
  /\ set_target_instret(StepTarget(wanted))
  /\ execute_from(FALSE, 0)
  /\ UNCHANGED <<frontend, breakpoints, exec_mode, reported, wanted, before>>

\* execute_step after the call, and handle_continue's loop around it.
execute_step_end ==
  /\ session = "running" /\ where = "host"
  /\ frontend = "debug"
  /\ \/ /\ exit_code # 0
        /\ reported' = "exited" /\ session' = "closed"
     \/ /\ exit_code = 0 /\ exec_mode = "step"
        /\ reported' = "stepped" /\ session' = "idle"
     \/ /\ exit_code = 0 /\ exec_mode = "continue" /\ should_stop
        /\ reported' = "breakpoint" /\ session' = "idle"
     \/ /\ exit_code = 0 /\ exec_mode = "continue" /\ ~should_stop
        /\ session' = "resumed"
        /\ UNCHANGED reported
  /\ UNCHANGED <<vars, exit_code, frontend, breakpoints, exec_mode, wanted, before, ended>>

-----------------------------------------------------------------------------
(* The guest.  It exits with a code of its own, or with 1 at an address    *)
(* that has no code.  A flag left over from an earlier exit is found by    *)
(* the first exit check.                                                   *)

GuestExits ==
  /\ ExitStatement \/ LastExit
  /\ exit_code' \in {0, 1}
  /\ ended' = TRUE
  /\ UNCHANGED debugger

GuestRuns ==
  /\ \/ BlockEntry
     \/ MidInstr
     \/ MidBranchTaken
     \/ LastFall
     \/ LastJump
     \/ LastBranch
     \/ OpenInline
     \/ LastRet
  /\ where # "entry" /\ has_exited => instr.op \notin ExitingOps
  /\ exit_code' \in IF where' # "host" \/ ~has_exited' THEN {exit_code}
                    ELSE IF has_exited THEN {exit_code, 1} ELSE {1}
  /\ ended' = (ended \/ has_exited')
  /\ UNCHANGED debugger

-----------------------------------------------------------------------------
\* GdbServer::run prepares the runner, which leaves the pc at 0; the
\* interactive debugger refuses code that does not suspend, and may have loaded
\* a saved state.
DebugInit ==
  /\ \E i \in Images :
       /\ prog = i.prog
       /\ code = i.code
       /\ absorbed_to_merged = i.absorbed_to_merged
       /\ taken_inlines = i.taken_inlines
       /\ instret_mode = i.instret_mode
  /\ WellFormed
  /\ ExecInit
  /\ frontend \in IF suspends THEN Frontends ELSE Frontends \ {"debug"}
  /\ pc \in IF frontend = "gdb" THEN {NoPc} ELSE {NoPc} \cup DOMAIN code
  /\ exit_code = 0 /\ breakpoints = {} /\ session = "idle"
  /\ exec_mode = "continue" /\ reported = "nothing" /\ wanted = 1
  /\ before = 0 /\ ended = FALSE

DebugNext ==
  \/ AddBreakpoint
  \/ RemoveBreakpoint
  \/ write_registers
  \/ Command
  \/ Quit
  \/ on_interrupt
  \/ run_until_stop_at_breakpoint
  \/ run_until_stop_start
  \/ run_until_stop_end
  \/ execute_step
  \/ execute_step_end
  \/ GuestExits
  \/ GuestRuns

DebugSpec == DebugInit /\ [][DebugNext]_debugVars

-----------------------------------------------------------------------------
(* Properties. *)

\* Code compiled for per-instruction suspension in which no branch has its taken
\* path inlined: such a branch is neither counted nor followed by a check.
SteppedImage == per_instruction /\ \A b \in DOMAIN code : ~HasInline(b)

\* In code compiled for per-instruction suspension, without inlined paths, a
\* step of either debugger that leaves the guest alive has executed as many
\* instructions as were asked for, neither more nor fewer (run_until_stop,
\* execute_step).
StepsExactly ==
  /\ session = "idle" /\ exec_mode = "step" /\ reported \in {"done_step", "stepped"}
  /\ SteppedImage /\ ~ended
  => retired = before + wanted

\* The continue command of the interactive debugger executes no instruction at
\* a breakpoint but the one it starts from (handle_continue), in the same code.
InteractiveContinueStops ==
  [][frontend = "debug" /\ SteppedImage /\ exec_mode = "continue"
       /\ retired' # retired /\ retired # before => current_pc \notin breakpoints]_debugVars

\* The user is told of an exit only when the guest has exited: no suspension is
\* mistaken for one (run_until_stop, execute_step).
ExitsReported == reported = "exited" => ended
=============================================================================
