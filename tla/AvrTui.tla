------------------------------- MODULE AvrTui -------------------------------
(***************************************************************************)
(* The terminal interface avr_tui.c: its main loop, which runs the machine *)
(* in batches through avr_mcu_run, and its keys.  Drawing is left out, and *)
(* with it the previous snapshot, which only chooses what is highlighted.  *)
(***************************************************************************)
EXTENDS AvrRun, AvrDebug, AvrDemo

CONSTANT InputKeys   \* the keys '0'..'7' the user presses
ASSUME TuiAssumption == DemoFits /\ InputKeys \subseteq Bit

VARIABLES
  at,           \* the main loop: "load" | "top" | "batch" | "key" | "end"
  tui_running,  \* state.running
  snapshot,     \* state.snapshot
  status        \* state.status

tuivars == <<runvars, at, tui_running, snapshot, status>>

TUI_RUN_BATCH_SIZE == 1

NoSnapshot == [snapshot_valid |-> FALSE]

TuiInit ==
  /\ RunInit
  /\ at = "load"
  /\ tui_running = FALSE
  /\ snapshot = NoSnapshot
  /\ status = "loaded"

\* refresh_snapshot, at the end of a handler.
RefreshSnapshot == snapshot' = Snapshot'

\* load_demo and the refresh behind it, at the start and after a reset.
LoadDemo ==
  /\ at = "load"
  /\ LoadDemoProgram
  /\ RefreshSnapshot
  /\ at' = "top"
  /\ UNCHANGED <<loop, tui_running, status>>
-----------------------------------------------------------------------------
(***************************************************************************)
(* The main loop.                                                          *)
(***************************************************************************)
BeginIteration ==
  /\ at = "top"
  /\ IF tui_running THEN StartRun(TUI_RUN_BATCH_SIZE) /\ at' = "batch"
                    ELSE UNCHANGED runvars /\ at' = "key"
  /\ UNCHANGED <<tui_running, snapshot, status>>

\* Inside avr_mcu_run.
Batch ==
  /\ at = "batch"
  /\ Loop
  /\ UNCHANGED <<at, tui_running, snapshot, status>>

StoppedBy ==
  [cycle_limit |-> status, breakpoint |-> "breakpoint", invalid_instruction |-> "invalid"]

EndBatch ==
  /\ at = "batch"
  /\ ~running
  /\ tui_running' = (result.reason = "cycle_limit")
  /\ status' = StoppedBy[result.reason]
  /\ UNCHANGED runvars
  /\ RefreshSnapshot
  /\ at' = "key"

\* getch does not block: without a key the loop goes round.
NoKey ==
  /\ at = "key"
  /\ at' = "top"
  /\ UNCHANGED <<runvars, tui_running, snapshot, status>>

QuitKey ==
  /\ at = "key"
  /\ at' = "end"
  /\ UNCHANGED <<runvars, tui_running, snapshot, status>>

StepKey ==
  /\ at = "key"
  /\ Step
  /\ tui_running' = FALSE
  /\ status' = IF ret' THEN "stepped" ELSE "invalid"
  /\ RefreshSnapshot
  /\ at' = "top"
  /\ UNCHANGED loop

RunKey ==
  /\ at = "key"
  /\ tui_running' = ~tui_running
  /\ status' = IF tui_running THEN "paused" ELSE "running"
  /\ at' = "top"
  /\ UNCHANGED <<runvars, snapshot>>

\* The reset of reset_demo; LoadDemo follows.
ResetKey ==
  /\ at = "key"
  /\ Reset
  /\ tui_running' = FALSE
  /\ status' = "reset"
  /\ at' = "load"
  /\ UNCHANGED <<loop, snapshot>>

\* The breakpoint toggled is at the address on the screen.
ToggleBreakpoint ==
  IF HasBreakpoint(snapshot.pc)
  THEN ClearBreakpoint(snapshot.pc) /\ status' = "breakpoint cleared"
  ELSE SetBreakpoint(snapshot.pc) /\ status' = "breakpoint set"

\* Mutant of BreakpointKey: the screen is not refreshed.
BreakpointKeyUnshown ==
  /\ at = "key"
  /\ ToggleBreakpoint
  /\ at' = "top"
  /\ UNCHANGED <<loop, tui_running, snapshot>>

BreakpointKey ==
  /\ at = "key"
  /\ ToggleBreakpoint
  /\ RefreshSnapshot
  /\ at' = "top"
  /\ UNCHANGED <<loop, tui_running>>

\* The input bits on the screen, with one of them flipped.
InputKey(bit) ==
  /\ at = "key"
  /\ WriteExternalInput(IF bit \in snapshot.external_input
                        THEN snapshot.external_input \ {bit}
                        ELSE snapshot.external_input \cup {bit})
  /\ status' = "input"
  /\ RefreshSnapshot
  /\ at' = "top"
  /\ UNCHANGED <<loop, tui_running>>

Keys == NoKey \/ QuitKey \/ StepKey \/ RunKey \/ ResetKey \/ BreakpointKey
          \/ \E bit \in InputKeys : InputKey(bit)

TuiNext == LoadDemo \/ BeginIteration \/ Batch \/ EndBatch \/ Keys

\* The loop never blocks.  No key is owed.
TuiSpec == TuiInit /\ [][TuiNext]_tuivars /\ WF_tuivars(TuiNext)
-----------------------------------------------------------------------------
(***************************************************************************)
(* Properties.                                                             *)
(***************************************************************************)

\* Whenever the loop draws and reads a key, the snapshot is the machine as it
\* is: every handler that changed it has refreshed.  The `b' and digit keys
\* compute what they write from the snapshot (avr_tui.c:366-386).
ScreenIsCurrent == at = "key" => snapshot = Snapshot

\* The demo never leaves its own code, whatever keys are pressed: the machine
\* is never stopped by an invalid instruction (avr_tui.c:30-41).
DemoNeverFails == status # "invalid"

\* README.md, Phase 11: the demo "continuously mirrors virtual input PB0" to PB5.
\* Whatever keys are pressed, PB5 is only ever driven to a level that PB0 had
\* when the program read it last; and while the demo is left running with PB0
\* held, PB5 settles at the same level (avr_tui.c:30-41).
LeftRunning == tui_running /\ at # "end"
Mirror == INSTANCE AvrMirror
  WITH input <- 0 \in external_input, sampled <- Sampled, output <- PinDriven,
       running <- LeftRunning
MirrorsTheInput == Mirror!Spec
DemoMirrors == Mirror!Settles

\* TUI-README.md, section 6: the running program pauses when it arrives at a
\* breakpoint.
PausesAtBreakpoint == (at = "key" /\ tui_running) => ~HasBreakpoint(pc)
=============================================================================
