------------------------------- MODULE AvrGui -------------------------------
(***************************************************************************)
(* The graphical interface avr_gui.c.  Each round of its main loop handles *)
(* all events that are waiting, executes one instruction when the machine  *)
(* is running and the time for it has come, draws, and sleeps.  A click on *)
(* a button does what its key does.  Drawing is left out, but for what the *)
(* change tracker shows.                                                   *)
(*                                                                         *)
(* Speeds are in quarters of a hertz and times in ticks of 1/16 s, so that *)
(* all speeds of the ladder 0.25, 0.5, ..., 16 and their intervals are     *)
(* whole numbers.                                                          *)
(***************************************************************************)
EXTENDS AvrTracker, AvrDemo

CONSTANTS
  InputBits,   \* the pins the user toggles, by key or by click
  FrameTicks   \* the durations of a frame
ASSUME GuiAssumption ==
  /\ DemoFits
  /\ InputBits \subseteq Bit
  /\ FrameTicks \subseteq Nat \ {0}

VARIABLES
  at,                \* the main loop: "load" | "events" | "frame" | "end"
  running,           \* state.running
  speed,             \* state.speed_hz
  elapsed,           \* now - state.last_step_ticks, up to SlowestInterval
  snapshot,          \* state.snapshot
  previous_pc,       \* state.previous_snapshot.pc, all the tracker uses of it
  quit,              \* state.quit
  stepped_pc         \* history: where the last executed instruction was

clock == <<speed, elapsed>>
screen == <<snapshot, previous_pc>>
guivars == <<vars, last_events, at, running, clock, screen, quit, stepped_pc>>

\* interval_ms: 0.25 Hz is 4 s, the longest.
Interval == 64 \div speed
SlowestInterval == 64

NoSnapshot == [pc |-> 0, snapshot_valid |-> FALSE]

\* gui_init, up to load_demo.
GuiInit ==
  /\ Init
  /\ last_events = << >>
  /\ at = "load"
  /\ running = FALSE
  /\ speed = 8
  /\ elapsed = 0
  /\ snapshot = NoSnapshot
  /\ previous_pc = 0
  /\ quit = FALSE
  /\ stepped_pc = 0

\* refresh_snapshot, at the end of a handler.
RefreshSnapshot ==
  /\ previous_pc' = snapshot.pc
  /\ snapshot' = Snapshot'

\* load_demo and the refresh behind it, at the start and after a reset.
LoadDemo ==
  /\ at = "load"
  /\ LoadDemoProgram
  /\ RefreshSnapshot
  /\ at' = "events"
  /\ UNCHANGED <<last_events, running, clock, quit, stepped_pc>>

\* step_once; what becomes of `running' is said by its callers.
StepOnce ==
  /\ StepWithEvents
  /\ RefreshSnapshot
  /\ stepped_pc' = pc
-----------------------------------------------------------------------------
(***************************************************************************)
(* The events: handle_key_down, handle_mouse_down and closing the window.  *)
(***************************************************************************)
StepKey ==
  /\ at = "events"
  /\ StepOnce
  /\ running' = FALSE
  /\ UNCHANGED <<at, clock, quit>>

RunKey ==
  /\ at = "events"
  /\ running' = ~running
  /\ UNCHANGED <<vars, last_events, at, clock, screen, quit, stepped_pc>>

\* Mutants of ResetKey: the tracker is not cleared; the flag of the loop is.
ResetKeyKeepsEvents ==
  /\ at = "events"
  /\ Reset
  /\ running' = FALSE
  /\ at' = "load"
  /\ UNCHANGED <<last_events, clock, screen, quit, stepped_pc>>

ResetKeyForgetsQuit ==
  /\ at = "events"
  /\ Reset
  /\ running' = FALSE
  /\ last_events' = << >>
  /\ quit' = FALSE
  /\ at' = "load"
  /\ UNCHANGED <<clock, screen, stepped_pc>>

\* reset_demo up to its load_demo; LoadDemo follows.
ResetKey ==
  /\ at = "events"
  /\ Reset
  /\ running' = FALSE
  /\ last_events' = << >>
  /\ at' = "load"
  /\ UNCHANGED <<clock, screen, quit, stepped_pc>>

\* The breakpoint toggled is at the address on the screen.  Nothing is
\* refreshed: the listing asks the machine for breakpoints when it is drawn.
BreakpointKey ==
  /\ at = "events"
  /\ IF HasBreakpoint(snapshot.pc) THEN ClearBreakpoint(snapshot.pc)
                                   ELSE SetBreakpoint(snapshot.pc)
  /\ UNCHANGED <<last_events, at, running, clock, screen, quit, stepped_pc>>

\* Mutant of SlowerKey: the change of speed starts the interval anew.
SlowerKeyRestarts ==
  /\ at = "events"
  /\ speed' = IF speed > 2 THEN speed \div 2 ELSE 1
  /\ elapsed' = 0
  /\ UNCHANGED <<vars, last_events, at, running, screen, quit, stepped_pc>>

SlowerKey ==
  /\ at = "events"
  /\ speed' = IF speed > 2 THEN speed \div 2 ELSE 1
  /\ UNCHANGED <<vars, last_events, at, running, elapsed, screen, quit, stepped_pc>>

FasterKey ==
  /\ at = "events"
  /\ speed' = IF speed < 32 THEN speed * 2 ELSE 64
  /\ UNCHANGED <<vars, last_events, at, running, elapsed, screen, quit, stepped_pc>>

\* Mutant of ToggleInput: the screen is not refreshed.
ToggleInputUnshown(bit) ==
  /\ at = "events"
  /\ WriteExternalInput(IF bit \in snapshot.external_input
                        THEN snapshot.external_input \ {bit}
                        ELSE snapshot.external_input \cup {bit})
  /\ UNCHANGED <<last_events, at, running, clock, screen, quit, stepped_pc>>

\* The input bits on the screen, with one of them flipped.
ToggleInput(bit) ==
  /\ at = "events"
  /\ WriteExternalInput(IF bit \in snapshot.external_input
                        THEN snapshot.external_input \ {bit}
                        ELSE snapshot.external_input \cup {bit})
  /\ RefreshSnapshot
  /\ UNCHANGED <<last_events, at, running, clock, quit, stepped_pc>>

InputKey(bit) == ToggleInput(bit)

\* Mutant of PinClick: outputs are not excepted.
PinClickAnywhere(bit) == ToggleInput(bit)

\* The rows of pins that the screen shows as inputs.
PinClick(bit) ==
  /\ at = "events"
  /\ bit \notin snapshot.ddrb
  /\ ToggleInput(bit)

\* `q', Escape, or the window is closed.
QuitEvent ==
  /\ at = "events"
  /\ quit' = TRUE
  /\ UNCHANGED <<vars, last_events, at, running, clock, screen, stepped_pc>>

HandleEvent ==
  \/ StepKey \/ RunKey \/ ResetKey \/ BreakpointKey \/ SlowerKey \/ FasterKey
  \/ QuitEvent
  \/ \E bit \in InputBits : InputKey(bit) \/ PinClick(bit)
-----------------------------------------------------------------------------
(***************************************************************************)
(* The rest of a round.                                                    *)
(***************************************************************************)
StepIsDue == running /\ elapsed >= Interval

TimedStep ==
  /\ at = "events"
  /\ at' = "frame"
  /\ StepIsDue
  /\ elapsed' = 0
  /\ StepOnce
  /\ running' = ret'
  /\ UNCHANGED <<speed, quit>>

NoStep ==
  /\ at = "events"
  /\ ~StepIsDue
  /\ at' = "frame"
  /\ UNCHANGED <<vars, last_events, running, clock, screen, quit, stepped_pc>>

\* SDL_PollEvent finds no event.
Drained == TimedStep \/ NoStep

\* The frame is drawn, and SDL_Delay sleeps.
NextFrame(ticks) ==
  /\ at = "frame"
  /\ elapsed' = IF elapsed + ticks < SlowestInterval THEN elapsed + ticks
                                                     ELSE SlowestInterval
  /\ at' = IF quit THEN "end" ELSE "events"
  /\ UNCHANGED <<vars, last_events, running, speed, screen, quit, stepped_pc>>

GuiNext == LoadDemo \/ HandleEvent \/ Drained \/ \E ticks \in FrameTicks : NextFrame(ticks)

\* The loop keeps going, and a user is slower than the loop: the queue of events
\* is empty again and again.  LoadDemo and NextFrame are the steps out of "load"
\* and "frame", Drained is the one from "events" to "frame".
Moves(from, to) == at = from /\ at' \in to
Fairness ==
  /\ WF_at(Moves("load", {"events"}) \/ Moves("frame", {"events", "end"}))
  /\ SF_at(Moves("events", {"frame"}))

GuiSpec == GuiInit /\ [][GuiNext]_guivars /\ Fairness
-----------------------------------------------------------------------------
(***************************************************************************)
(* Properties.                                                             *)
(***************************************************************************)

\* Between two events and when the frame is drawn, the snapshot is the machine as
\* it is: all handlers that change it refresh, in whatever order they come.
\* Breakpoints are excepted, they are read from the machine (avr_gui.c:277).
ScreenIsCurrent ==
  at \in {"events", "frame"} =>
    Snapshot = [snapshot EXCEPT !.breakpoint_at_pc = HasBreakpoint(pc)]

\* The change tracker never contradicts the panels beside it: what it says a
\* register, a byte or a port was set to is what is shown there, also after
\* resets and toggled inputs (avr_gui.c:503-562).  Pins and the pc may move on.
Shown(event) ==
  CASE event.type = "register" -> snapshot.registers[event.address]
    [] event.type = "sram"     -> snapshot.sram[event.address]
    [] event.type = "sreg"     -> snapshot.sreg
    [] event.type = "io"       -> IF event.address = DDRB THEN snapshot.ddrb
                                                          ELSE snapshot.portb
    [] OTHER                   -> event.new_value
TrackerAgreesWithPanels ==
  at \in {"events", "frame"} =>
    \A n \in DOMAIN last_events : Shown(last_events[n]) = last_events[n].new_value

\* A click on a pin that is drawn as an input moves that pin and no other: the
\* direction on the screen is still the machine's (avr_gui.c:682-696).
ClickMovesThePin ==
  [][\A bit \in InputBits : (at = "events" /\ PinClick(bit)) =>
       \A b \in Bit : (b \in Pins') # (b \in Pins) <=> b = bit]_guivars

\* Once the user has quit the loop ends, whatever events are still handled in the
\* same round, a reset included (avr_gui.c:821-845).
QuitEnds == quit ~> at = "end"

\* While the machine is left running it goes round the demo again and again,
\* however often the speed is changed: a change does not put off the step that
\* the interval has already been waited for (avr_gui.c:641-648, 832-841).
LeftRunning == running /\ at # "end"
RunsOn == <>[]LeftRunning => []<>(pc = 3) /\ []<>(pc = 9)

\* As in the terminal interface: PB5 is only ever driven to a level that PB0 had
\* when the program read it last, and settles at the level of a steady PB0
\* (avr_gui.c:78-89; README.md, Phase 11; plan/master-plan:94).
Mirror == INSTANCE AvrMirror
  WITH input <- 0 \in external_input, sampled <- Sampled, output <- PinDriven,
       running <- LeftRunning
MirrorsTheInput == Mirror!Spec
DemoMirrors == Mirror!Settles

\* avr_gui.c:519, on the panel "CHANGE TRACKER (THIS STEP)": the "Last
\* instruction", for which the code prints the instruction of the previous
\* snapshot, is the one whose changes are listed below it.
LastInstructionIsTracked ==
  (at = "frame" /\ last_events # << >>) => previous_pc = stepped_pc
=============================================================================
