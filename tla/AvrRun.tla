------------------------------- MODULE AvrRun -------------------------------
(***************************************************************************)
(* avr_mcu_run: the loop that executes up to max_cycles instructions and   *)
(* stops early at a breakpoint or when avr_mcu_step fails.  One iteration  *)
(* of the loop is one step of this module.  The emulator has one thread,   *)
(* so while the loop is active the host makes no other call.               *)
(***************************************************************************)
EXTENDS AvrMcu

CONSTANT HostLimits   \* the values of max_cycles the host passes
ASSUME HostLimitsAssumption == HostLimits \subseteq Nat

VARIABLES
  running,        \* the host is inside avr_mcu_run
  executed,       \* the loop counter
  max_cycles,     \* the argument of the call
  result,         \* the AvrRunResult of the last finished call
  entry_cycles    \* history: cycle_count when the call was made

loop == <<running, executed, max_cycles, result, entry_cycles>>
runvars == <<vars, loop>>

StopReasons == {"cycle_limit", "breakpoint", "invalid_instruction"}

RunTypeOK ==
  /\ TypeOK
  /\ running \in BOOLEAN
  /\ executed \in Nat
  /\ max_cycles \in Nat
  /\ result \in [reason: StopReasons, cycles_executed: Nat]
  /\ entry_cycles \in 0..(CycleModulus - 1)

RunInit ==
  /\ Init
  /\ running = FALSE
  /\ executed = 0
  /\ max_cycles = 0
  /\ result = [reason |-> "invalid_instruction", cycles_executed |-> 0]
  /\ entry_cycles = 0

StartRun(limit) ==
  /\ ~running
  /\ running' = TRUE
  /\ executed' = 0
  /\ max_cycles' = limit
  /\ entry_cycles' = cycle_count
  /\ UNCHANGED <<result, vars>>

\* Mutants of AtBreakpoint: an off-by-one, and no exception for the start.
AtLaterBreakpoint == executed > 1 /\ HasBreakpoint(pc)
AtAnyBreakpoint == HasBreakpoint(pc)

\* A breakpoint where the run starts does not stop it.
AtBreakpoint == executed > 0 /\ HasBreakpoint(pc)

\* The function returns: its locals are gone.
Finish(reason, count) ==
  /\ running' = FALSE
  /\ result' = [reason |-> reason, cycles_executed |-> count]
  /\ executed' = 0
  /\ max_cycles' = 0
  /\ entry_cycles' = 0

StopAtLimit ==
  /\ running
  /\ executed >= max_cycles
  /\ Finish("cycle_limit", max_cycles)
  /\ UNCHANGED vars

StopAtBreakpoint ==
  /\ running
  /\ executed < max_cycles
  /\ AtBreakpoint
  /\ Finish("breakpoint", executed)
  /\ UNCHANGED vars

\* Mutant of Iterate: the loop counter is not advanced.
IterateUncounted ==
  /\ running
  /\ executed < max_cycles
  /\ ~AtBreakpoint
  /\ Step
  /\ \/ ret' /\ UNCHANGED <<running, executed, max_cycles, result, entry_cycles>>
     \/ ~ret' /\ Finish("invalid_instruction", executed)

\* One call of avr_mcu_step; a failing one ends the run.
Iterate ==
  /\ running
  /\ executed < max_cycles
  /\ ~AtBreakpoint
  /\ Step
  /\ \/ /\ ret'
        /\ executed' = executed + 1
        /\ UNCHANGED <<running, max_cycles, result, entry_cycles>>
     \/ /\ ~ret'
        /\ Finish("invalid_instruction", executed)

HostCall ==
  /\ ~running
  /\ Next
  /\ UNCHANGED loop

Loop == StopAtLimit \/ StopAtBreakpoint \/ Iterate

RunNext == (\E limit \in HostLimits : StartRun(limit)) \/ Loop \/ HostCall

\* The loop of a call that has started keeps going; nothing obliges the host
\* to make a call.
RunSpec == RunInit /\ [][RunNext]_runvars /\ WF_runvars(Loop)
-----------------------------------------------------------------------------
(***************************************************************************)
(* Properties.                                                             *)
(***************************************************************************)

\* The loop counter is the number of instructions that really retired since the
\* call: cycle_count, kept separately by avr_mcu_step, has moved by as much
\* (avr_mcu.c:390 and 440), also across the wrap of the 32-bit counter.
CountsEveryCycle ==
  running => cycle_count = (entry_cycles + executed) % CycleModulus

\* The result tells the truth about the machine the host gets back: the reason
\* is the condition that holds there, and at a breakpoint something has been
\* executed, so resuming makes progress.
ResultIsTrue ==
  [][(running /\ ~running') =>
       /\ result'.reason = "cycle_limit" =>
            result'.cycles_executed = max_cycles
       /\ result'.reason = "breakpoint" =>
            /\ HasBreakpoint(pc)'
            /\ result'.cycles_executed \in 1..(max_cycles - 1)
       /\ result'.reason = "invalid_instruction" =>
            /\ result'.cycles_executed < max_cycles
            /\ CanFetch' => ~Accepts(Decode(flash[pc], CHOOSE g \in Garbage : TRUE))'
       /\ cycle_count' = (entry_cycles + result'.cycles_executed) % CycleModulus]_runvars

\* Every call of avr_mcu_run returns.
RunReturns == running ~> ~running
=============================================================================
