------------------------------ MODULE AvrDebug ------------------------------
(***************************************************************************)
(* The observation layer avr_debug.c: the snapshot a frontend shows, and   *)
(* the log of what one step changed, which avr_debug_step_with_events      *)
(* gathers by comparing the snapshots before and after the step.           *)
(***************************************************************************)
EXTENDS AvrMcu, AvrDisassembly

CONSTANT EventLogCapacity   \* AVR_EVENT_LOG_CAPACITY, 64 in the source
ASSUME EventLogCapacityAssumption == EventLogCapacity \in Nat

\* The decoded instruction is a function of the word and is not kept; a word
\* that does not decode, or a pc beyond flash, is invalid.
Snapshot ==
  [pc |-> pc,
   instruction_word |-> IF pc < FlashSize THEN flash[pc] ELSE 0,
   instruction_valid |-> CanFetch,
   registers |-> registers,
   sreg |-> sreg,
   sram |-> sram,
   ddrb |-> ddrb,
   portb |-> portb,
   pinb |-> Pins,
   external_input |-> external_input,
   sp |-> sp,
   cycle_count |-> cycle_count,
   breakpoint_at_pc |-> HasBreakpoint(pc)]

\* AvrEvent; one is pushed for every comparison whose values differ.
Event(type, address, old, new) ==
  [type |-> type, address |-> address, old_value |-> old, new_value |-> new]
Differs(event) == event.old_value # event.new_value

\* Mutant of ComparedSram: the last byte is not compared.
ComparedSramShort(before, after) ==
  [n \in 1..(SramSize - 1) |-> Event("sram", n - 1, before.sram[n - 1], after.sram[n - 1])]

ComparedRegisters(before, after) ==
  [n \in 1..RegisterCount |->
     Event("register", n - 1, before.registers[n - 1], after.registers[n - 1])]
ComparedSram(before, after) ==
  [n \in 1..SramSize |-> Event("sram", n - 1, before.sram[n - 1], after.sram[n - 1])]

\* All comparisons in their order.  sp, cycle_count, external_input and the
\* breakpoint are in the snapshots but not compared.
Compared(before, after) ==
  <<Event("pc", 0, before.pc, after.pc), Event("sreg", 0, before.sreg, after.sreg)>>
  \o ComparedRegisters(before, after)
  \o ComparedSram(before, after)
  \o <<Event("io", DDRB, before.ddrb, after.ddrb),
       Event("io", PORTB, before.portb, after.portb),
       Event("pin", PINB, before.pinb, after.pinb)>>

\* push_event: an event that does not fit is dropped.
Pushed(log, event) == IF Len(log) < EventLogCapacity THEN Append(log, event) ELSE log

\* The log after the comparisons, made one after the other from an empty log.
Logged(comparisons) ==
  LET log[n \in 0..Len(comparisons)] ==
        IF n = 0 THEN << >>
        ELSE IF Differs(comparisons[n]) THEN Pushed(log[n - 1], comparisons[n])
        ELSE log[n - 1]
  IN  log[Len(comparisons)]
=============================================================================
