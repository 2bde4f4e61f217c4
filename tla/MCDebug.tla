------------------------------ MODULE MCDebug ------------------------------
(***************************************************************************)
(* A frontend that steps a machine with avr_debug_step_with_events.  Flash *)
(* is full of one instruction, so that it is executed again and again in   *)
(* the state it has brought about, until the pc has left flash or an       *)
(* operand check fails; the host has set the registers the instruction     *)
(* reads, and drives the pins between the steps.                           *)
(***************************************************************************)
EXTENDS AvrTracker

debugvars == <<vars, last_events>>

I(op, d, s, k) ==
  [operation |-> op, destination_register |-> d, source_register |-> s,
   immediate |-> k, bit_index |-> 0, relative_offset |-> 0, target_address |-> 0]

MCGarbage == {I("RET", 255, 255, 255)}
MCFlags == {{}, {"Z"}, {"I", "T", "C"}}
MCPorts == {{}, {5}, {0, 1, 2, 3, 4, 5, 6, 7}}

\* The instructions of each subject.  R0 and R31 are the ends of the register
\* loop, R26 is X.
Arithmetic ==
  {I("LDI", 31, 0, 255), I("CPI", 16, 0, 128)}
    \cup {I(op, 0, 16, 0) : op \in WithTwoRegisters}
    \cup {I(op, d, 0, 0) : op \in {"INC", "DEC"}, d \in {0, 16, 31}}
Memory == {I("LD", 0, 0, 0), I("LD", 26, 0, 0), I("ST", 0, 16, 0), I("ST", 0, 26, 0)}
PortCode ==
  {I("OUT", 0, 16, DDRB), I("OUT", 0, 16, PORTB), I("IN", 31, 0, PINB), I("IN", 0, 0, 3)}
    \cup {[I(op, 0, 0, k) EXCEPT !.bit_index = 5] : op \in PortBitOps, k \in {DDRB, PORTB}}
StackCode ==
  {I("PUSH", 0, 16, 0), I("POP", 31, 0, 0), I("RET", 0, 0, 0),
   [I("CALL", 0, 0, 0) EXCEPT !.target_address = 2]}
Jumps ==
  {[I(op, 0, 0, 0) EXCEPT !.relative_offset = r] :
     op \in Branches \cup {"RJMP"}, r \in {-64, -3, -1, 0, 1, 63}}

Words == {Encode(i) : i \in Arithmetic \cup Memory \cup PortCode \cup StackCode \cup Jumps}
           \cup {0}

Operation == IF Decodes(flash[0]) THEN DecodeOperation(flash[0]) ELSE "none"
Reading(ops, values, default) == IF Operation \in ops THEN values ELSE {default}

\* Machines that API calls set up.  Bound: only what the instruction reads
\* varies.
ByteReaders == WithTwoRegisters \cup {"INC", "DEC", "CPI", "ST", "OUT", "PUSH"}
PortReaders == PortTransfers \cup PortBitOps
StackUsers == {"PUSH", "POP", "CALL", "RET"}

MCInit ==
  /\ flash \in {[a \in FlashAddress |-> w] : w \in Words}
  /\ \E low \in Reading(WithTwoRegisters \cup {"INC", "DEC"}, HostBytes, 0),
        operand \in Reading(ByteReaders, HostBytes, 0),
        x \in Reading({"LD", "ST"}, HostWords \cap Byte, 0) :
       registers = [r \in Register |-> CASE r = 0  -> low
                                         [] r = 16 -> operand
                                         [] r = 26 -> x
                                         [] OTHER  -> 0]
  /\ sram = [a \in SramAddress |-> LowByte(a)]
  /\ pc \in {0, FlashSize - 1}
  /\ sreg \in HostFlags
  /\ sp \in Reading(StackUsers, HostWords, SramSize)
  /\ ddrb \in Reading(PortReaders, HostPorts, {})
  /\ portb \in Reading(PortReaders, HostPorts, {})
  /\ external_input \in Reading(PortReaders, HostPorts, {})
  /\ cycle_count = 0
  /\ breakpoints = {}
  /\ call = "write"
  /\ ret = TRUE
  /\ last_events = << >>

DrivePins ==
  /\ Operation \in PortReaders
  /\ \E bits \in HostPorts : WriteExternalInput(bits)
  /\ UNCHANGED last_events

MCNext == StepWithEvents \/ DrivePins

MCSpec == MCInit /\ [][MCNext]_debugvars
-----------------------------------------------------------------------------
\* What the log speaks of.
View ==
  [pc |-> pc, sreg |-> sreg, register |-> registers, sram |-> sram,
   ddrb |-> ddrb, portb |-> portb, pin |-> Pins]

Patch(view, event, value) ==
  CASE event.type = "io" /\ event.address = DDRB  -> [view EXCEPT !.ddrb = value]
    [] event.type = "io" /\ event.address = PORTB -> [view EXCEPT !.portb = value]
    [] event.type \in {"register", "sram"} ->
         [view EXCEPT ![event.type][event.address] = value]
    [] OTHER -> [view EXCEPT ![event.type] = value]

\* An observer applies the events it is given to what it saw before.
Redo(view, events) ==
  LET views[n \in 0..Len(events)] ==
        IF n = 0 THEN view
        ELSE Patch(views[n - 1], events[n], events[n].new_value)
  IN  views[Len(events)]

\* The events from the last to the first, each with its values exchanged.
Backwards(events) ==
  [n \in 1..Len(events) |->
     LET event == events[Len(events) + 1 - n]
     IN  Event(event.type, event.address, event.new_value, event.old_value)]
Undo(view, events) == Redo(view, Backwards(events))

\* The log is the whole difference a step makes: an observer who applies it to
\* what it saw before sees the machine after the step, and who takes it back
\* sees the machine before, also when the step fails.  In an instance whose
\* logs hold three events it follows that no step changes more than three
\* things, so that the 64 of the source are never exhausted
\* (avr_debug.c:381-448; README.md, Phase 10).
LogIsTheDifference ==
  [][call' = "step" => /\ Redo(View, last_events') = View'
                       /\ Undo(View', last_events') = View]_debugvars

\* A jump goes where both texts say it goes, or it is a branch that is not taken
\* (avr_debug.c:138-152 and 272-287 against avr_instruction.c:932-957), also
\* when the target wraps.
LastValue(text) == text.values[Len(text.values)].value
JumpsGoWhereTheTextsSay ==
  [][(call' = "step" /\ ret' /\ Operation \in Branches \cup {"RJMP", "CALL"}) =>
       LET i == Decode(flash[pc], CHOOSE garbage \in Garbage : TRUE)
       IN  /\ LastValue(Disassembled(i, pc)) = LastValue(Explained(i, pc))
           /\ \/ pc' = LastValue(Disassembled(i, pc))
              \/ Operation \in Branches /\ pc' = NextPc]_debugvars

\* Every change of a step but that of the pc is on the panel: nine rows are just
\* enough for a port direction and the eight pins it moves (avr_gui.c:508,
\* 522-555).
TrackerShowsAll ==
  \A n \in DOMAIN last_events :
    \A k \in DOMAIN RowsOf(last_events[n]) :
      \E row \in DOMAIN RowsDrawn(last_events) :
        RowsDrawn(last_events)[row] = RowsOf(last_events[n])[k]
=============================================================================
