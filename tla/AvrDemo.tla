------------------------------ MODULE AvrDemo ------------------------------
(***************************************************************************)
(* The demo program that both interfaces bring along: PB5 becomes an       *)
(* output, then follows PB0.                                               *)
(***************************************************************************)
EXTENDS AvrMcu

Op(op, d, s, k) ==
  [operation |-> op, destination_register |-> d, source_register |-> s,
   immediate |-> k, bit_index |-> 0, relative_offset |-> 0, target_address |-> 0]
Jump(op, offset) == [Op(op, 0, 0, 0) EXCEPT !.relative_offset = offset]
PinOp(op, port, bit) == [Op(op, 0, 0, port) EXCEPT !.bit_index = bit]

\* The demo around its two backward and forward jumps.
Demo(breq, rjmp) ==
  << Op("LDI", 16, 0, 32), Op("OUT", 0, 16, DDRB), Op("LDI", 18, 0, 1),
     Op("IN", 17, 0, PINB), Op("AND", 17, 18, 0), Jump("BREQ", breq),
     PinOp("SBI", PORTB, 5), Jump("RJMP", 1), PinOp("CBI", PORTB, 5),
     Jump("RJMP", rjmp) >>

\* Mutants of DemoProgram: it loops back behind the IN; BREQ jumps off its end;
\* BREQ jumps behind the CBI.
DemoSkipsInput == Demo(2, -6)
DemoBranchesBeyond == Demo(4, -7)
DemoSkipsClear == Demo(3, -7)

DemoProgram == Demo(2, -7)

\* What the interfaces assume of the flash.
DemoFits == Len(DemoProgram) <= FlashSize

\* load_demo
LoadDemoProgram == LoadProgram([n \in DOMAIN DemoProgram |-> Encode(DemoProgram[n])])
-----------------------------------------------------------------------------
(***************************************************************************)
(* What the demo promises: it implements AvrMirror.  A sample is in R17    *)
(* from the IN at 3 until the branch at 5 has turned it into a place in    *)
(* the program; until PB5 has been driven at 6 or 8 it is on its way.      *)
(***************************************************************************)
PinDriven == 5 \in portb \cap ddrb

Sampled == CASE pc \in {4, 5} -> 0 \in BitsOf(registers[17])
             [] pc = 6        -> TRUE
             [] pc = 8        -> FALSE
             [] OTHER         -> PinDriven
=============================================================================
