----------------------------- MODULE AvrMirror -----------------------------
(***************************************************************************)
(* What the bundled demo promises its user: it "continuously mirrors       *)
(* virtual input PB0" to the output PB5 (README.md, Phase 11).  The input  *)
(* is looked at from time to time; the output takes the level of the last  *)
(* look, and the input is not looked at again before it has.               *)
(***************************************************************************)
VARIABLES
  input,    \* the level the user gives PB0
  sampled,  \* the level of PB0 when the program looked last
  output,   \* the level the program drives PB5 to
  running   \* the user leaves the program running

mirror == <<input, sampled, output>>

Init == input = FALSE /\ sampled = FALSE /\ output = FALSE

Toggle == input' = ~input /\ UNCHANGED <<sampled, output>>
Sample == sampled = output /\ sampled' = input /\ UNCHANGED <<input, output>>
Drive == output' = sampled /\ UNCHANGED <<input, sampled>>
Reset == input' = FALSE /\ sampled' = FALSE /\ output' = FALSE

Next == Toggle \/ Sample \/ Drive \/ Reset

\* The output moves only to a level the input had when it was looked at.
Spec == Init /\ [][Next]_mirror

\* While the program is left running with a steady input, the output settles at
\* the level of the input.
Settles ==
  /\ <>[](running /\ input) => <>[]output
  /\ <>[](running /\ ~input) => <>[]~output
=============================================================================
