------------------------------- MODULE MCTui -------------------------------
(***************************************************************************)
(* The terminal interface with its demo, for a user who sets breakpoints   *)
(* on one instruction only, the IN of the tutorial, and toggles pins.      *)
(***************************************************************************)
EXTENDS AvrTui

\* What the demo's instructions leave in the decoder's struct is not read.
MCGarbage == {Op("RET", 255, 255, 255)}

BreakpointPc == 3

MCNext ==
  /\ TuiNext
  /\ breakpoints' \subseteq {BreakpointPc}

MCSpec == TuiInit /\ [][MCNext]_tuivars /\ WF_tuivars(MCNext)
=============================================================================
