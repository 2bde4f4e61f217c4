------------------------------- MODULE MCGui -------------------------------
(***************************************************************************)
(* The graphical interface with its demo.  To keep the instance small a    *)
(* user is occupied either with the speed or with the pins and breakpoints *)
(* of the machine; both step, run, reset and quit.                         *)
(***************************************************************************)
EXTENDS AvrGui

VARIABLE subject
mcvars == <<guivars, subject>>

MCGarbage == {Op("RET", 255, 255, 255)}

MCInit == GuiInit /\ subject \in {"speed", "pins"}

\* Bounds: one address for breakpoints; frames of half a second for the user of the
\* speed keys, and frames as long as any interval for the user of the pins.
BreakpointPc == 3

ForSpeed == SlowerKey \/ FasterKey \/ NextFrame(8)

ForPins ==
  \/ \E bit \in InputBits : InputKey(bit) \/ PinClick(bit)
  \/ BreakpointKey /\ breakpoints' \subseteq {BreakpointPc}
  \/ NextFrame(SlowestInterval)

ForBoth == LoadDemo \/ StepKey \/ RunKey \/ ResetKey \/ QuitEvent \/ Drained

MCNext ==
  /\ \/ subject = "speed" /\ ForSpeed
     \/ subject = "pins" /\ ForPins
     \/ ForBoth
  /\ UNCHANGED subject

MCSpec == MCInit /\ [][MCNext]_mcvars /\ Fairness
=============================================================================
