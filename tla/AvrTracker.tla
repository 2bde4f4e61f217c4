----------------------------- MODULE AvrTracker -----------------------------
(***************************************************************************)
(* The change tracker of the graphical interface: the log of the last step *)
(* it keeps, and the rows draw_change_tracker gives it on the panel.  A    *)
(* pin event takes one row for each pin that moved, the program counter    *)
(* takes none.                                                             *)
(***************************************************************************)
EXTENDS AvrDebug

VARIABLE last_events   \* state.last_events

\* avr_debug_step_with_events on the machine and the log of the interface: the
\* log is cleared first, and filled only when the step succeeds.
StepWithEvents ==
  /\ Step
  /\ \E comparisons \in {Compared(Snapshot, Snapshot')} :
       last_events' = IF ret' THEN Logged(comparisons) ELSE << >>

\* Mutant of MaxRows: a panel one row shorter.
MaxRowsLess == 8

MaxRows == 9

PinsMoved(event) ==
  {bit \in Bit : (bit \in event.old_value) # (bit \in event.new_value)}

PinRows(event) ==
  LET rows[n \in 0..8] ==
        IF n = 0 THEN << >>
        ELSE IF n - 1 \in PinsMoved(event)
             THEN Append(rows[n - 1], [event |-> event, pin |-> n - 1])
        ELSE rows[n - 1]
  IN  rows[8]

RowsOf(event) ==
  CASE event.type = "pc"  -> << >>
    [] event.type = "pin" -> PinRows(event)
    [] OTHER              -> <<[event |-> event, pin |-> 0]>>

\* The rows in their order; those that are drawn are the first ones.
Rows(events) ==
  LET rows[n \in 0..Len(events)] ==
        IF n = 0 THEN << >> ELSE rows[n - 1] \o RowsOf(events[n])
  IN  rows[Len(events)]
RowsDrawn(events) ==
  LET rows == Rows(events)
  IN  SubSeq(rows, 1, IF Len(rows) < MaxRows THEN Len(rows) ELSE MaxRows)
=============================================================================
