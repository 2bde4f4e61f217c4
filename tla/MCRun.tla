------------------------------- MODULE MCRun -------------------------------
(***************************************************************************)
(* avr_mcu_run on small programs, under a host that between two runs loads *)
(* a program, moves the pc, sets and clears breakpoints, steps by hand or  *)
(* resets.  Its other calls do not concern the run loop and are left out.  *)
(***************************************************************************)
EXTENDS AvrRun, Sequences

VARIABLE trail   \* history: the pcs of the instructions the call has executed

trailvars == <<runvars, trail>>

I(op, d, s, k) ==
  [operation |-> op, destination_register |-> d, source_register |-> s,
   immediate |-> k, bit_index |-> 0, relative_offset |-> 0, target_address |-> 0]
Relative(op, r) == [I(op, 0, 0, 0) EXCEPT !.relative_offset = r]

\* A loop that a flag ends, after which the pc runs off flash; and a straight
\* line into a word that does not decode.
MCPrograms ==
  { << Encode(I("EOR", 16, 16, 0)), Encode(I("CPI", 16, 0, 1)),
       Encode(Relative("BRNE", -2)) >>,
    << Encode(I("LDI", 16, 0, 1)), Encode(Relative("RJMP", 0)), 65535 >> }

MCGarbage == {I("RET", 255, 255, 255)}

Host ==
  \/ \E program \in HostPrograms : LoadProgram(program)
  \/ \E a \in HostWords : SetBreakpoint(a) \/ ClearBreakpoint(a)
  \/ WritePc(0)
  \/ Step
  \/ Reset

MCHostCall == ~running /\ Host /\ UNCHANGED loop

MCNext == (\E limit \in HostLimits : StartRun(limit)) \/ Loop \/ MCHostCall

\* No call executes more than its limit; that of one too many would be seen.
TrailNext ==
  trail' = IF ~running \/ ~running' THEN <<>>
           ELSE IF Len(trail) <= max_cycles THEN Append(trail, pc) ELSE trail

TrailInit == RunInit /\ trail = <<>>

\* The run loop under any host, and under the one above.
TrailSpec == TrailInit /\ [][RunNext /\ TrailNext]_trailvars
MCSpec == TrailInit /\ [][MCNext /\ TrailNext]_trailvars /\ WF_trailvars(Loop /\ TrailNext)
-----------------------------------------------------------------------------
\* The machine had come to a breakpoint, k instructions after the call.
CameToBreakpoint(k) ==
  HasBreakpoint(IF k < Len(trail) THEN trail[k + 1] ELSE pc)

\* A call ends at the first reason to end, and names it, whatever path it took:
\* it has executed exactly the instructions it counts, none after the first
\* but from an address without breakpoint, also when it came back to where it
\* started; a limit goes before a breakpoint, and a breakpoint before a word
\* that cannot be executed (avr_mcu.c:440-464).
EndsAtTheFirstReason ==
  [][(running /\ ~running') =>
       LET n == Len(trail)
       IN  /\ result'.cycles_executed = n
           /\ n <= max_cycles
           /\ \A k \in 1..(n - 1) : ~CameToBreakpoint(k)
           /\ result'.reason =
                CASE n = max_cycles -> "cycle_limit"
                  [] n # max_cycles /\ n > 0 /\ CameToBreakpoint(n) -> "breakpoint"
                  [] OTHER -> "invalid_instruction"]_trailvars
=============================================================================
