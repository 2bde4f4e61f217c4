------------------------------ MODULE MCStack ------------------------------
(***************************************************************************)
(* Programs that only use the stack and store through X, on a small SRAM,  *)
(* as an implementation of AvrStack.  The host never writes sp or SRAM     *)
(* itself, and never exceeds what the instructions check.                  *)
(***************************************************************************)
EXTENDS AvrMcu

VARIABLES
  moved,   \* history: what the last stack instruction moved
  live     \* history: the addresses of the bytes pushed and not yet popped

stackvars == <<vars, moved, live>>

I(op, d, s) ==
  [operation |-> op, destination_register |-> d, source_register |-> s,
   immediate |-> 0, bit_index |-> 0, relative_offset |-> 0, target_address |-> 0]

MCInstructions ==
  {I("PUSH", 0, 16), I("POP", 17, 0), I("CALL", 0, 0), I("RET", 0, 0),
   I("ST", 0, 16)}

MCGarbage == {I("RET", 0, 0)}

\* As in AvrStack: the last call was no stack instruction.
Nothing == -1

\* The address the host puts the pc at; its return address has two distinct bytes.
Origin == 258

MCInit == Init /\ moved = Nothing /\ live = {}

Execute1(i) ==
  /\ pc = Origin
  /\ ExecuteInstruction(i)
  /\ moved' = IF ~ret' THEN Nothing
              ELSE CASE i.operation = "PUSH" -> registers[i.source_register]
                     [] i.operation = "CALL" -> ToWord(pc + 1)
                     [] i.operation = "POP"  -> registers'[i.destination_register]
                     [] i.operation = "RET"  -> pc'
                     [] OTHER                -> Nothing
  /\ live' = IF ~ret' THEN live
             ELSE CASE i.operation = "PUSH" -> live \cup {sp - 1}
                    [] i.operation = "CALL" -> live \cup {sp - 1, sp - 2}
                    [] i.operation = "POP"  -> live \ {sp}
                    [] i.operation = "RET"  -> live \ {sp, sp + 1}
                    [] OTHER                -> live

HostMove ==
  /\ \/ WritePc(Origin)
     \/ \E value \in HostBytes : WriteRegister(16, value)
     \/ \E low \in HostWords \cap Byte : WriteRegister(26, low)
  /\ moved' = Nothing
  /\ UNCHANGED live

HostReset == Reset /\ moved' = Nothing /\ live' = {}

MCNext == (\E i \in HostInstructions : Execute1(i)) \/ HostMove \/ HostReset

MCSpec == MCInit /\ [][MCNext]_stackvars
-----------------------------------------------------------------------------
\* The stack is what lies in SRAM from the stack pointer up.
BytesFrom(memory, bottom) ==
  [k \in 1..(SramSize - bottom) |-> memory[bottom + k - 1]]

Stack == INSTANCE AvrStack WITH
           Capacity <- SramSize,
           stack <- BytesFrom(sram, sp)

\* The instructions implement the abstract stack: last in first out, never
\* above its capacity or below empty, return addresses intact, and a refused
\* instruction leaves it alone (avr_instruction.c:1064-1129).
IsAStack == Stack!Spec

\* avr_mcu.h:39 says that sp is the "address of the next free SRAM byte below
\* the stack top".
StackPointerNamesFreeByte == sp \notin live
=============================================================================
