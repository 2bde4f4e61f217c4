------------------------------- MODULE MCMcu -------------------------------
(***************************************************************************)
(* The microcontroller under a host that makes every kind of call.  To     *)
(* keep the instance small, a run of the host stays with one subject: its  *)
(* calls and instructions are those of AvrMcu that concern the subject.    *)
(***************************************************************************)
EXTENDS AvrMcu, FiniteSets

VARIABLE subject
mcvars == <<vars, subject>>

I(op, d, s, k) ==
  [operation |-> op, destination_register |-> d, source_register |-> s,
   immediate |-> k, bit_index |-> 0, relative_offset |-> 0, target_address |-> 0]

ArithmeticCode ==
  {I("LDI", d, 0, k) : d \in {15, 16, 32}, k \in {1, 128}}
    \cup {I(op, 16, 17, 0) : op \in WithTwoRegisters}
    \cup {I(op, 16, 32, 0) : op \in WithTwoRegisters}
    \cup {I(op, 16, 0, 0) : op \in {"INC", "DEC"}}
    \cup {I("CPI", d, 0, k) : d \in {15, 16}, k \in {0, 127, 255}}

MemoryCode ==
  {I("LD", 17, 0, 0), I("LD", 26, 0, 0), I("LD", 32, 0, 0), I("ST", 0, 16, 0),
   I("ST", 0, 27, 0), I("ST", 0, 32, 0)}

PortCode ==
  {I(op, d, d, k) : op \in PortTransfers, d \in {16, 32}, k \in {0, 1, 2, 3, 64}}
    \cup {[I(op, 0, 0, k) EXCEPT !.bit_index = b] :
            op \in PortBitOps, k \in {0, 1, 2, 3, 32}, b \in {0, 5, 8}}

StackCode ==
  {I("PUSH", 0, 16, 0), I("PUSH", 0, 32, 0), I("POP", 16, 0, 0),
   I("POP", 32, 0, 0), I("RET", 0, 0, 0)}
    \cup {[I("CALL", 0, 0, 0) EXCEPT !.target_address = t] :
            t \in {1, FlashSize, 65535}}

BranchCode ==
  {[I(op, 0, 0, 0) EXCEPT !.relative_offset = r] :
     op \in Branches \cup {"RJMP"},
     r \in {-2049, -2048, -65, -64, -2, 0, 63, 64, 2047, 2048}}

MCInstructions ==
  ArithmeticCode \cup MemoryCode \cup PortCode \cup StackCode \cup BranchCode

\* Programs for avr_mcu_load_program; the last is longer than flash.
W(i) == Encode(i)
MCPrograms ==
  { << W(I("LDI", 16, 0, 255)), W(I("EOR", 16, 16, 0)),
       W([I("BREQ", 0, 0, 0) EXCEPT !.relative_offset = -3]) >>,
    << W(I("IN", 16, 0, 0)), W([I("SBI", 0, 0, 2) EXCEPT !.bit_index = 5]),
       W(I("OUT", 0, 16, 2)), W([I("RJMP", 0, 0, 0) EXCEPT !.relative_offset = -4]) >>,
    << W([I("CALL", 0, 0, 0) EXCEPT !.target_address = 2]),
       W([I("RJMP", 0, 0, 0) EXCEPT !.relative_offset = 2047]),
       W(I("PUSH", 0, 0, 0)), W(I("RET", 0, 0, 0)) >>,
    << W(I("CPI", 16, 0, 0)), W([I("BRNE", 0, 0, 0) EXCEPT !.relative_offset = -2]), 0 >>,
    << 0, 0, 0, 0, 0 >> }

MCGarbage ==
  {I("RET", 255, 255, 255),
   [I("LDI", 0, 0, 0) EXCEPT !.bit_index = 255, !.relative_offset = -32768,
                             !.target_address = 65535]}

MCPorts == {{}, {0}, {5}, {0, 5}}
MCFlags == {{}, {"I", "T", "C"}, {"Z", "H"}, {"N", "S"}}

\* Bounds: the host executes an instruction only from a pc in `origins', so
\* that it writes the pc back first; and it starts arithmetic only from its own
\* operand and flag values, and loads programs only at pc 0.
ExecuteFrom(origins, code) == pc \in origins /\ \E i \in code : ExecuteInstruction(i)

MCInit ==
  Init /\ subject \in {"arithmetic", "memory", "ports", "stack", "branches", "program"}

Arithmetic ==
  /\ subject = "arithmetic"
  /\ \/ /\ registers[16] \in HostBytes
        /\ sreg \in HostFlags
        /\ ExecuteFrom({0}, ArithmeticCode)
     \/ WritePc(0)
     \/ \E value \in HostFlags : WriteSreg(value)
     \/ \E value \in HostBytes, r \in {16, 17} : WriteRegister(r, value)

Memory ==
  /\ subject = "memory"
  /\ \/ ExecuteFrom({0}, MemoryCode)
     \/ WritePc(0)
     \/ \E r \in {16, 26, 27, 32}, value \in {0, 2, 255} : WriteRegister(r, value)
     \/ \E a \in HostWords : WriteData(a, 1)

Ports ==
  /\ subject = "ports"
  /\ \/ ExecuteFrom({0}, PortCode)
     \/ WritePc(0)
     \/ Reset
     \/ \E bits \in HostPorts : WriteExternalInput(bits)
     \/ \E a \in 0..3, bits \in HostPorts : WriteIoRegister(a, bits)

Stack ==
  /\ subject = "stack"
  /\ \/ ExecuteFrom({0, 65535}, StackCode)
     \/ \E value \in {0, 65535} : WritePc(value)
     \/ \E value \in HostWords : WriteSp(value)
     \/ \E value \in {0, 255} : WriteRegister(16, value)

Control ==
  /\ subject = "branches"
  /\ \/ ExecuteFrom(HostWords, BranchCode)
     \/ \E value \in HostWords : WritePc(value)
     \/ \E value \in HostFlags : WriteSreg(value)

Program ==
  /\ subject = "program"
  /\ \/ Step
     \/ Reset
     \/ pc = 0 /\ \E program \in HostPrograms : LoadProgram(program)
     \/ \E value \in {0, FlashSize} : WritePc(value)
     \/ WriteFlash(FlashSize, 65535)
     \/ \E bits \in {{}, {5}} : WriteExternalInput(bits)

MCNext ==
  /\ Arithmetic \/ Memory \/ Ports \/ Stack \/ Control \/ Program
  /\ UNCHANGED subject

MCSpec == MCInit /\ [][MCNext]_mcvars
=============================================================================
