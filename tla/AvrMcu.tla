------------------------------- MODULE AvrMcu -------------------------------
(***************************************************************************)
(* The emulated microcontroller: the AvrMCU struct, the access functions   *)
(* of src/src/mcu/avr_mcu.c that a host program calls on it, and the       *)
(* instruction semantics of avr_execute_instruction.                       *)
(*                                                                         *)
(* The program is single threaded and every API call runs to completion,   *)
(* so a call is one step.  The fields of the struct are the variables;     *)
(* `call' and `ret' say what the last call was and what it returned (TRUE  *)
(* for void functions).                                                    *)
(***************************************************************************)
EXTENDS AvrInstruction, AvrAlu

CONSTANTS
  SramSize,         \* AVR_SRAM_SIZE, 256 bytes in the source
  CycleModulus,     \* cycle_count is a uint32_t: 2^32 in the source
  \* What the host passes to the API, small sets for model checking.
  HostRegisters,    \* register indices, in and out of range
  HostBytes,        \* byte values
  HostWords,        \* 16-bit values: pc, sp and memory addresses
  HostFlags,        \* values of SREG, sets of flags
  HostPorts,        \* port values, sets of bits
  HostPrograms,     \* arrays of instruction words
  HostInstructions, \* instructions handed to avr_execute_instruction
  Garbage           \* contents of the uninitialised struct in avr_mcu_step

ASSUME SramSizeAssumption ==
  SramSize \in Nat /\ 2 <= SramSize /\ SramSize <= 65534
ASSUME CycleModulusAssumption == CycleModulus \in Nat \ {0}
ASSUME HostAssumption ==
  /\ HostRegisters \subseteq Byte
  /\ HostBytes \subseteq Byte
  /\ HostWords \subseteq Word
  /\ HostFlags \subseteq SUBSET Flags
  /\ HostPorts \subseteq SUBSET Bit
  /\ HostPrograms \subseteq Seq(Word)
  /\ HostInstructions \subseteq Instruction
  /\ Garbage \subseteq Instruction
  /\ Garbage # {}

VARIABLES
  registers,      \* R0..R31
  pc,             \* program counter, in instruction words
  sreg,           \* the set of status flags that are 1
  flash,          \* program memory, instruction words
  sram,           \* data memory, bytes
  ddrb,           \* the port bits configured as outputs
  portb,          \* the output latch bits that are 1
  external_input, \* the bits the outside world drives high
  sp,             \* stack pointer
  cycle_count,    \* instructions executed by avr_mcu_step
  breakpoints,    \* the flash addresses with a breakpoint
  call,           \* the kind of the last call
  ret             \* what it returned

core == <<registers, pc, sreg, sram, ddrb, portb, sp>>
machine == <<core, flash, external_input, cycle_count, breakpoints>>
vars == <<registers, pc, sreg, flash, sram, ddrb, portb, external_input, sp,
          cycle_count, breakpoints, call, ret>>

Register == 0..(RegisterCount - 1)
FlashAddress == 0..(FlashSize - 1)
SramAddress == 0..(SramSize - 1)

TypeOK ==
  /\ registers \in [Register -> Byte]
  /\ pc \in Word
  /\ sreg \in SUBSET Flags
  /\ flash \in [FlashAddress -> Word]
  /\ sram \in [SramAddress -> Byte]
  /\ ddrb \in SUBSET Bit
  /\ portb \in SUBSET Bit
  /\ external_input \in SUBSET Bit
  /\ sp \in Word
  /\ cycle_count \in 0..(CycleModulus - 1)
  /\ breakpoints \in SUBSET FlashAddress
  /\ call \in {"write", "execute", "step"}
  /\ ret \in BOOLEAN

\* avr_mcu_create
Init ==
  /\ registers = [r \in Register |-> 0]
  /\ pc = 0
  /\ sreg = {}
  /\ flash = [a \in FlashAddress |-> 0]
  /\ sram = [a \in SramAddress |-> 0]
  /\ ddrb = {}
  /\ portb = {}
  /\ external_input = {}
  /\ sp = SramSize
  /\ cycle_count = 0
  /\ breakpoints = {}
  /\ call = "write"
  /\ ret = TRUE
-----------------------------------------------------------------------------
(***************************************************************************)
(* Reads the instructions share.                                           *)
(***************************************************************************)
\* The level of every pin: the latch drives output bits, the outside world
\* the input bits.
Pins == (portb \cap ddrb) \cup (external_input \ ddrb)

\* avr_mcu_read_io and avr_mcu_write_io: the registers that exist.
ReadableIo == {PINB, DDRB, PORTB}
WritableIo == {DDRB, PORTB}
ReadIo(address) == CASE address = PINB -> Pins
                     [] address = DDRB -> ddrb
                     [] address = PORTB -> portb
WriteIo(address, bits) ==
  /\ ddrb' = IF address = DDRB THEN bits ELSE ddrb
  /\ portb' = IF address = PORTB THEN bits ELSE portb

XPointer == WordOf(registers[27], registers[26])

\* Mutant of NextPc: a program counter that does not wrap at 16 bits.
NextPcUnbounded == pc + 1

NextPc == ToWord(pc + 1)
-----------------------------------------------------------------------------
(***************************************************************************)
(* The instructions.  Accepts holds when avr_execute_instruction reaches   *)
(* its end; each operation below then says what it did on the way.         *)
(***************************************************************************)
SetRegister(r, value) == registers' = [registers EXCEPT ![r] = value]

TwoOperand == WithTwoRegisters \cup WithSource \cup {"OUT"}

\* Operand and addressing checks, without those of the stack operations.
OperandsAccepted(i) ==
  /\ i.destination_register < RegisterCount
  /\ i.operation \in WithConstant => i.destination_register >= 16
  /\ i.operation \in TwoOperand => i.source_register < RegisterCount
  /\ i.operation \in {"LD", "ST"} => XPointer < SramSize
  /\ i.operation = "IN" => i.immediate <= 63 /\ i.immediate \in ReadableIo
  /\ i.operation = "OUT" => i.immediate <= 63 /\ i.immediate \in WritableIo
  /\ i.operation \in PortBitOps =>
       /\ i.immediate <= 31
       /\ i.bit_index <= 7
       /\ i.immediate \in ReadableIo
       /\ i.immediate \in WritableIo
  /\ i.operation = "RJMP" => ValidRelativeOffset(i.relative_offset, 4096)
  /\ i.operation \in Branches => ValidRelativeOffset(i.relative_offset, 128)
  /\ i.operation = "CALL" => i.target_address < FlashSize

\* Mutant of StackAccepted: CALL checks for one free byte instead of two.
StackAcceptedOneByte(i) ==
  /\ i.operation = "PUSH" => sp # 0 /\ sp - 1 < SramSize
  /\ i.operation = "POP"  => sp < SramSize
  /\ i.operation = "CALL" => sp >= 1 /\ sp - 1 < SramSize
  /\ i.operation = "RET"  => sp <= SramSize - 2

\* PUSH writes at sp - 1; POP reads at sp; CALL writes sp - 1 and sp - 2, in
\* this order; RET reads sp and sp + 1.
StackAccepted(i) ==
  /\ i.operation = "PUSH" => sp # 0 /\ sp - 1 < SramSize
  /\ i.operation = "POP"  => sp < SramSize
  /\ i.operation = "CALL" => sp >= 2 /\ sp - 1 < SramSize /\ sp - 2 < SramSize
  /\ i.operation = "RET"  => sp <= SramSize - 2 /\ sp + 1 < SramSize

Accepts(i) == OperandsAccepted(i) /\ StackAccepted(i)

Ldi(i) ==
  /\ i.operation = "LDI"
  /\ SetRegister(i.destination_register, i.immediate)
  /\ pc' = NextPc
  /\ UNCHANGED <<sreg, sram, ddrb, portb, sp>>

Mov(i) ==
  /\ i.operation = "MOV"
  /\ SetRegister(i.destination_register, registers[i.source_register])
  /\ pc' = NextPc
  /\ UNCHANGED <<sreg, sram, ddrb, portb, sp>>

Add(i) ==
  LET left == registers[i.destination_register]
      right == registers[i.source_register]
      result == ToByte(left + right)
  IN  /\ i.operation = "ADD"
      /\ SetRegister(i.destination_register, result)
      /\ sreg' = KeepSystem(sreg) \cup AddFlags(left, right, result)
      /\ pc' = NextPc
      /\ UNCHANGED <<sram, ddrb, portb, sp>>

Sub(i) ==
  LET left == registers[i.destination_register]
      right == registers[i.source_register]
      result == ToByte(left - right)
  IN  /\ i.operation = "SUB"
      /\ SetRegister(i.destination_register, result)
      /\ sreg' = KeepSystem(sreg) \cup SubFlags(left, right, result)
      /\ pc' = NextPc
      /\ UNCHANGED <<sram, ddrb, portb, sp>>

Inc(i) ==
  LET result == ToByte(registers[i.destination_register] + 1)
  IN  /\ i.operation = "INC"
      /\ SetRegister(i.destination_register, result)
      /\ sreg' = KeepCarries(sreg) \cup IncFlags(result)
      /\ pc' = NextPc
      /\ UNCHANGED <<sram, ddrb, portb, sp>>

Dec(i) ==
  LET result == ToByte(registers[i.destination_register] - 1)
  IN  /\ i.operation = "DEC"
      /\ SetRegister(i.destination_register, result)
      /\ sreg' = KeepCarries(sreg) \cup DecFlags(result)
      /\ pc' = NextPc
      /\ UNCHANGED <<sram, ddrb, portb, sp>>

\* AND, OR, EOR
Logical(i) ==
  LET result == Logic(i.operation, registers[i.destination_register],
                      registers[i.source_register])
  IN  /\ i.operation \in {"AND", "OR", "EOR"}
      /\ SetRegister(i.destination_register, result)
      /\ sreg' = KeepCarries(sreg) \cup LogicalFlags(result)
      /\ pc' = NextPc
      /\ UNCHANGED <<sram, ddrb, portb, sp>>

\* CP, CPI: a subtraction that keeps only the flags.
Compare(i) ==
  LET left == registers[i.destination_register]
      right == IF i.operation = "CPI" THEN i.immediate
                                      ELSE registers[i.source_register]
  IN  /\ i.operation \in {"CP", "CPI"}
      /\ sreg' = KeepSystem(sreg) \cup SubFlags(left, right, ToByte(left - right))
      /\ pc' = NextPc
      /\ UNCHANGED <<registers, sram, ddrb, portb, sp>>

Ld(i) ==
  /\ i.operation = "LD"
  /\ SetRegister(i.destination_register, sram[XPointer])
  /\ pc' = NextPc
  /\ UNCHANGED <<sreg, sram, ddrb, portb, sp>>

St(i) ==
  /\ i.operation = "ST"
  /\ sram' = [sram EXCEPT ![XPointer] = registers[i.source_register]]
  /\ pc' = NextPc
  /\ UNCHANGED <<registers, sreg, ddrb, portb, sp>>

In(i) ==
  /\ i.operation = "IN"
  /\ SetRegister(i.destination_register, ByteOf(ReadIo(i.immediate)))
  /\ pc' = NextPc
  /\ UNCHANGED <<sreg, sram, ddrb, portb, sp>>

Out(i) ==
  /\ i.operation = "OUT"
  /\ WriteIo(i.immediate, BitsOf(registers[i.source_register]))
  /\ pc' = NextPc
  /\ UNCHANGED <<registers, sreg, sram, sp>>

\* Mutant of PortBit: SBI writes the mask instead of or-ing it in.
PortBitOverwrites(i) ==
  /\ i.operation \in PortBitOps
  /\ WriteIo(i.immediate, IF i.operation = "SBI" THEN {i.bit_index}
                          ELSE ReadIo(i.immediate) \ {i.bit_index})
  /\ pc' = NextPc
  /\ UNCHANGED <<registers, sreg, sram, sp>>

\* SBI, CBI: a read-modify-write of a port register.
PortBit(i) ==
  LET old == ReadIo(i.immediate)
  IN  /\ i.operation \in PortBitOps
      /\ WriteIo(i.immediate, IF i.operation = "SBI" THEN old \cup {i.bit_index}
                                                     ELSE old \ {i.bit_index})
      /\ pc' = NextPc
      /\ UNCHANGED <<registers, sreg, sram, sp>>

Rjmp(i) ==
  /\ i.operation = "RJMP"
  /\ pc' = ToWord(pc + 1 + i.relative_offset)
  /\ UNCHANGED <<registers, sreg, sram, ddrb, portb, sp>>

\* BRNE, BREQ
BranchTaken(i) == (i.operation = "BREQ") <=> ("Z" \in sreg)

Branch(i) ==
  /\ i.operation \in Branches
  /\ pc' = IF BranchTaken(i) THEN ToWord(pc + 1 + i.relative_offset) ELSE NextPc
  /\ UNCHANGED <<registers, sreg, sram, ddrb, portb, sp>>

Push(i) ==
  /\ i.operation = "PUSH"
  /\ sram' = [sram EXCEPT ![sp - 1] = registers[i.source_register]]
  /\ sp' = sp - 1
  /\ pc' = NextPc
  /\ UNCHANGED <<registers, sreg, ddrb, portb>>

Pop(i) ==
  /\ i.operation = "POP"
  /\ SetRegister(i.destination_register, sram[sp])
  /\ sp' = sp + 1
  /\ pc' = NextPc
  /\ UNCHANGED <<sreg, sram, ddrb, portb>>

\* The two avr_mcu_write_data calls of CALL: the second is made only when the
\* first succeeded, and each succeeds when its address is in SRAM.
StoreTwo(first, value1, second, value2) ==
  [a \in SramAddress |->
     IF a = second /\ first < SramSize THEN value2
     ELSE IF a = first THEN value1 ELSE sram[a]]

\* Mutant of StoreReturnAddress: the bytes stored in the other order.
StoreLowFirst ==
  sram' = StoreTwo(sp - 2, LowByte(NextPc), sp - 1, HighByte(NextPc))

StoreReturnAddress ==
  sram' = StoreTwo(sp - 1, HighByte(NextPc), sp - 2, LowByte(NextPc))

Call(i) ==
  /\ i.operation = "CALL"
  /\ StoreReturnAddress
  /\ sp' = sp - 2
  /\ pc' = i.target_address
  /\ UNCHANGED <<registers, sreg, ddrb, portb>>

\* Mutant of Ret: the bytes of the return address read in the wrong order.
RetSwapped(i) ==
  /\ i.operation = "RET"
  /\ pc' = WordOf(sram[sp], sram[sp + 1])
  /\ sp' = sp + 2
  /\ UNCHANGED <<registers, sreg, sram, ddrb, portb>>

Ret(i) ==
  /\ i.operation = "RET"
  /\ pc' = WordOf(sram[sp + 1], sram[sp])
  /\ sp' = sp + 2
  /\ UNCHANGED <<registers, sreg, sram, ddrb, portb>>

Perform(i) ==
  \/ Ldi(i) \/ Mov(i) \/ Add(i) \/ Sub(i) \/ Inc(i) \/ Dec(i) \/ Logical(i)
  \/ Compare(i) \/ Ld(i) \/ St(i) \/ In(i) \/ Out(i) \/ PortBit(i)
  \/ Rjmp(i) \/ Branch(i) \/ Push(i) \/ Pop(i) \/ Call(i) \/ Ret(i)

\* An early return.  Every check precedes the first write, except in CALL,
\* which by the time a write fails may have made the one before it.
CallFailsWriting(i) ==
  /\ i.operation = "CALL"
  /\ OperandsAccepted(i)
  /\ sp >= 2

Abandon(i) ==
  /\ \/ CallFailsWriting(i) /\ StoreReturnAddress
     \/ ~CallFailsWriting(i) /\ UNCHANGED sram
  /\ UNCHANGED <<registers, pc, sreg, ddrb, portb, sp>>

\* avr_execute_instruction
Execute(i) ==
  \/ Accepts(i) /\ Perform(i) /\ ret' = TRUE
  \/ ~Accepts(i) /\ Abandon(i) /\ ret' = FALSE
-----------------------------------------------------------------------------
(***************************************************************************)
(* The API calls that change the machine.                                  *)
(***************************************************************************)
Written(value) == call' = "write" /\ ret' = value

\* avr_mcu_reset: the whole struct is overwritten by a fresh one.
Reset ==
  /\ registers' = [r \in Register |-> 0]
  /\ pc' = 0
  /\ sreg' = {}
  /\ flash' = [a \in FlashAddress |-> 0]
  /\ sram' = [a \in SramAddress |-> 0]
  /\ ddrb' = {}
  /\ portb' = {}
  /\ external_input' = {}
  /\ sp' = SramSize
  /\ cycle_count' = 0
  /\ breakpoints' = {}
  /\ Written(TRUE)

WriteRegister(r, value) ==
  /\ Written(r < RegisterCount)
  /\ registers' = IF r < RegisterCount THEN [registers EXCEPT ![r] = value]
                                       ELSE registers
  /\ UNCHANGED <<pc, sreg, flash, sram, ddrb, portb, external_input, sp,
                 cycle_count, breakpoints>>

WritePc(value) ==
  /\ pc' = value
  /\ Written(TRUE)
  /\ UNCHANGED <<registers, sreg, flash, sram, ddrb, portb, external_input, sp,
                 cycle_count, breakpoints>>

WriteSreg(value) ==
  /\ sreg' = value
  /\ Written(TRUE)
  /\ UNCHANGED <<registers, pc, flash, sram, ddrb, portb, external_input, sp,
                 cycle_count, breakpoints>>

WriteSp(value) ==
  /\ sp' = value
  /\ Written(TRUE)
  /\ UNCHANGED <<registers, pc, sreg, flash, sram, ddrb, portb, external_input,
                 cycle_count, breakpoints>>

WriteFlash(address, word) ==
  /\ Written(address < FlashSize)
  /\ flash' = IF address < FlashSize THEN [flash EXCEPT ![address] = word] ELSE flash
  /\ UNCHANGED <<core, external_input, cycle_count, breakpoints>>

WriteData(address, value) ==
  /\ Written(address < SramSize)
  /\ sram' = IF address < SramSize THEN [sram EXCEPT ![address] = value] ELSE sram
  /\ UNCHANGED <<registers, pc, sreg, flash, ddrb, portb, external_input, sp,
                 cycle_count, breakpoints>>

WriteIoRegister(address, bits) ==
  /\ Written(address \in WritableIo)
  /\ WriteIo(address, bits)
  /\ UNCHANGED <<registers, pc, sreg, flash, sram, external_input, sp,
                 cycle_count, breakpoints>>

WriteExternalInput(bits) ==
  /\ external_input' = bits
  /\ Written(TRUE)
  /\ UNCHANGED <<core, flash, cycle_count, breakpoints>>

\* avr_mcu_load_program: a prefix of flash is replaced, nothing else.
LoadProgram(program) ==
  /\ Written(Len(program) <= FlashSize)
  /\ flash' = IF Len(program) <= FlashSize
              THEN [a \in FlashAddress |->
                      IF a < Len(program) THEN program[a + 1] ELSE flash[a]]
              ELSE flash
  /\ UNCHANGED <<core, external_input, cycle_count, breakpoints>>

SetBreakpoint(address) ==
  /\ Written(address < FlashSize)
  /\ breakpoints' = breakpoints \cup ({address} \cap FlashAddress)
  /\ UNCHANGED <<core, flash, external_input, cycle_count>>

ClearBreakpoint(address) ==
  /\ Written(address < FlashSize)
  /\ breakpoints' = breakpoints \ {address}
  /\ UNCHANGED <<core, flash, external_input, cycle_count>>

HasBreakpoint(address) == address \in breakpoints

\* avr_execute_instruction, called by the host: no fetch, no cycle counted.
ExecuteInstruction(i) ==
  /\ Execute(i)
  /\ call' = "execute"
  /\ UNCHANGED <<flash, external_input, cycle_count, breakpoints>>

\* avr_mcu_step: fetch, decode into an uninitialised struct, execute, count.
CanFetch == pc < FlashSize /\ Decodes(flash[pc])

FetchFails ==
  /\ ~CanFetch
  /\ ret' = FALSE
  /\ UNCHANGED machine

\* Mutants of Retire: a counter wider than 32 bits, and one that charges RJMP
\* the two cycles it takes on the real chip.
RetireUnbounded ==
  /\ CanFetch
  /\ \E i \in {Decode(flash[pc], garbage) : garbage \in Garbage} : Execute(i)
  /\ cycle_count' = IF ret' THEN cycle_count + 1 ELSE cycle_count
  /\ UNCHANGED <<flash, external_input, breakpoints>>

RetireTimed ==
  /\ CanFetch
  /\ \E i \in {Decode(flash[pc], garbage) : garbage \in Garbage} :
       /\ Execute(i)
       /\ cycle_count' = IF ~ret' THEN cycle_count
                         ELSE (cycle_count + IF i.operation = "RJMP" THEN 2 ELSE 1)
                              % CycleModulus
  /\ UNCHANGED <<flash, external_input, breakpoints>>

Retire ==
  /\ CanFetch
  /\ \E i \in {Decode(flash[pc], garbage) : garbage \in Garbage} : Execute(i)
  /\ cycle_count' = IF ret' THEN (cycle_count + 1) % CycleModulus ELSE cycle_count
  /\ UNCHANGED <<flash, external_input, breakpoints>>

Step == (FetchFails \/ Retire) /\ call' = "step"

\* Every call that configures the machine rather than running it.
HostWrite ==
  \/ Reset
  \/ \E r \in HostRegisters, value \in HostBytes : WriteRegister(r, value)
  \/ \E value \in HostWords : WritePc(value) \/ WriteSp(value)
  \/ \E value \in HostFlags : WriteSreg(value)
  \/ \E a \in HostWords, program \in HostPrograms :
       Len(program) > 0 /\ WriteFlash(a, program[1])
  \/ \E a \in HostWords, value \in HostBytes : WriteData(a, value)
  \/ \E a \in HostWords \cap Byte, bits \in HostPorts : WriteIoRegister(a, bits)
  \/ \E bits \in HostPorts : WriteExternalInput(bits)
  \/ \E program \in HostPrograms : LoadProgram(program)
  \/ \E a \in HostWords : SetBreakpoint(a) \/ ClearBreakpoint(a)

HostExecute == \E i \in HostInstructions : ExecuteInstruction(i)

Next == HostWrite \/ HostExecute \/ Step

Spec == Init /\ [][Next]_vars
-----------------------------------------------------------------------------
(***************************************************************************)
(* Properties.                                                             *)
(***************************************************************************)
Executing == call' \in {"execute", "step"}

\* A call that returns false has changed nothing, CALL's two stores included
\* (avr_instruction.c:1107-1111); src/README.md, Phase 5: "Control-flow
\* failures leave the program counter and machine state unchanged".
FailureAtomic == [][ret' = FALSE => UNCHANGED machine]_vars

\* Instructions never move a stack pointer that is in 0..SramSize out of that
\* range: the bounds PUSH, POP, CALL and RET check fit together
\* (avr_instruction.c:1068-1129).  The host may write any sp.
StackPointerStaysInRange ==
  [][(Executing /\ sp \in 0..SramSize) => sp' \in 0..SramSize]_vars

\* The fields the decoder leaves uninitialised decide nothing: whatever they
\* hold, the step is the one taken (avr_mcu.c:376, avr_instruction.c:388-613).
UninitialisedFieldsUnread ==
  [][(call' = "step" /\ CanFetch) =>
       \A i \in {Decode(flash[pc], garbage) : garbage \in Garbage} : Execute(i)]_vars

\* SBI and CBI move at most the pin they name, whatever is a latch, a
\* direction or an outside level (avr_instruction.c:1040-1063 over
\* avr_mcu.c:119-165).
BitOpsMoveOnePin ==
  [][call' = "execute" =>
       \A i \in HostInstructions :
         (i.operation \in PortBitOps /\ ExecuteInstruction(i)) =>
           \A b \in Bit \ {i.bit_index} : b \in Pins <=> b \in Pins']_vars

\* Instructions keep the promise SREG makes (S is N xor V) once it holds, and
\* never touch I and T, whichever flags each of them writes; the carries H and C
\* survive every instruction but an addition, a subtraction or a comparison, so
\* that INC, DEC, logic and transfers may stand between a carry and its use
\* (avr_instruction.c:618-753 and the masks at 855-1038).
SignConsistent == "S" \in sreg <=> ~("N" \in sreg <=> "V" \in sreg)
Survive(flags) == \A flag \in flags : flag \in sreg' <=> flag \in sreg
CarryOps == {"ADD", "SUB", "CP", "CPI"}
MayExecute ==
  IF call' = "execute" THEN HostInstructions
  ELSE {Decode(flash[pc], garbage) : garbage \in IF CanFetch THEN Garbage ELSE {}}
FlagsDiscipline ==
  [][Executing =>
       /\ Survive({"I", "T"})
       /\ SignConsistent => SignConsistent'
       /\ \/ Survive({"H", "C"})
          \/ \A i \in MayExecute : Execute(i) => i.operation \in CarryOps]_vars
=============================================================================
