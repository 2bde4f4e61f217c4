---------------------------- MODULE AvrMcuProofs ----------------------------
(***************************************************************************)
(* The machine keeps to its types whatever the host calls and whatever is  *)
(* in flash, and the properties of MCMcu that follow: the range checks of  *)
(* the stack instructions, which flags and which pin an instruction may    *)
(* touch, and that no uninitialised field is read.  At the end, what the   *)
(* proofs of both interfaces need to know of the demo program.             *)
(***************************************************************************)
EXTENDS AvrDemo, AvrInstructionProofs

\* The part of the state instructions work on.
CoreTypeOK ==
  /\ registers \in [Register -> Byte]
  /\ pc \in Word
  /\ sreg \in SUBSET Flags
  /\ sram \in [SramAddress -> Byte]
  /\ ddrb \in SUBSET Bit
  /\ portb \in SUBSET Bit
  /\ sp \in Word

HostTypeOK ==
  /\ flash \in [FlashAddress -> Word]
  /\ external_input \in SUBSET Bit
  /\ cycle_count \in 0..(CycleModulus - 1)
  /\ breakpoints \in SUBSET FlashAddress

LEMMA TypeParts ==
  TypeOK <=> /\ CoreTypeOK
             /\ HostTypeOK
             /\ call \in {"write", "execute", "step"}
             /\ ret \in BOOLEAN
BY DEF TypeOK, CoreTypeOK, HostTypeOK

-----------------------------------------------------------------------------
(***************************************************************************)
(* The values instructions compute are in the range of their C types.      *)
(***************************************************************************)
LEMMA LogicType ==
  ASSUME NEW op, NEW left, NEW right
  PROVE  Logic(op, left, right) \in Byte
BY ByteOfType DEF Logic

LEMMA FlagsType ==
  /\ \A l, r, v : AddFlags(l, r, v) \subseteq Flags
  /\ \A l, r, v : SubFlags(l, r, v) \subseteq Flags
  /\ \A v : IncFlags(v) \subseteq Flags /\ DecFlags(v) \subseteq Flags
  /\ \A v : LogicalFlags(v) \subseteq Flags
<1>1. \A c : /\ FlagIf("C", c) \subseteq Flags /\ FlagIf("H", c) \subseteq Flags
             /\ FlagIf("V", c) \subseteq Flags /\ FlagIf("N", c) \subseteq Flags
             /\ FlagIf("Z", c) \subseteq Flags /\ FlagIf("S", c) \subseteq Flags
  BY DEF FlagIf, Flags
<1>2. \A v, o : SignFlags(v, o) \subseteq Flags
  BY <1>1, ZenonT(30) DEF SignFlags
<1>3. \A l, r, v : AddFlags(l, r, v) \subseteq Flags
  <2>. TAKE l, r, v
  <2>. DEFINE c == ((l + r) \div 256) % 2 = 1
              h == (((l % 16) + (r % 16)) \div 16) % 2 = 1
              o == (Bit7(l) <=> Bit7(r)) /\ ~(Bit7(l) <=> Bit7(v))
  <2>1. FlagIf("C", c) \subseteq Flags /\ FlagIf("H", h) \subseteq Flags
    BY <1>1
  <2>2. AddFlags(l, r, v) = FlagIf("C", c) \cup FlagIf("H", h) \cup SignFlags(v, o)
    BY DEF AddFlags
  <2>. HIDE DEF c, h, o
  <2>. QED BY <1>2, <2>1, <2>2, Zenon
<1>4. \A l, r, v : SubFlags(l, r, v) \subseteq Flags
  BY <1>1, <1>2, Zenon DEF SubFlags
<1>. QED BY <1>2, <1>3, <1>4 DEF IncFlags, DecFlags, LogicalFlags

LEMMA KeptFlagsType ==
  ASSUME NEW S \in SUBSET Flags
  PROVE  KeepSystem(S) \subseteq Flags /\ KeepCarries(S) \subseteq Flags
BY DEF KeepSystem, KeepCarries

LEMMA NextPcType ==
  ASSUME pc \in Word
  PROVE  NextPc \in Word
<1>1. pc \in Int
  BY WordBounds
<1>. QED BY <1>1, ToWordType DEF NextPc

LEMMA IoType ==
  ASSUME CoreTypeOK, external_input \in SUBSET Bit,
         NEW a \in ReadableIo
  PROVE  ReadIo(a) \in SUBSET Bit
BY DEF CoreTypeOK, ReadIo, ReadableIo, Pins, PINB, DDRB, PORTB

LEMMA WriteIoType ==
  ASSUME CoreTypeOK, NEW a, NEW bits \in SUBSET Bit, WriteIo(a, bits)
  PROVE  ddrb' \in SUBSET Bit /\ portb' \in SUBSET Bit
BY DEF CoreTypeOK, WriteIo

LEMMA StoredAddressType ==
  ASSUME CoreTypeOK, StoreReturnAddress
  PROVE  sram' \in [SramAddress -> Byte]
<1>1. HighByte(NextPc) \in Byte /\ LowByte(NextPc) \in Byte
  BY NextPcType, HighByteType, LowByteType DEF CoreTypeOK
<1>. QED BY <1>1 DEF CoreTypeOK, StoreReturnAddress, StoreTwo
-----------------------------------------------------------------------------
(***************************************************************************)
(* Every instruction keeps the core to its types.                          *)
(***************************************************************************)
LEMMA OperandTypes ==
  ASSUME NEW i \in Instruction, Accepts(i)
  PROVE  /\ i.operation \in Operations
         /\ i.destination_register \in Register
         /\ i.operation \in TwoOperand => i.source_register \in Register
         /\ i.immediate \in Byte
         /\ i.bit_index \in Byte
         /\ i.relative_offset \in Int16
         /\ i.target_address \in Word
<1>1. /\ i.operation \in Operations
      /\ i.destination_register \in Byte
      /\ i.source_register \in Byte
      /\ i.immediate \in Byte
      /\ i.bit_index \in Byte
      /\ i.relative_offset \in Int16
      /\ i.target_address \in Word
  BY DEF Instruction
<1>2. /\ i.destination_register < RegisterCount
      /\ i.operation \in TwoOperand => i.source_register < RegisterCount
  BY DEF Accepts, OperandsAccepted
<1>3. \A r \in Byte : r < RegisterCount => r \in Register
  <2>1. TAKE r \in Byte
  <2>2. r \in Int /\ 0 <= r
    BY ByteBounds
  <2>. QED BY <2>2 DEF Register, RegisterCount
<1>. QED BY <1>1, <1>2, <1>3

LEMMA RegisterWriteType ==
  ASSUME registers \in [Register -> Byte], NEW r, NEW v \in Byte, SetRegister(r, v)
  PROVE  registers' \in [Register -> Byte]
BY DEF SetRegister

\* Loads, moves, arithmetic and logic write one register and flags.
LEMMA RegisterOpsType ==
  ASSUME CoreTypeOK, external_input \in SUBSET Bit,
         NEW i \in Instruction, Accepts(i),
         \/ Ldi(i) \/ Mov(i) \/ Add(i) \/ Sub(i) \/ Inc(i) \/ Dec(i) \/ Logical(i)
         \/ Compare(i) \/ Ld(i) \/ In(i)
  PROVE  CoreTypeOK'
<1>. DEFINE d == i.destination_register
            s == i.source_register
<1>1. /\ i.operation \in Operations /\ d \in Register /\ i.immediate \in Byte
      /\ i.operation \in TwoOperand => s \in Register
  BY OperandTypes
<1>2. registers[d] \in Byte /\ registers[d] \in Int
  BY <1>1, ByteBounds DEF CoreTypeOK
<1>3. i.operation \in TwoOperand => registers[s] \in Byte /\ registers[s] \in Int
  BY <1>1, ByteBounds DEF CoreTypeOK
<1>4. NextPc \in Word
  BY NextPcType DEF CoreTypeOK
<1>5. KeepSystem(sreg) \subseteq Flags /\ KeepCarries(sreg) \subseteq Flags
  BY KeptFlagsType DEF CoreTypeOK
<1>6. ASSUME NEW v \in Byte, SetRegister(d, v), pc' = NextPc, sreg' \subseteq Flags,
             UNCHANGED <<sram, ddrb, portb, sp>>
      PROVE  CoreTypeOK'
  BY <1>4, <1>6, RegisterWriteType DEF CoreTypeOK
<1>7. sreg \subseteq Flags
  BY DEF CoreTypeOK
<1>a. CASE Ldi(i)
  BY <1>a, <1>1, <1>6, <1>7 DEF Ldi
<1>b. CASE Mov(i)
  <2>1. registers[s] \in Byte
    BY <1>b, <1>3 DEF Mov, TwoOperand, WithTwoRegisters
  <2>. QED BY <1>b, <1>6, <1>7, <2>1 DEF Mov
<1>c. CASE Add(i)
  <2>. DEFINE result == ToByte(registers[d] + registers[s])
  <2>1. registers[s] \in Int
    BY <1>c, <1>3 DEF Add, TwoOperand, WithTwoRegisters
  <2>2. registers[d] + registers[s] \in Int
    BY <1>2, <2>1
  <2>3. result \in Byte
    BY <2>2, ToByteType
  <2>4. /\ SetRegister(d, result) /\ pc' = NextPc /\ UNCHANGED <<sram, ddrb, portb, sp>>
        /\ sreg' = KeepSystem(sreg) \cup AddFlags(registers[d], registers[s], result)
    BY <1>c DEF Add
  <2>5. sreg' \subseteq Flags
    BY <2>4, <1>5, FlagsType, Zenon
  <2>. HIDE DEF result
  <2>. QED BY <1>6, <2>3, <2>4, <2>5
<1>d. CASE Sub(i)
  <2>. DEFINE result == ToByte(registers[d] - registers[s])
  <2>1. registers[s] \in Int
    BY <1>d, <1>3 DEF Sub, TwoOperand, WithTwoRegisters
  <2>2. registers[d] - registers[s] \in Int
    BY <1>2, <2>1
  <2>3. result \in Byte
    BY <2>2, ToByteType
  <2>4. /\ SetRegister(d, result) /\ pc' = NextPc /\ UNCHANGED <<sram, ddrb, portb, sp>>
        /\ sreg' = KeepSystem(sreg) \cup SubFlags(registers[d], registers[s], result)
    BY <1>d DEF Sub
  <2>5. sreg' \subseteq Flags
    BY <2>4, <1>5, FlagsType, Zenon
  <2>. HIDE DEF result
  <2>. QED BY <1>6, <2>3, <2>4, <2>5
<1>e. CASE Inc(i)
  <2>. DEFINE result == ToByte(registers[d] + 1)
  <2>1. result \in Byte
    BY <1>2, ToByteType
  <2>2. /\ SetRegister(d, result) /\ pc' = NextPc /\ UNCHANGED <<sram, ddrb, portb, sp>>
        /\ sreg' = KeepCarries(sreg) \cup IncFlags(result)
    BY <1>e DEF Inc
  <2>3. sreg' \subseteq Flags
    BY <2>2, <1>5, FlagsType, Zenon
  <2>. HIDE DEF result
  <2>. QED BY <1>6, <2>1, <2>2, <2>3
<1>f. CASE Dec(i)
  <2>. DEFINE result == ToByte(registers[d] - 1)
  <2>1. result \in Byte
    BY <1>2, ToByteType
  <2>2. /\ SetRegister(d, result) /\ pc' = NextPc /\ UNCHANGED <<sram, ddrb, portb, sp>>
        /\ sreg' = KeepCarries(sreg) \cup DecFlags(result)
    BY <1>f DEF Dec
  <2>3. sreg' \subseteq Flags
    BY <2>2, <1>5, FlagsType, Zenon
  <2>. HIDE DEF result
  <2>. QED BY <1>6, <2>1, <2>2, <2>3
<1>g. CASE Logical(i)
  <2>. DEFINE result == Logic(i.operation, registers[d], registers[s])
  <2>1. result \in Byte
    BY LogicType
  <2>2. /\ SetRegister(d, result) /\ pc' = NextPc /\ UNCHANGED <<sram, ddrb, portb, sp>>
        /\ sreg' = KeepCarries(sreg) \cup LogicalFlags(result)
    BY <1>g DEF Logical
  <2>3. sreg' \subseteq Flags
    BY <2>2, <1>5, FlagsType, Zenon
  <2>. HIDE DEF result
  <2>. QED BY <1>6, <2>1, <2>2, <2>3
<1>h. CASE Compare(i)
  <2>1. PICK l, r, v : sreg' = KeepSystem(sreg) \cup SubFlags(l, r, v)
    BY <1>h, Zenon DEF Compare
  <2>2. sreg' \subseteq Flags
    BY <2>1, <1>5, FlagsType, Zenon
  <2>. QED BY <1>h, <1>4, <2>2 DEF Compare, CoreTypeOK
<1>i. CASE Ld(i)
  <2>1. XPointer \in SramAddress
    <3>1. XPointer < SramSize
      BY <1>i DEF Ld, Accepts, OperandsAccepted
    <3>2. registers[27] \in Byte /\ registers[26] \in Byte
      BY DEF CoreTypeOK, Register, RegisterCount
    <3>3. XPointer \in Int /\ 0 <= XPointer
      BY <3>2, WordOfType, WordBounds DEF XPointer
    <3>. QED BY <3>1, <3>3, SramSizeAssumption DEF SramAddress
  <2>2. sram[XPointer] \in Byte
    BY <2>1 DEF CoreTypeOK
  <2>. QED BY <1>i, <1>6, <1>7, <2>2 DEF Ld
<1>j. CASE In(i)
  BY <1>j, <1>6, <1>7, ByteOfType DEF In
<1>. QED BY <1>a, <1>b, <1>c, <1>d, <1>e, <1>f, <1>g, <1>h, <1>i, <1>j

\* Stores and port writes.
LEMMA StoreOpsType ==
  ASSUME CoreTypeOK, external_input \in SUBSET Bit,
         NEW i \in Instruction, Accepts(i),
         St(i) \/ Out(i) \/ PortBit(i)
  PROVE  CoreTypeOK'
<1>1. NextPc \in Word
  BY NextPcType DEF CoreTypeOK
<1>a. CASE St(i)
  <2>1. i.source_register \in Register
    BY <1>a, OperandTypes DEF St, TwoOperand, WithSource
  <2>2. registers[i.source_register] \in Byte
    BY <2>1 DEF CoreTypeOK
  <2>. QED BY <1>a, <1>1, <2>2 DEF St, CoreTypeOK
<1>b. CASE Out(i)
  <2>1. BitsOf(registers[i.source_register]) \in SUBSET Bit
    BY DEF BitsOf
  <2>2. ddrb' \in SUBSET Bit /\ portb' \in SUBSET Bit
    BY <1>b, <2>1, WriteIoType DEF Out
  <2>. QED BY <1>b, <1>1, <2>2 DEF Out, CoreTypeOK
<1>c. CASE PortBit(i)
  <2>1. i.immediate \in ReadableIo /\ i.bit_index \in Byte /\ i.bit_index <= 7
    BY <1>c, OperandTypes DEF PortBit, Accepts, OperandsAccepted
  <2>2. ReadIo(i.immediate) \in SUBSET Bit
    BY <2>1, IoType
  <2>3. i.bit_index \in Bit
    <3>1. i.bit_index \in Int /\ 0 <= i.bit_index
      BY <2>1, ByteBounds
    <3>. QED BY <2>1, <3>1 DEF Bit
  <2>. DEFINE bits == IF i.operation = "SBI" THEN ReadIo(i.immediate) \cup {i.bit_index}
                      ELSE ReadIo(i.immediate) \ {i.bit_index}
  <2>4. bits \in SUBSET Bit
    BY <2>2, <2>3
  <2>5. WriteIo(i.immediate, bits)
    BY <1>c DEF PortBit
  <2>. HIDE DEF bits
  <2>6. ddrb' \in SUBSET Bit /\ portb' \in SUBSET Bit
    BY <2>4, <2>5, WriteIoType
  <2>. QED BY <1>c, <1>1, <2>6 DEF PortBit, CoreTypeOK
<1>. QED BY <1>a, <1>b, <1>c

\* Jumps and the stack.
LEMMA ControlOpsType ==
  ASSUME CoreTypeOK, NEW i \in Instruction, Accepts(i),
         Rjmp(i) \/ Branch(i) \/ Push(i) \/ Pop(i) \/ Call(i) \/ Ret(i)
  PROVE  CoreTypeOK'
<1>1. NextPc \in Word /\ pc \in Int
  BY NextPcType, WordBounds DEF CoreTypeOK
<1>2. sp \in Int /\ 0 <= sp /\ sp <= 65535
  BY WordBounds DEF CoreTypeOK
<1>3. i.relative_offset \in Int
  <2>1. i.relative_offset \in Int16
    BY DEF Instruction
  <2>. QED BY <2>1, Int16IsInt
<1>4. ToWord(pc + 1 + i.relative_offset) \in Word
  <2>1. pc + 1 + i.relative_offset \in Int
    BY <1>1, <1>3
  <2>. QED BY <2>1, ToWordType
<1>5. StackAccepted(i)
  BY DEF Accepts
<1>a. CASE Rjmp(i)
  BY <1>a, <1>4 DEF Rjmp, CoreTypeOK
<1>b. CASE Branch(i)
  BY <1>b, <1>1, <1>4 DEF Branch, CoreTypeOK
<1>c. CASE Push(i)
  <2>1. i.source_register \in Register
    BY <1>c, OperandTypes DEF Push, TwoOperand, WithSource
  <2>2. registers[i.source_register] \in Byte
    BY <2>1 DEF CoreTypeOK
  <2>3. sp' \in Word
    BY <1>c, <1>2, <1>5, InWord DEF Push, StackAccepted
  <2>. QED BY <1>c, <1>1, <2>2, <2>3 DEF Push, CoreTypeOK
<1>d. CASE Pop(i)
  <2>1. sp \in SramAddress
    BY <1>d, <1>2, <1>5, SramSizeAssumption DEF Pop, StackAccepted, SramAddress
  <2>2. registers' \in [Register -> Byte]
    BY <1>d, <2>1, RegisterWriteType DEF Pop, CoreTypeOK
  <2>3. sp' \in Word
    BY <1>d, <1>2, <1>5, SramSizeAssumption, InWord DEF Pop, StackAccepted
  <2>. QED BY <1>d, <1>1, <2>2, <2>3 DEF Pop, CoreTypeOK
<1>e. CASE Call(i)
  <2>1. sram' \in [SramAddress -> Byte]
    BY <1>e, StoredAddressType DEF Call
  <2>2. sp' \in Word
    BY <1>e, <1>2, <1>5, InWord DEF Call, StackAccepted
  <2>3. i.target_address \in Word
    BY DEF Instruction
  <2>. QED BY <1>e, <2>1, <2>2, <2>3 DEF Call, CoreTypeOK
<1>f. CASE Ret(i)
  <2>1. sp \in SramAddress /\ sp + 1 \in SramAddress
    BY <1>f, <1>2, <1>5, SramSizeAssumption DEF Ret, StackAccepted, SramAddress
  <2>2. pc' \in Word
    BY <1>f, <2>1, WordOfType DEF Ret, CoreTypeOK
  <2>3. sp' \in Word
    BY <1>f, <1>2, <1>5, SramSizeAssumption, InWord DEF Ret, StackAccepted
  <2>. QED BY <1>f, <2>2, <2>3 DEF Ret, CoreTypeOK
<1>. QED BY <1>a, <1>b, <1>c, <1>d, <1>e, <1>f

LEMMA ExecuteType ==
  ASSUME CoreTypeOK, external_input \in SUBSET Bit,
         NEW i \in Instruction, Execute(i)
  PROVE  CoreTypeOK' /\ ret' \in BOOLEAN
<1>1. CASE Accepts(i) /\ Perform(i) /\ ret' = TRUE
  <2>1. \/ Ldi(i) \/ Mov(i) \/ Add(i) \/ Sub(i) \/ Inc(i) \/ Dec(i) \/ Logical(i)
        \/ Compare(i) \/ Ld(i) \/ In(i)
        \/ St(i) \/ Out(i) \/ PortBit(i)
        \/ Rjmp(i) \/ Branch(i) \/ Push(i) \/ Pop(i) \/ Call(i) \/ Ret(i)
    BY <1>1, Zenon DEF Perform
  <2>2. CoreTypeOK'
    BY <1>1, <2>1, RegisterOpsType, StoreOpsType, ControlOpsType
  <2>. QED BY <1>1, <2>2
<1>2. CASE ~Accepts(i) /\ Abandon(i) /\ ret' = FALSE
  <2>1. sram' \in [SramAddress -> Byte]
    BY <1>2, StoredAddressType DEF Abandon, CoreTypeOK
  <2>. QED BY <1>2, <2>1 DEF Abandon, CoreTypeOK
<1>. QED BY <1>1, <1>2, Zenon DEF Execute
-----------------------------------------------------------------------------
(***************************************************************************)
(* Every call keeps the machine to its types.                              *)
(***************************************************************************)
LEMMA InitTypeOK == Init => TypeOK
<1>1. 0 \in Word /\ 0 \in Byte
  BY InWord, InByte
<1>2. SramSize \in Word
  BY SramSizeAssumption, InWord
<1>3. 0 \in 0..(CycleModulus - 1)
  BY CycleModulusAssumption
<1>. QED BY <1>1, <1>2, <1>3 DEF Init, TypeOK

LEMMA ResetTypeOK == Reset => TypeOK'
<1>1. 0 \in Word /\ 0 \in Byte
  BY InWord, InByte
<1>2. SramSize \in Word
  BY SramSizeAssumption, InWord
<1>3. 0 \in 0..(CycleModulus - 1)
  BY CycleModulusAssumption
<1>. QED BY <1>1, <1>2, <1>3 DEF Reset, Written, TypeOK

\* The return value of the calls that report a range check.
LEMMA WrittenType ==
  /\ \A m, n : Written(m < n) => ret' \in BOOLEAN
  /\ \A m, S : Written(m \in S) => ret' \in BOOLEAN
<1>1. \A m, n : (m < n) \in BOOLEAN
  OBVIOUS
<1>2. \A m, S : (m \in S) \in BOOLEAN
  OBVIOUS
<1>. QED BY <1>1, <1>2, ZenonT(30) DEF Written

LEMMA HostWriteTypeOK ==
  ASSUME TypeOK, HostWrite
  PROVE  TypeOK'
<1>. USE TypeParts
<1>1. ASSUME CoreTypeOK', HostTypeOK', call' = "write", ret' \in BOOLEAN
      PROVE  TypeOK'
  BY <1>1 DEF TypeOK, CoreTypeOK, HostTypeOK
<1>a. CASE Reset
  BY <1>a, ResetTypeOK
<1>b. ASSUME NEW r \in HostRegisters, NEW value \in HostBytes, WriteRegister(r, value)
      PROVE  TypeOK'
  <2>1. value \in Byte
    BY HostAssumption
  <2>2. ret' \in BOOLEAN
    BY <1>b, WrittenType, Zenon DEF WriteRegister
  <2>3. CoreTypeOK' /\ HostTypeOK'
    BY <1>b, <2>1 DEF WriteRegister, CoreTypeOK, HostTypeOK
  <2>. QED BY <1>b, <1>1, <2>2, <2>3, Zenon DEF WriteRegister, Written
<1>c. ASSUME NEW value \in HostWords, WritePc(value) \/ WriteSp(value)
      PROVE  TypeOK'
  <2>1. value \in Word
    BY HostAssumption
  <2>. QED BY <1>c, <2>1 DEF WritePc, WriteSp, Written, TypeOK
<1>d. ASSUME NEW value \in HostFlags, WriteSreg(value)
      PROVE  TypeOK'
  <2>1. value \in SUBSET Flags
    BY HostAssumption
  <2>. QED BY <1>d, <2>1 DEF WriteSreg, Written, TypeOK
<1>e. ASSUME NEW a \in HostWords, NEW program \in HostPrograms,
             Len(program) > 0, WriteFlash(a, program[1])
      PROVE  TypeOK'
  <2>1. program \in Seq(Word)
    BY HostAssumption
  <2>2. program[1] \in Word
    BY <1>e, <2>1
  <2>3. ret' \in BOOLEAN
    BY <1>e, WrittenType, Zenon DEF WriteFlash
  <2>4. CoreTypeOK' /\ HostTypeOK'
    BY <1>e, <2>2 DEF WriteFlash, core, CoreTypeOK, HostTypeOK
  <2>. QED BY <1>e, <1>1, <2>3, <2>4, Zenon DEF WriteFlash, Written
<1>f. ASSUME NEW a \in HostWords, NEW value \in HostBytes, WriteData(a, value)
      PROVE  TypeOK'
  <2>1. value \in Byte
    BY HostAssumption
  <2>2. ret' \in BOOLEAN
    BY <1>f, WrittenType, Zenon DEF WriteData
  <2>3. CoreTypeOK' /\ HostTypeOK'
    BY <1>f, <2>1 DEF WriteData, CoreTypeOK, HostTypeOK
  <2>. QED BY <1>f, <1>1, <2>2, <2>3, Zenon DEF WriteData, Written
<1>g. ASSUME NEW a \in HostWords \cap Byte, NEW bits \in HostPorts, WriteIoRegister(a, bits)
      PROVE  TypeOK'
  <2>1. bits \in SUBSET Bit
    BY HostAssumption
  <2>2. ret' \in BOOLEAN
    BY <1>g, WrittenType, Zenon DEF WriteIoRegister
  <2>3. CoreTypeOK' /\ HostTypeOK'
    BY <1>g, <2>1 DEF WriteIoRegister, WriteIo, CoreTypeOK, HostTypeOK
  <2>. QED BY <1>g, <1>1, <2>2, <2>3, Zenon DEF WriteIoRegister, Written
<1>h. ASSUME NEW bits \in HostPorts, WriteExternalInput(bits)
      PROVE  TypeOK'
  <2>1. bits \in SUBSET Bit
    BY HostAssumption
  <2>. QED BY <1>h, <2>1 DEF WriteExternalInput, Written, core, TypeOK
<1>i. ASSUME NEW program \in HostPrograms, LoadProgram(program)
      PROVE  TypeOK'
  <2>1. program \in Seq(Word) /\ Len(program) \in Nat
    BY HostAssumption
  <2>2. flash' \in [FlashAddress -> Word]
    <3>1. CASE Len(program) <= FlashSize
      <4>1. \A a \in FlashAddress : a < Len(program) => program[a + 1] \in Word
        BY <2>1, FlashSizeAssumption DEF FlashAddress
      <4>. QED BY <1>i, <3>1, <4>1 DEF LoadProgram, HostTypeOK
    <3>2. CASE ~(Len(program) <= FlashSize)
      BY <1>i, <3>2 DEF LoadProgram, HostTypeOK
    <3>. QED BY <3>1, <3>2
  <2>3. ret' \in BOOLEAN
    <3>1. (Len(program) <= FlashSize) \in BOOLEAN
      OBVIOUS
    <3>. QED BY <1>i, <3>1, Zenon DEF LoadProgram, Written
  <2>4. CoreTypeOK' /\ HostTypeOK'
    BY <1>i, <2>2 DEF LoadProgram, core, CoreTypeOK, HostTypeOK
  <2>. QED BY <1>i, <1>1, <2>3, <2>4, Zenon DEF LoadProgram, Written
<1>j. ASSUME NEW a \in HostWords, SetBreakpoint(a) \/ ClearBreakpoint(a)
      PROVE  TypeOK'
  <2>1. ret' \in BOOLEAN
    BY <1>j, WrittenType, Zenon DEF SetBreakpoint, ClearBreakpoint
  <2>2. CoreTypeOK' /\ HostTypeOK'
    BY <1>j DEF SetBreakpoint, ClearBreakpoint, core, CoreTypeOK, HostTypeOK
  <2>. QED BY <1>j, <1>1, <2>1, <2>2, Zenon DEF SetBreakpoint, ClearBreakpoint, Written
<1>. QED BY <1>a, <1>b, <1>c, <1>d, <1>e, <1>f, <1>g, <1>h, <1>i, <1>j DEF HostWrite

LEMMA ExecuteInstructionTypeOK ==
  ASSUME TypeOK, NEW i \in Instruction, ExecuteInstruction(i)
  PROVE  TypeOK'
<1>1. CoreTypeOK' /\ ret' \in BOOLEAN
  BY TypeParts, ExecuteType DEF ExecuteInstruction, HostTypeOK
<1>2. HostTypeOK'
  BY TypeParts DEF ExecuteInstruction, HostTypeOK
<1>. QED BY <1>1, <1>2 DEF ExecuteInstruction, TypeOK, CoreTypeOK, HostTypeOK

LEMMA FetchedType ==
  ASSUME TypeOK, CanFetch, NEW garbage \in Garbage
  PROVE  Decode(flash[pc], garbage) \in Instruction
<1>1. pc \in FlashAddress
  <2>1. pc \in Int /\ 0 <= pc
    BY WordBounds DEF TypeOK
  <2>. QED BY <2>1, FlashSizeAssumption DEF CanFetch, FlashAddress
<1>2. flash[pc] \in Word /\ Decodes(flash[pc])
  BY <1>1 DEF TypeOK, CanFetch
<1>3. garbage \in Instruction
  BY HostAssumption
<1>. QED BY <1>2, <1>3, DecodeType

LEMMA StepTypeOK ==
  ASSUME TypeOK, Step
  PROVE  TypeOK'
<1>1. call' = "step"
  BY DEF Step
<1>2. CASE FetchFails
  BY <1>1, <1>2 DEF FetchFails, machine, core, TypeOK
<1>3. CASE Retire
  <2>1. PICK i \in {Decode(flash[pc], garbage) : garbage \in Garbage} : Execute(i)
    BY <1>3 DEF Retire
  <2>2. i \in Instruction
    BY <1>3, FetchedType DEF Retire
  <2>3. CoreTypeOK' /\ ret' \in BOOLEAN
    BY <2>1, <2>2, TypeParts, ExecuteType DEF HostTypeOK
  <2>4. cycle_count' \in 0..(CycleModulus - 1)
    BY <1>3, CycleModulusAssumption DEF Retire, TypeOK
  <2>5. HostTypeOK'
    BY <1>3, <2>4, TypeParts DEF Retire, HostTypeOK
  <2>. QED BY <1>1, <2>3, <2>5 DEF TypeOK, CoreTypeOK, HostTypeOK
<1>. QED BY <1>2, <1>3 DEF Step

LEMMA NextTypeOK ==
  ASSUME TypeOK, Next
  PROVE  TypeOK'
<1>1. CASE HostWrite
  BY <1>1, HostWriteTypeOK
<1>2. CASE HostExecute
  BY <1>2, HostAssumption, ExecuteInstructionTypeOK DEF HostExecute
<1>3. CASE Step
  BY <1>3, StepTypeOK
<1>. QED BY <1>1, <1>2, <1>3 DEF Next

LEMMA StutterTypeOK ==
  ASSUME TypeOK, UNCHANGED vars
  PROVE  TypeOK'
BY DEF vars, TypeOK

\* Type correctness: whatever the host calls and whatever words are in flash,
\* every register, memory cell and port of the machine stays in the range of
\* its C type, sp and pc included.
THEOREM TypeCorrect == Spec => []TypeOK
<1>1. TypeOK /\ [Next]_vars => TypeOK'
  BY NextTypeOK, StutterTypeOK
<1>. QED BY <1>1, InitTypeOK, PTL DEF Spec
-----------------------------------------------------------------------------
(***************************************************************************)
(* A call that fails changes nothing.  Only CALL writes before its last    *)
(* check: its first store is at the higher of two addresses, so when that  *)
(* store is in range the second one is as well.                            *)
(***************************************************************************)
LEMMA FailedExecuteChangesNothing ==
  ASSUME TypeOK, NEW i \in Instruction, Execute(i), ret' = FALSE
  PROVE  UNCHANGED core
<1>1. ~Accepts(i) /\ Abandon(i)
  BY DEF Execute
<1>2. CASE ~CallFailsWriting(i)
  BY <1>1, <1>2 DEF Abandon, core
<1>3. CASE CallFailsWriting(i)
  <2>1. StoreReturnAddress /\ UNCHANGED <<registers, pc, sreg, ddrb, portb, sp>>
    BY <1>1, <1>3 DEF Abandon
  <2>2. sp \in Int /\ sp >= 2
    BY <1>3, WordBounds DEF CallFailsWriting, TypeOK
  <2>3. ~(sp - 1 < SramSize)
    BY <1>1, <1>3, <2>2, SramSizeAssumption
       DEF CallFailsWriting, Accepts, StackAccepted
  <2>4. \A a \in SramAddress : a # sp - 1
    BY <2>2, <2>3, SramSizeAssumption DEF SramAddress
  <2>5. sram' = [a \in SramAddress |-> sram[a]]
    BY <2>1, <2>3, <2>4 DEF StoreReturnAddress, StoreTwo
  <2>6. sram' = sram
    BY <2>5 DEF TypeOK
  <2>. QED BY <2>1, <2>6 DEF core
<1>. QED BY <1>2, <1>3

LEMMA FailedHostWriteChangesNothing ==
  ASSUME TypeOK, HostWrite, ret' = FALSE
  PROVE  UNCHANGED machine
<1>. USE DEF machine, core, Written
<1>1. ~Reset
  BY DEF Reset
<1>2. ASSUME NEW r, NEW value, WriteRegister(r, value)
      PROVE  UNCHANGED machine
  BY <1>2 DEF WriteRegister
<1>3. ASSUME NEW value
      PROVE  ~WritePc(value) /\ ~WriteSp(value) /\ ~WriteSreg(value)
             /\ ~WriteExternalInput(value)
  BY DEF WritePc, WriteSp, WriteSreg, WriteExternalInput
<1>4. ASSUME NEW a, NEW word, WriteFlash(a, word)
      PROVE  UNCHANGED machine
  BY <1>4 DEF WriteFlash
<1>5. ASSUME NEW a, NEW value, WriteData(a, value)
      PROVE  UNCHANGED machine
  BY <1>5 DEF WriteData
<1>6. ASSUME NEW a, NEW bits, WriteIoRegister(a, bits)
      PROVE  UNCHANGED machine
  <2>1. a \notin WritableIo
    BY <1>6, Zenon DEF WriteIoRegister
  <2>. QED BY <1>6, <2>1 DEF WriteIoRegister, WriteIo, WritableIo
<1>7. ASSUME NEW program, LoadProgram(program)
      PROVE  UNCHANGED machine
  BY <1>7 DEF LoadProgram
<1>8. ASSUME NEW a \in HostWords, SetBreakpoint(a) \/ ClearBreakpoint(a)
      PROVE  UNCHANGED machine
  <2>1. ~(a < FlashSize)
    BY <1>8, Zenon DEF SetBreakpoint, ClearBreakpoint
  <2>2. a \notin FlashAddress
    BY <2>1, FlashSizeAssumption DEF FlashAddress
  <2>. QED BY <1>8, <2>2 DEF SetBreakpoint, ClearBreakpoint, TypeOK
<1>. HIDE DEF machine, core, Written
<1>. QED BY <1>1, <1>2, <1>3, <1>4, <1>5, <1>6, <1>7, <1>8 DEF HostWrite

\* A false return value means that nothing happened, for every call: CALL's
\* two stores are made both or not at all.
THEOREM FailuresAreAtomic == Spec => FailureAtomic
<1>1. TypeOK /\ [Next]_vars => [ret' = FALSE => UNCHANGED machine]_vars
  <2>. SUFFICES ASSUME TypeOK, Next, ret' = FALSE PROVE UNCHANGED machine
    OBVIOUS
  <2>1. CASE HostWrite
    BY <2>1, FailedHostWriteChangesNothing
  <2>2. ASSUME NEW i \in HostInstructions, ExecuteInstruction(i)
        PROVE  UNCHANGED machine
    BY <2>2, HostAssumption, FailedExecuteChangesNothing DEF ExecuteInstruction, machine
  <2>3. CASE Step
    <3>1. CASE FetchFails
      BY <3>1 DEF FetchFails
    <3>2. CASE Retire
      <4>1. PICK i \in {Decode(flash[pc], garbage) : garbage \in Garbage} : Execute(i)
        BY <3>2 DEF Retire
      <4>2. UNCHANGED core
        BY <3>2, <4>1, FetchedType, FailedExecuteChangesNothing DEF Retire
      <4>. QED BY <3>2, <4>2 DEF Retire, machine
    <3>. QED BY <2>3, <3>1, <3>2 DEF Step
  <2>. QED BY <2>1, <2>2, <2>3 DEF Next, HostExecute
<1>. QED BY <1>1, TypeCorrect, PTL DEF Spec, FailureAtomic
-----------------------------------------------------------------------------
(***************************************************************************)
(* The bounds of the stack instructions fit together.                      *)
(***************************************************************************)
LEMMA ExecuteKeepsStackPointer ==
  ASSUME TypeOK, sp \in 0..SramSize, NEW i \in Instruction, Execute(i)
  PROVE  sp' \in 0..SramSize
<1>1. sp \in Int /\ 0 <= sp /\ sp <= SramSize /\ SramSize \in Nat
  BY SramSizeAssumption
<1>2. CASE Accepts(i) /\ Perform(i)
  <2>1. CASE Push(i)
    BY <1>1, <1>2, <2>1 DEF Push, Accepts, StackAccepted
  <2>2. CASE Pop(i)
    BY <1>1, <1>2, <2>2 DEF Pop, Accepts, StackAccepted
  <2>3. CASE Call(i)
    BY <1>1, <1>2, <2>3 DEF Call, Accepts, StackAccepted
  <2>4. CASE Ret(i)
    BY <1>1, <1>2, <2>4 DEF Ret, Accepts, StackAccepted
  <2>5. CASE ~(Push(i) \/ Pop(i) \/ Call(i) \/ Ret(i))
    <3>1. UNCHANGED sp
      BY <1>2, <2>5, Zenon
         DEF Perform, Ldi, Mov, Add, Sub, Inc, Dec, Logical, Compare, Ld, St,
             In, Out, PortBit, Rjmp, Branch
    <3>. QED BY <3>1
  <2>. QED BY <2>1, <2>2, <2>3, <2>4, <2>5
<1>3. CASE Abandon(i)
  BY <1>3 DEF Abandon
<1>. QED BY <1>2, <1>3 DEF Execute

\* A stack pointer in 0..SramSize stays there through every instruction the
\* host executes or the program steps through.
THEOREM StackPointerBounded == Spec => StackPointerStaysInRange
<1>1. TypeOK /\ [Next]_vars =>
        [(Executing /\ sp \in 0..SramSize) => sp' \in 0..SramSize]_vars
  <2>. SUFFICES ASSUME TypeOK, Next, Executing, sp \in 0..SramSize
                PROVE  sp' \in 0..SramSize
    OBVIOUS
  <2>1. CASE HostWrite
    <3>1. call' = "write"
      BY <2>1, Zenon DEF HostWrite, Reset, WriteRegister, WritePc, WriteSp, WriteSreg,
         WriteFlash, WriteData, WriteIoRegister, WriteExternalInput, LoadProgram,
         SetBreakpoint, ClearBreakpoint, Written
    <3>. QED BY <3>1 DEF Executing
  <2>2. ASSUME NEW i \in HostInstructions, ExecuteInstruction(i)
        PROVE  sp' \in 0..SramSize
    BY <2>2, HostAssumption, ExecuteKeepsStackPointer DEF ExecuteInstruction
  <2>3. CASE Step
    <3>1. CASE FetchFails
      BY <3>1 DEF FetchFails, machine, core
    <3>2. CASE Retire
      BY <3>2, FetchedType, ExecuteKeepsStackPointer DEF Retire
    <3>. QED BY <2>3, <3>1, <3>2 DEF Step
  <2>. QED BY <2>1, <2>2, <2>3 DEF Next, HostExecute
<1>. QED BY <1>1, TypeCorrect, PTL DEF Spec, StackPointerStaysInRange
-----------------------------------------------------------------------------
(***************************************************************************)
(* The flags.                                                              *)
(***************************************************************************)

\* What every flag function ends with: S is N xor V, and no system flag.
LEMMA SignFlagsMembers ==
  ASSUME NEW result, NEW v \in BOOLEAN
  PROVE  LET F == SignFlags(result, v)
         IN  /\ "V" \in F <=> v
             /\ "N" \in F <=> Bit7(result)
             /\ "S" \in F <=> ~(Bit7(result) <=> v)
             /\ F \cap {"I", "T", "H", "C"} = {}
<1>1. Bit7(result) \in BOOLEAN /\ (result = 0) \in BOOLEAN
  BY DEF Bit7
<1>. QED BY <1>1 DEF SignFlags, FlagIf

\* A set of flags that holds the promise and no system flag.
GoodFlags(F) ==
  /\ F \cap {"I", "T"} = {}
  /\ "S" \in F <=> ~("N" \in F <=> "V" \in F)

LEMMA FlagFunctionsGood ==
  /\ \A l, r, v : GoodFlags(AddFlags(l, r, v))
  /\ \A l, r, v : GoodFlags(SubFlags(l, r, v))
  /\ \A v : GoodFlags(IncFlags(v)) /\ GoodFlags(DecFlags(v))
  /\ \A v : GoodFlags(LogicalFlags(v))
<1>1. \A v : \A o \in BOOLEAN : GoodFlags(SignFlags(v, o))
  BY SignFlagsMembers DEF GoodFlags
<1>2. \A c, F : GoodFlags(F) => GoodFlags(FlagIf("C", c) \cup F) /\ GoodFlags(FlagIf("H", c) \cup F)
  BY DEF GoodFlags, FlagIf
<1>3. \A c, h, F : GoodFlags(F) => GoodFlags(FlagIf("C", c) \cup FlagIf("H", h) \cup F)
  BY DEF GoodFlags, FlagIf
<1>4. \A l, r, v : GoodFlags(AddFlags(l, r, v))
  <2>. TAKE l, r, v
  <2>. DEFINE o == (Bit7(l) <=> Bit7(r)) /\ ~(Bit7(l) <=> Bit7(v))
              c == ((l + r) \div 256) % 2 = 1
              h == (((l % 16) + (r % 16)) \div 16) % 2 = 1
  <2>1. o \in BOOLEAN
    OBVIOUS
  <2>2. AddFlags(l, r, v) = FlagIf("C", c) \cup FlagIf("H", h) \cup SignFlags(v, o)
    BY DEF AddFlags
  <2>. HIDE DEF o, c, h
  <2>3. GoodFlags(SignFlags(v, o))
    BY <1>1, <2>1, Zenon
  <2>. QED BY <1>3, <2>2, <2>3
<1>5. \A l, r, v : GoodFlags(SubFlags(l, r, v))
  <2>. TAKE l, r, v
  <2>. DEFINE o == \/ Bit7(l) /\ ~Bit7(r) /\ ~Bit7(v)
                   \/ ~Bit7(l) /\ Bit7(r) /\ Bit7(v)
  <2>1. o \in BOOLEAN
    OBVIOUS
  <2>. DEFINE c == Borrow(Bit7(l), Bit7(r), Bit7(v))
              h == Borrow(Bit3(l), Bit3(r), Bit3(v))
  <2>2. SubFlags(l, r, v) = FlagIf("C", c) \cup FlagIf("H", h) \cup SignFlags(v, o)
    BY Zenon DEF SubFlags
  <2>. HIDE DEF o, c, h
  <2>3. GoodFlags(SignFlags(v, o))
    BY <1>1, <2>1, Zenon
  <2>. QED BY <1>3, <2>2, <2>3
<1>6. \A v : GoodFlags(IncFlags(v)) /\ GoodFlags(DecFlags(v)) /\ GoodFlags(LogicalFlags(v))
  <2>. TAKE v
  <2>1. (v = 127) \in BOOLEAN /\ (v = 128) \in BOOLEAN /\ FALSE \in BOOLEAN
    OBVIOUS
  <2>. QED BY <1>1, <2>1, ZenonT(30) DEF IncFlags, DecFlags, LogicalFlags
<1>. QED BY <1>4, <1>5, <1>6

\* The new flags on top of the kept ones.
LEMMA KeptFlagsGood ==
  ASSUME NEW S, NEW F, GoodFlags(F)
  PROVE  /\ \A flag \in {"I", "T"} : /\ flag \in KeepSystem(S) \cup F <=> flag \in S
                                     /\ flag \in KeepCarries(S) \cup F <=> flag \in S
         /\ \A K \in {KeepSystem(S), KeepCarries(S)} :
              "S" \in K \cup F <=> ~("N" \in K \cup F <=> "V" \in K \cup F)
BY DEF GoodFlags, KeepSystem, KeepCarries

LEMMA ExecuteKeepsFlags ==
  ASSUME NEW i, Execute(i)
  PROVE  /\ \A flag \in {"I", "T"} : flag \in sreg' <=> flag \in sreg
         /\ SignConsistent => SignConsistent'
<1>1. CASE UNCHANGED sreg
  BY <1>1 DEF SignConsistent
<1>2. ASSUME NEW F, GoodFlags(F),
             sreg' = KeepSystem(sreg) \cup F \/ sreg' = KeepCarries(sreg) \cup F
      PROVE  /\ \A flag \in {"I", "T"} : flag \in sreg' <=> flag \in sreg
             /\ SignConsistent'
  <2>1. sreg' = KeepSystem(sreg) \cup F => SignConsistent'
    BY <1>2, KeptFlagsGood DEF SignConsistent
  <2>2. sreg' = KeepCarries(sreg) \cup F => SignConsistent'
    BY <1>2, KeptFlagsGood DEF SignConsistent
  <2>3. \A flag \in {"I", "T"} : flag \in sreg' <=> flag \in sreg
    BY <1>2, KeptFlagsGood
  <2>. QED BY <1>2, <2>1, <2>2, <2>3
<1>3. CASE Add(i)
  <2>1. PICK l, r, v : sreg' = KeepSystem(sreg) \cup AddFlags(l, r, v)
    BY <1>3, Zenon DEF Add
  <2>. QED BY <1>2, <2>1, FlagFunctionsGood, Zenon
<1>4. CASE Sub(i) \/ Compare(i)
  <2>1. PICK l, r, v : sreg' = KeepSystem(sreg) \cup SubFlags(l, r, v)
    BY <1>4, Zenon DEF Sub, Compare
  <2>. QED BY <1>2, <2>1, FlagFunctionsGood, Zenon
<1>5. CASE Inc(i) \/ Dec(i) \/ Logical(i)
  <2>1. PICK v : \/ sreg' = KeepCarries(sreg) \cup IncFlags(v)
                 \/ sreg' = KeepCarries(sreg) \cup DecFlags(v)
                 \/ sreg' = KeepCarries(sreg) \cup LogicalFlags(v)
    BY <1>5, Zenon DEF Inc, Dec, Logical
  <2>. QED BY <1>2, <2>1, FlagFunctionsGood, Zenon
<1>6. CASE Perform(i) /\ ~(Add(i) \/ Sub(i) \/ Compare(i) \/ Inc(i) \/ Dec(i) \/ Logical(i))
  <2>1. UNCHANGED sreg
    BY <1>6, Zenon DEF Perform, Ldi, Mov, Ld, St, In, Out, PortBit, Rjmp, Branch,
                       Push, Pop, Call, Ret
  <2>. QED BY <2>1, <1>1
<1>7. CASE Abandon(i)
  BY <1>7, <1>1 DEF Abandon
<1>8. Perform(i) \/ Abandon(i)
  BY Zenon DEF Execute
<1>. QED BY <1>3, <1>4, <1>5, <1>6, <1>7, <1>8

\* The carries survive what does not compute them.
LEMMA ExecuteKeepsCarries ==
  ASSUME NEW i, Execute(i), i.operation \notin CarryOps
  PROVE  Survive({"H", "C"})
<1>1. CASE UNCHANGED sreg
  BY <1>1 DEF Survive
<1>2. CASE Inc(i) \/ Dec(i) \/ Logical(i)
  <2>1. PICK v : \/ sreg' = KeepCarries(sreg) \cup IncFlags(v)
                 \/ sreg' = KeepCarries(sreg) \cup DecFlags(v)
                 \/ sreg' = KeepCarries(sreg) \cup LogicalFlags(v)
    BY <1>2, Zenon DEF Inc, Dec, Logical
  <2>2. \A o \in BOOLEAN : SignFlags(v, o) \cap {"I", "T", "H", "C"} = {}
    BY SignFlagsMembers
  <2>3. (v = 127) \in BOOLEAN /\ (v = 128) \in BOOLEAN /\ FALSE \in BOOLEAN
    OBVIOUS
  <2>4. PICK F : sreg' = KeepCarries(sreg) \cup F /\ F \cap {"I", "T", "H", "C"} = {}
    BY <2>1, <2>2, <2>3, Zenon DEF IncFlags, DecFlags, LogicalFlags
  <2>. QED BY <2>4 DEF KeepCarries, Survive
<1>3. ~(Add(i) \/ Sub(i) \/ Compare(i))
  BY DEF Add, Sub, Compare, CarryOps
<1>4. CASE Perform(i) /\ ~(Add(i) \/ Sub(i) \/ Compare(i) \/ Inc(i) \/ Dec(i) \/ Logical(i))
  <2>1. UNCHANGED sreg
    BY <1>4, Zenon DEF Perform, Ldi, Mov, Ld, St, In, Out, PortBit, Rjmp, Branch,
                       Push, Pop, Call, Ret
  <2>. QED BY <2>1, <1>1
<1>5. CASE Abandon(i)
  BY <1>5, <1>1 DEF Abandon
<1>6. Perform(i) \/ Abandon(i)
  BY Zenon DEF Execute
<1>. QED BY <1>2, <1>3, <1>4, <1>5, <1>6

LEMMA HostWriteIsAWrite == HostWrite => call' = "write"
BY Zenon DEF HostWrite, Reset, WriteRegister, WritePc, WriteSp, WriteSreg,
   WriteFlash, WriteData, WriteIoRegister, WriteExternalInput, LoadProgram,
   SetBreakpoint, ClearBreakpoint, Written

\* Instructions keep S equal to N xor V and never touch I and T, and but for
\* additions, subtractions and comparisons they leave the carries alone, whatever
\* flags the host set up and whatever program runs.
THEOREM FlagsKept == Spec => FlagsDiscipline
<1>. DEFINE Kept == /\ \A flag \in {"I", "T"} : flag \in sreg' <=> flag \in sreg
                    /\ SignConsistent => SignConsistent'
            Carried == \/ Survive({"H", "C"})
                       \/ \A i \in MayExecute : Execute(i) => i.operation \in CarryOps
<1>1. [Next]_vars => [Executing => Kept /\ Carried]_vars
  <2>. SUFFICES ASSUME Next, Executing PROVE Kept /\ Carried
    OBVIOUS
  <2>1. CASE HostWrite
    BY <2>1, HostWriteIsAWrite DEF Executing
  <2>2. Carried
    BY ExecuteKeepsCarries, Zenon
  <2>3. CASE HostExecute
    <3>1. Kept
      BY <2>3, ExecuteKeepsFlags, Zenon DEF HostExecute, ExecuteInstruction
    <3>. QED BY <2>2, <3>1
  <2>4. CASE Step
    <3>1. CASE FetchFails
      BY <2>2, <3>1 DEF FetchFails, machine, core, SignConsistent
    <3>2. CASE Retire
      <4>1. Kept
        BY <3>2, ExecuteKeepsFlags, Zenon DEF Retire
      <4>. QED BY <2>2, <4>1
    <3>. QED BY <2>4, <3>1, <3>2 DEF Step
  <2>. QED BY <2>1, <2>3, <2>4 DEF Next
<1>2. [Executing => Kept /\ Carried]_vars =>
        [Executing => /\ Survive({"I", "T"})
                      /\ SignConsistent => SignConsistent'
                      /\ Carried]_vars
  BY Zenon DEF Survive
<1>. QED BY <1>1, <1>2, PTL DEF Spec, FlagsDiscipline
-----------------------------------------------------------------------------
(***************************************************************************)
(* The port bits.                                                          *)
(***************************************************************************)

\* SBI and CBI on an accepted operand change one bit of one port register.
LEMMA PortBitMovesOnePin ==
  ASSUME NEW i, i.operation \in PortBitOps, Execute(i), UNCHANGED external_input
  PROVE  \A b \in Bit \ {i.bit_index} : b \in Pins <=> b \in Pins'
<1>1. CASE Accepts(i) /\ Perform(i)
  <2>1. i.immediate \in {DDRB, PORTB} /\ DDRB # PORTB /\ DDRB # PINB /\ PORTB # PINB
    BY <1>1 DEF Accepts, OperandsAccepted, WritableIo, PINB, DDRB, PORTB
  <2>2. PortBit(i)
    BY <1>1 DEF Perform, Ldi, Mov, Add, Sub, Inc, Dec, Logical, Compare, Ld, St,
                In, Out, Rjmp, Branch, Push, Pop, Call, Ret, PortBitOps, Branches
  <2>3. PICK new : /\ WriteIo(i.immediate, new)
                   /\ \A b \in Bit \ {i.bit_index} : b \in new <=> b \in ReadIo(i.immediate)
    BY <2>2, Zenon DEF PortBit
  <2>4. CASE i.immediate = DDRB
    <3>1. ReadIo(i.immediate) = ddrb
      BY <2>1, <2>4 DEF ReadIo
    <3>2. ddrb' = new /\ portb' = portb
      BY <2>1, <2>3, <2>4 DEF WriteIo
    <3>. QED BY <2>3, <3>1, <3>2 DEF Pins
  <2>5. CASE i.immediate = PORTB
    <3>1. ReadIo(i.immediate) = portb
      BY <2>1, <2>5 DEF ReadIo
    <3>2. portb' = new /\ ddrb' = ddrb
      BY <2>1, <2>3, <2>5 DEF WriteIo
    <3>. QED BY <2>3, <3>1, <3>2 DEF Pins
  <2>. QED BY <2>1, <2>4, <2>5
<1>2. CASE Abandon(i)
  BY <1>2 DEF Abandon, Pins
<1>3. (Accepts(i) /\ Perform(i)) \/ Abandon(i)
  BY Zenon DEF Execute
<1>. QED BY <1>1, <1>2, <1>3

\* A bit operation the host executes moves no pin but the one it names.
THEOREM BitOpsLocal == Spec => BitOpsMoveOnePin
<1>1. [call' = "execute" =>
         \A i \in HostInstructions :
           (i.operation \in PortBitOps /\ ExecuteInstruction(i)) =>
             \A b \in Bit \ {i.bit_index} : b \in Pins <=> b \in Pins']_vars
  BY PortBitMovesOnePin DEF ExecuteInstruction
<1>. QED BY <1>1, PTL DEF BitOpsMoveOnePin
-----------------------------------------------------------------------------
(***************************************************************************)
(* What the decoder leaves uninitialised.                                  *)
(***************************************************************************)

LEMMA GarbageNotRead ==
  ASSUME NEW w, NEW out1, NEW out2
  PROVE  SameOperands(Decode(w, out1), Decode(w, out2))
<1>. DEFINE op == DecodeOperation(w)
<1>1. op \in Branches \cup {"RJMP"} =>
        \A o1, o2 : OffsetField(op, w, o1) = OffsetField(op, w, o2)
  BY DEF OffsetField, Branches
<1>2. op = "CALL" => \A o1, o2 : TargetField(op, w, o1) = TargetField(op, w, o2)
  BY DEF TargetField
<1>. HIDE DEF op
<1>. QED BY <1>1, <1>2 DEF Decode, SameOperands, op

LEMMA SameAccepts ==
  ASSUME NEW i, NEW j, SameOperands(i, j)
  PROVE  /\ OperandsAccepted(i) <=> OperandsAccepted(j)
         /\ Accepts(i) <=> Accepts(j)
<1>1. OperandsAccepted(i) <=> OperandsAccepted(j)
  BY DEF SameOperands, OperandsAccepted, WithConstant, WithTwoRegisters, WithDestination,
     WithSource, PortTransfers, PortBitOps, Branches, TwoOperand
<1>2. StackAccepted(i) <=> StackAccepted(j)
  BY DEF SameOperands, StackAccepted
<1>. QED BY <1>1, <1>2 DEF Accepts

LEMMA SamePerform ==
  ASSUME NEW i, NEW j, SameOperands(i, j), Perform(i)
  PROVE  Perform(j)
<1>. USE DEF SameOperands, WithConstant, WithTwoRegisters, WithDestination, WithSource,
     PortTransfers, PortBitOps, Branches, TwoOperand
<1>1. CASE Ldi(i)
  BY <1>1 DEF Ldi, Perform
<1>2. CASE Mov(i)
  BY <1>2 DEF Mov, Perform
<1>3. CASE Add(i)
  BY <1>3 DEF Add, Perform
<1>4. CASE Sub(i)
  BY <1>4 DEF Sub, Perform
<1>5. CASE Inc(i)
  BY <1>5 DEF Inc, Perform
<1>6. CASE Dec(i)
  BY <1>6 DEF Dec, Perform
<1>7. CASE Logical(i)
  BY <1>7 DEF Logical, Perform
<1>8. CASE Compare(i)
  BY <1>8 DEF Compare, Perform
<1>9. CASE Ld(i) \/ St(i) \/ In(i) \/ Out(i)
  BY <1>9 DEF Ld, St, In, Out, Perform
<1>10. CASE PortBit(i)
  BY <1>10 DEF PortBit, Perform
<1>11. CASE Rjmp(i)
  BY <1>11 DEF Rjmp, Perform
<1>12. CASE Branch(i)
  BY <1>12 DEF Branch, BranchTaken, Perform
<1>13. CASE Push(i) \/ Pop(i)
  BY <1>13 DEF Push, Pop, Perform
<1>14. CASE Call(i)
  BY <1>14 DEF Call, Perform
<1>15. CASE Ret(i)
  BY <1>15 DEF Ret, Perform
<1>. QED BY <1>1, <1>2, <1>3, <1>4, <1>5, <1>6, <1>7, <1>8, <1>9, <1>10, <1>11,
            <1>12, <1>13, <1>14, <1>15, Zenon DEF Perform

LEMMA SameExecute ==
  ASSUME NEW i, NEW j, SameOperands(i, j), Execute(i)
  PROVE  Execute(j)
<1>1. CASE Accepts(i) /\ Perform(i) /\ ret' = TRUE
  BY <1>1, SameAccepts, SamePerform DEF Execute
<1>2. CASE ~Accepts(i) /\ Abandon(i) /\ ret' = FALSE
  <2>1. ~Accepts(j)
    BY <1>2, SameAccepts
  <2>2. CallFailsWriting(i) <=> CallFailsWriting(j)
    BY SameAccepts DEF CallFailsWriting, SameOperands
  <2>3. Abandon(j)
    BY <1>2, <2>2, Zenon DEF Abandon
  <2>. QED BY <1>2, <2>1, <2>3 DEF Execute
<1>. QED BY <1>1, <1>2, Zenon DEF Execute

\* Whatever the uninitialised struct of avr_mcu_step holds, it takes the same
\* step: every field an instruction reads is one its decoder branch wrote.
THEOREM GarbageUnread == Spec => UninitialisedFieldsUnread
<1>1. [Next]_vars => [(call' = "step" /\ CanFetch) =>
         \A i \in {Decode(flash[pc], garbage) : garbage \in Garbage} : Execute(i)]_vars
  <2>. SUFFICES ASSUME Next, call' = "step", CanFetch,
                       NEW i \in {Decode(flash[pc], garbage) : garbage \in Garbage}
                PROVE  Execute(i)
    OBVIOUS
  <2>1. Step
    BY HostWriteIsAWrite DEF Next, HostExecute, ExecuteInstruction
  <2>2. Retire
    BY <2>1 DEF Step, FetchFails
  <2>3. PICK j \in {Decode(flash[pc], garbage) : garbage \in Garbage} : Execute(j)
    BY <2>2 DEF Retire
  <2>4. SameOperands(j, i)
    BY GarbageNotRead
  <2>. QED BY <2>3, <2>4, SameExecute
<1>. QED BY <1>1, PTL DEF Spec, UninitialisedFieldsUnread
-----------------------------------------------------------------------------
(***************************************************************************)
(* The demo of the interfaces: the words load_demo writes, what each of    *)
(* its instructions does, where that leaves the machine, and what it means *)
(* for the two pins.                                                       *)
(***************************************************************************)
\* The ten instructions, and their masks below.
LEMMA DemoInstructions ==
  /\ Len(DemoProgram) = 10 /\ DOMAIN DemoProgram = 1..10
  /\ DemoProgram[1] = Op("LDI", 16, 0, 32)
  /\ DemoProgram[2] = Op("OUT", 0, 16, DDRB)
  /\ DemoProgram[3] = Op("LDI", 18, 0, 1)
  /\ DemoProgram[4] = Op("IN", 17, 0, PINB)
  /\ DemoProgram[5] = Op("AND", 17, 18, 0)
  /\ DemoProgram[6] = Jump("BREQ", 2)
  /\ DemoProgram[7] = PinOp("SBI", PORTB, 5)
  /\ DemoProgram[8] = Jump("RJMP", 1)
  /\ DemoProgram[9] = PinOp("CBI", PORTB, 5)
  /\ DemoProgram[10] = Jump("RJMP", -7)
BY DEF DemoProgram, Demo

\* The assembler of the interfaces accepts every instruction of the demo.
LEMMA DemoEncodable ==
  ASSUME NEW n \in 1..10
  PROVE  DemoProgram[n] \in Instruction /\ Encodable(DemoProgram[n])
<1>1. /\ \A k \in 0..32 : k \in Byte /\ k \in Word
      /\ \A k \in -7..2 : k \in Int16
  <2>1. \A k \in 0..32 : k \in Byte
    BY InByte
  <2>2. \A k \in 0..32 : k \in Word
    BY InWord
  <2>3. \A k \in -7..2 : k \in Int16
    BY InInt16
  <2>. QED BY <2>1, <2>2, <2>3
<1>2. \A op \in {"LDI", "OUT", "IN", "AND", "BREQ", "SBI", "RJMP", "CBI"} : op \in Operations
  BY DEF Operations, WithConstant, WithTwoRegisters, PortTransfers, Branches, PortBitOps
<1>3. ASSUME NEW op \in {"LDI", "OUT", "IN", "AND"}, NEW d \in {0, 16, 17, 18},
             NEW s \in {0, 16, 18}, NEW k \in {0, 1, 32}, op = "LDI" => d >= 16
      PROVE  Op(op, d, s, k) \in Instruction /\ Encodable(Op(op, d, s, k))
  <2>1. Op(op, d, s, k) \in Instruction
    BY <1>1, <1>2 DEF Op, Instruction
  <2>2. Encodable(Op(op, d, s, k))
    BY <1>3 DEF Op, Encodable, RegisterCount, WithConstant, WithTwoRegisters,
         WithSource, PortTransfers, PortBitOps, Branches
  <2>. QED BY <2>1, <2>2
<1>4. ASSUME NEW op \in {"BREQ", "RJMP"}, NEW r \in -7..2
      PROVE  Jump(op, r) \in Instruction /\ Encodable(Jump(op, r))
  <2>1. Jump(op, r) = [operation |-> op, destination_register |-> 0,
                       source_register |-> 0, immediate |-> 0, bit_index |-> 0, relative_offset |-> r,
                       target_address |-> 0]
    BY DEF Jump, Op
  <2>2. Jump(op, r) \in Instruction
    BY <1>1, <1>2, <2>1 DEF Instruction
  <2>3. Encodable(Jump(op, r))
    BY <2>1 DEF Encodable, ValidRelativeOffset, RegisterCount, WithConstant,
         WithTwoRegisters, WithSource, PortTransfers, PortBitOps, Branches
  <2>. QED BY <2>2, <2>3
<1>5. ASSUME NEW op \in {"SBI", "CBI"}
      PROVE  PinOp(op, PORTB, 5) \in Instruction /\ Encodable(PinOp(op, PORTB, 5))
  <2>1. PinOp(op, PORTB, 5) = [operation |-> op, destination_register |-> 0,
                       source_register |-> 0, immediate |-> 2, bit_index |-> 5, relative_offset |-> 0,
                       target_address |-> 0]
    BY DEF PinOp, Op, PORTB
  <2>2. PinOp(op, PORTB, 5) \in Instruction
    BY <1>1, <1>2, <2>1 DEF Instruction
  <2>3. Encodable(PinOp(op, PORTB, 5))
    BY <2>1 DEF Encodable, RegisterCount, WithConstant, WithTwoRegisters,
         WithSource, PortTransfers, PortBitOps, Branches
  <2>. QED BY <2>2, <2>3
<1>6. \A k \in {1, 2, 3, 4, 5} :
        DemoProgram[k] \in Instruction /\ Encodable(DemoProgram[k])
  <2>. DEFINE Fine(i) == i \in Instruction /\ Encodable(i)
  <2>1. \A op \in {"LDI", "OUT", "IN", "AND"}, d \in {0, 16, 17, 18}, s \in {0, 16, 18},
          k \in {0, 1, 32} :
          (op = "LDI" => d >= 16) => Fine(Op(op, d, s, k))
    BY <1>3
  <2>. HIDE DEF Fine
  <2>2. Fine(Op("LDI", 16, 0, 32)) /\ Fine(Op("LDI", 18, 0, 1))
    BY <2>1
  <2>3. Fine(Op("OUT", 0, 16, 1)) /\ Fine(Op("IN", 17, 0, 0)) /\ Fine(Op("AND", 17, 18, 0))
    BY <2>1
  <2>4. \A k \in {1, 2, 3, 4, 5} : Fine(DemoProgram[k])
    BY <2>2, <2>3, DemoInstructions DEF PINB, DDRB
  <2>. QED BY <2>4 DEF Fine
<1>7. \A k \in {6, 8, 10} : DemoProgram[k] \in Instruction /\ Encodable(DemoProgram[k])
  BY <1>4, DemoInstructions
<1>8. \A k \in {7, 9} : DemoProgram[k] \in Instruction /\ Encodable(DemoProgram[k])
  BY <1>5, DemoInstructions
<1>. QED BY <1>6, <1>7, <1>8

\* Flash holds the demo.
DemoLoaded == \A n \in 1..10 : flash[n - 1] = Encode(DemoProgram[n])

LEMMA DemoFetch ==
  ASSUME TypeOK, DemoFits, DemoLoaded, pc \in 0..9, Step
  PROVE  /\ Retire
         /\ Execute(DemoProgram[pc + 1])
<1>. DEFINE j == DemoProgram[pc + 1]
<1>1. pc < FlashSize
  BY DemoInstructions, FlashSizeAssumption DEF DemoFits
<1>2. flash[pc] = Encode(j)
  <2>1. pc + 1 \in 1..10 /\ (pc + 1) - 1 = pc
    OBVIOUS
  <2>. QED BY <2>1 DEF DemoLoaded
<1>3. j \in Instruction /\ Encodable(j)
  BY DemoEncodable
<1>4. Decodes(flash[pc]) /\ \A out : SameOperands(Decode(flash[pc], out), j)
  <2>. HIDE DEF j
  <2>. QED BY <1>2, <1>3, EncodingSurvives, Zenon
<1>5. Retire
  BY <1>1, <1>4 DEF Step, FetchFails, CanFetch
<1>6. PICK garbage \in Garbage : Execute(Decode(flash[pc], garbage))
  BY <1>5 DEF Retire
<1>7. Execute(j)
  <2>. HIDE DEF j
  <2>1. SameOperands(Decode(flash[pc], garbage), j)
    BY <1>4
  <2>. QED BY <1>6, <2>1, SameExecute
<1>. QED BY <1>5, <1>7

\* An instruction whose operands are accepted and that leaves the stack alone is
\* performed.
LEMMA Performed ==
  ASSUME NEW i, Execute(i), OperandsAccepted(i),
         i.operation \notin {"PUSH", "POP", "CALL", "RET"}
  PROVE  /\ ret' = TRUE
         /\ i.operation = "LDI" => Ldi(i)
         /\ i.operation = "OUT" => Out(i)
         /\ i.operation = "IN" => In(i)
         /\ i.operation = "AND" => Logical(i)
         /\ i.operation = "BREQ" => Branch(i)
         /\ i.operation = "RJMP" => Rjmp(i)
         /\ i.operation \in {"SBI", "CBI"} => PortBit(i)
<1>1. Accepts(i)
  BY DEF Accepts, StackAccepted
<1>2. Perform(i) /\ ret' = TRUE
  BY <1>1 DEF Execute
<1>. QED BY <1>2
  DEF Perform, Ldi, Mov, Add, Sub, Inc, Dec, Logical, Compare, Ld, St, In, Out, PortBit,
      Rjmp, Branch, Push, Pop, Call, Ret, Branches, PortBitOps

\* What each instruction of the demo does.
LEMMA DemoStep ==
  ASSUME TypeOK, DemoFits, DemoLoaded, pc \in 0..9, Step
  PROVE  /\ ret' = TRUE
         /\ UNCHANGED <<flash, external_input, breakpoints>>
         /\ pc = 0 => /\ registers' = [registers EXCEPT ![16] = 32]
                      /\ pc' = 1
                      /\ UNCHANGED <<sreg, ddrb, portb>>
         /\ pc = 1 => /\ ddrb' = BitsOf(registers[16])
                      /\ pc' = 2
                      /\ UNCHANGED <<registers, sreg, portb>>
         /\ pc = 2 => /\ registers' = [registers EXCEPT ![18] = 1]
                      /\ pc' = 3
                      /\ UNCHANGED <<sreg, ddrb, portb>>
         /\ pc = 3 => /\ registers' = [registers EXCEPT ![17] = ByteOf(Pins)]
                      /\ pc' = 4
                      /\ UNCHANGED <<sreg, ddrb, portb>>
         /\ pc = 4 => /\ registers' = [registers EXCEPT
                                         ![17] = Logic("AND", registers[17], registers[18])]
                      /\ sreg' = KeepCarries(sreg)
                                   \cup LogicalFlags(Logic("AND", registers[17], registers[18]))
                      /\ pc' = 5
                      /\ UNCHANGED <<ddrb, portb>>
         /\ pc = 5 => /\ pc' = IF "Z" \in sreg THEN 8 ELSE 6
                      /\ UNCHANGED <<registers, sreg, ddrb, portb>>
         /\ pc = 6 => /\ portb' = portb \cup {5}
                      /\ pc' = 7
                      /\ UNCHANGED <<registers, sreg, ddrb>>
         /\ pc = 7 => pc' = 9 /\ UNCHANGED <<registers, sreg, ddrb, portb>>
         /\ pc = 8 => /\ portb' = portb \ {5}
                      /\ pc' = 9
                      /\ UNCHANGED <<registers, sreg, ddrb>>
         /\ pc = 9 => pc' = 3 /\ UNCHANGED <<registers, sreg, ddrb, portb>>
<1>1. /\ UNCHANGED <<flash, external_input, breakpoints>>
      /\ Execute(DemoProgram[pc + 1])
  BY DemoFetch DEF Retire
<1>. USE DEF TwoOperand, WithConstant, WithTwoRegisters, WithSource, PortTransfers,
     PortBitOps, Branches, ReadableIo, WritableIo, PINB, DDRB, PORTB
<1>2. \A n \in 0..10 : ToWord(n) = n
  BY DEF ToWord
<1>a. CASE pc = 0
  <2>. DEFINE i == Op("LDI", 16, 0, 32)
  <2>1. Execute(i)
    BY <1>1, <1>a, DemoInstructions
  <2>2. i.operation = "LDI" /\ i.destination_register = 16
        /\ i.immediate = 32
    BY DEF Op, Jump, PinOp
  <2>. HIDE DEF i
  <2>3. OperandsAccepted(i)
    BY <2>2 DEF OperandsAccepted, RegisterCount, ValidRelativeOffset
  <2>4. ret' = TRUE /\ Ldi(i)
    BY <2>1, <2>2, <2>3, Performed
  <2>. QED BY <1>1, <1>2, <1>a, <2>2, <2>4 DEF Ldi, SetRegister, NextPc
<1>b. CASE pc = 1
  <2>. DEFINE i == Op("OUT", 0, 16, DDRB)
  <2>1. Execute(i)
    BY <1>1, <1>b, DemoInstructions
  <2>2. i.operation = "OUT" /\ i.destination_register = 0
        /\ i.source_register = 16 /\ i.immediate = DDRB
    BY DEF Op, Jump, PinOp
  <2>. HIDE DEF i
  <2>3. OperandsAccepted(i)
    BY <2>2 DEF OperandsAccepted, RegisterCount, ValidRelativeOffset
  <2>4. ret' = TRUE /\ Out(i)
    BY <2>1, <2>2, <2>3, Performed
  <2>. QED BY <1>1, <1>2, <1>b, <2>2, <2>4 DEF Out, WriteIo, NextPc
<1>c. CASE pc = 2
  <2>. DEFINE i == Op("LDI", 18, 0, 1)
  <2>1. Execute(i)
    BY <1>1, <1>c, DemoInstructions
  <2>2. i.operation = "LDI" /\ i.destination_register = 18
        /\ i.immediate = 1
    BY DEF Op, Jump, PinOp
  <2>. HIDE DEF i
  <2>3. OperandsAccepted(i)
    BY <2>2 DEF OperandsAccepted, RegisterCount, ValidRelativeOffset
  <2>4. ret' = TRUE /\ Ldi(i)
    BY <2>1, <2>2, <2>3, Performed
  <2>. QED BY <1>1, <1>2, <1>c, <2>2, <2>4 DEF Ldi, SetRegister, NextPc
<1>d. CASE pc = 3
  <2>. DEFINE i == Op("IN", 17, 0, PINB)
  <2>1. Execute(i)
    BY <1>1, <1>d, DemoInstructions
  <2>2. i.operation = "IN" /\ i.destination_register = 17
        /\ i.immediate = PINB
    BY DEF Op, Jump, PinOp
  <2>. HIDE DEF i
  <2>3. OperandsAccepted(i)
    BY <2>2 DEF OperandsAccepted, RegisterCount, ValidRelativeOffset
  <2>4. ret' = TRUE /\ In(i)
    BY <2>1, <2>2, <2>3, Performed
  <2>. QED BY <1>1, <1>2, <1>d, <2>2, <2>4 DEF In, SetRegister, ReadIo, NextPc
<1>e. CASE pc = 4
  <2>. DEFINE i == Op("AND", 17, 18, 0)
  <2>1. Execute(i)
    BY <1>1, <1>e, DemoInstructions
  <2>2. i.operation = "AND" /\ i.destination_register = 17
        /\ i.source_register = 18
    BY DEF Op, Jump, PinOp
  <2>. HIDE DEF i
  <2>3. OperandsAccepted(i)
    BY <2>2 DEF OperandsAccepted, RegisterCount, ValidRelativeOffset
  <2>4. ret' = TRUE /\ Logical(i)
    BY <2>1, <2>2, <2>3, Performed
  <2>. QED BY <1>1, <1>2, <1>e, <2>2, <2>4 DEF Logical, SetRegister, NextPc
<1>f. CASE pc = 5
  <2>. DEFINE i == Jump("BREQ", 2)
  <2>1. Execute(i)
    BY <1>1, <1>f, DemoInstructions
  <2>2. i.operation = "BREQ" /\ i.destination_register = 0
        /\ i.relative_offset = 2
    BY DEF Op, Jump, PinOp
  <2>. HIDE DEF i
  <2>3. OperandsAccepted(i)
    BY <2>2 DEF OperandsAccepted, RegisterCount, ValidRelativeOffset
  <2>4. ret' = TRUE /\ Branch(i)
    BY <2>1, <2>2, <2>3, Performed
  <2>. QED BY <1>1, <1>2, <1>f, <2>2, <2>4 DEF Branch, BranchTaken, NextPc
<1>g. CASE pc = 6
  <2>. DEFINE i == PinOp("SBI", PORTB, 5)
  <2>1. Execute(i)
    BY <1>1, <1>g, DemoInstructions
  <2>2. i.operation = "SBI" /\ i.destination_register = 0
        /\ i.immediate = PORTB /\ i.bit_index = 5
    BY DEF Op, Jump, PinOp
  <2>. HIDE DEF i
  <2>3. OperandsAccepted(i)
    BY <2>2 DEF OperandsAccepted, RegisterCount, ValidRelativeOffset
  <2>4. ret' = TRUE /\ PortBit(i)
    BY <2>1, <2>2, <2>3, Performed
  <2>. QED BY <1>1, <1>2, <1>g, <2>2, <2>4 DEF PortBit, ReadIo, WriteIo, NextPc
<1>h. CASE pc = 7
  <2>. DEFINE i == Jump("RJMP", 1)
  <2>1. Execute(i)
    BY <1>1, <1>h, DemoInstructions
  <2>2. i.operation = "RJMP" /\ i.destination_register = 0
        /\ i.relative_offset = 1
    BY DEF Op, Jump, PinOp
  <2>. HIDE DEF i
  <2>3. OperandsAccepted(i)
    BY <2>2 DEF OperandsAccepted, RegisterCount, ValidRelativeOffset
  <2>4. ret' = TRUE /\ Rjmp(i)
    BY <2>1, <2>2, <2>3, Performed
  <2>. QED BY <1>1, <1>2, <1>h, <2>2, <2>4 DEF Rjmp
<1>i. CASE pc = 8
  <2>. DEFINE i == PinOp("CBI", PORTB, 5)
  <2>1. Execute(i)
    BY <1>1, <1>i, DemoInstructions
  <2>2. i.operation = "CBI" /\ i.destination_register = 0
        /\ i.immediate = PORTB /\ i.bit_index = 5
    BY DEF Op, Jump, PinOp
  <2>. HIDE DEF i
  <2>3. OperandsAccepted(i)
    BY <2>2 DEF OperandsAccepted, RegisterCount, ValidRelativeOffset
  <2>4. ret' = TRUE /\ PortBit(i)
    BY <2>1, <2>2, <2>3, Performed
  <2>. QED BY <1>1, <1>2, <1>i, <2>2, <2>4 DEF PortBit, ReadIo, WriteIo, NextPc
<1>j. CASE pc = 9
  <2>. DEFINE i == Jump("RJMP", -7)
  <2>1. Execute(i)
    BY <1>1, <1>j, DemoInstructions
  <2>2. i.operation = "RJMP" /\ i.destination_register = 0
        /\ i.relative_offset = -7
    BY DEF Op, Jump, PinOp
  <2>. HIDE DEF i
  <2>3. OperandsAccepted(i)
    BY <2>2 DEF OperandsAccepted, RegisterCount, ValidRelativeOffset
  <2>4. ret' = TRUE /\ Rjmp(i)
    BY <2>1, <2>2, <2>3, Performed
  <2>. QED BY <1>1, <1>2, <1>j, <2>2, <2>4 DEF Rjmp
<1>k. pc \in {0, 1, 2, 3, 4, 5, 6, 7, 8, 9}
  OBVIOUS
<1>. QED BY <1>a, <1>b, <1>c, <1>d, <1>e, <1>f, <1>g, <1>h, <1>i, <1>j, <1>k

\* The bits of the two masks of the demo.
LEMMA DemoMasks ==
  /\ BitsOf(32) = {5}
  /\ BitsOf(1) = {0}
<1>. DEFINE Digit(v, weight) == (v \div weight) % 2 = 1
<1>1. \A v : /\ IsSet(v, 0) <=> Digit(v, 1)
             /\ IsSet(v, 1) <=> Digit(v, 2)
             /\ IsSet(v, 2) <=> Digit(v, 4)
             /\ IsSet(v, 3) <=> Digit(v, 8)
             /\ IsSet(v, 4) <=> Digit(v, 16)
             /\ IsSet(v, 5) <=> Digit(v, 32)
             /\ IsSet(v, 6) <=> Digit(v, 64)
             /\ IsSet(v, 7) <=> Digit(v, 128)
  <2>1. /\ 2^0 = 1 /\ 2^1 = 2 /\ 2^2 = 4 /\ 2^3 = 8 /\ 2^4 = 16 /\ 2^5 = 32
        /\ 2^6 = 64 /\ 2^7 = 128
    OBVIOUS
  <2>. QED BY <2>1, Zenon DEF IsSet
<1>2. Bit = {0, 1, 2, 3, 4, 5, 6, 7}
  BY DEF Bit
<1>3. \A i \in Bit : IsSet(32, i) <=> i = 5
  BY <1>1, <1>2
<1>4. \A i \in Bit : IsSet(1, i) <=> i = 0
  BY <1>1, <1>2
<1>. QED BY <1>2, <1>3, <1>4, Zenon DEF BitsOf

\* The lowest bit survives the way into a byte and back.
LEMMA LowestBit ==
  ASSUME NEW S
  PROVE  0 \in BitsOf(ByteOf(S)) <=> 0 \in S
<1>1. \A i, weight : BitValue(S, i, weight) = weight \/ BitValue(S, i, weight) = 0
  BY DEF BitValue
<1>2. BitValue(S, 0, 1) = IF 0 \in S THEN 1 ELSE 0
  BY DEF BitValue
<1>3. ByteOf(S) % 2 = BitValue(S, 0, 1)
  BY <1>1, <1>2 DEF ByteOf
<1>4. ByteOf(S) \in Int
  BY ByteOfType, ByteBounds
<1>5. 0 \in BitsOf(ByteOf(S)) <=> (ByteOf(S) \div 2^0) % 2 = 1
  BY DEF BitsOf, IsSet, Bit
<1>6. 2^0 = 1 /\ ByteOf(S) \div 1 = ByteOf(S)
  BY <1>4
<1>. QED BY <1>2, <1>3, <1>5, <1>6

\* AND with 1 keeps PB0 of a sample, and its Z says what PB0 was.
LEMMA DemoAnd ==
  ASSUME NEW b
  PROVE  LET result == Logic("AND", b, 1)
         IN  /\ 0 \in BitsOf(result) <=> 0 \in BitsOf(b)
             /\ \A s : "Z" \in KeepCarries(s) \cup LogicalFlags(result)
                         <=> 0 \notin BitsOf(b)
<1>. DEFINE result == Logic("AND", b, 1)
            low == BitsOf(b) \cap {0}
<1>1. result = ByteOf(low)
  BY DemoMasks DEF Logic
<1>2. 0 \in BitsOf(result) <=> 0 \in BitsOf(b)
  <2>1. 0 \in low <=> 0 \in BitsOf(b)
    OBVIOUS
  <2>. HIDE DEF low, result
  <2>. QED BY <1>1, <2>1, LowestBit
<1>3. result = IF 0 \in BitsOf(b) THEN 1 ELSE 0
  <2>1. \A weight : /\ BitValue(low, 1, weight) = 0 /\ BitValue(low, 2, weight) = 0
                    /\ BitValue(low, 3, weight) = 0 /\ BitValue(low, 4, weight) = 0
                    /\ BitValue(low, 5, weight) = 0 /\ BitValue(low, 6, weight) = 0
                    /\ BitValue(low, 7, weight) = 0
    BY DEF BitValue
  <2>2. BitValue(low, 0, 1) = IF 0 \in BitsOf(b) THEN 1 ELSE 0
    BY DEF BitValue
  <2>. HIDE DEF low, result
  <2>. QED BY <1>1, <2>1, <2>2 DEF ByteOf
<1>4. \A s : "Z" \in KeepCarries(s) \cup LogicalFlags(result) <=> result = 0
  BY DEF KeepCarries, LogicalFlags, SignFlags, FlagIf
<1>. HIDE DEF result
<1>5. result = 0 <=> 0 \notin BitsOf(b)
  BY <1>3
<1>. QED BY <1>2, <1>4, <1>5, Zenon DEF result

-----------------------------------------------------------------------------
\* Where the demo is, and what it has done by then.
DemoState ==
  /\ pc \in 0..9
  /\ pc >= 1 => registers[16] = 32
  /\ pc >= 3 => registers[18] = 1
  /\ ddrb = IF pc >= 2 THEN {5} ELSE {}
  /\ pc <= 2 => portb = {}
  /\ pc = 5 => ("Z" \in sreg <=> 0 \notin BitsOf(registers[17]))

\* Sampled, place by place.
LEMMA SampledAt ==
  /\ pc \in {4, 5} => (Sampled <=> 0 \in BitsOf(registers[17]))
  /\ pc = 6 => Sampled
  /\ pc = 8 => ~Sampled
  /\ pc \in {0, 1, 2, 3, 7, 9} => (Sampled <=> PinDriven)
BY DEF Sampled

\* The demo stays in its ten words, and after a step it is in the state it
\* should be in there.
LEMMA DemoStateKept ==
  ASSUME TypeOK, DemoFits, DemoLoaded, DemoState, Step
  PROVE  /\ ret' = TRUE
         /\ DemoLoaded'
         /\ DemoState'
<1>. USE DEF DemoState
<1>1. pc \in 0..9 /\ ret' = TRUE /\ flash' = flash
  BY DemoStep
<1>2. DemoLoaded'
  BY <1>1 DEF DemoLoaded
<1>3. \A r \in {16, 17, 18} : r \in DOMAIN registers
  BY DEF TypeOK, Register, RegisterCount
<1>a. CASE pc = 0
  BY <1>1, <1>2, <1>3, <1>a, DemoStep
<1>b. CASE pc = 1
  BY <1>1, <1>2, <1>3, <1>b, DemoStep, DemoMasks
<1>c. CASE pc = 2
  BY <1>1, <1>2, <1>3, <1>c, DemoStep
<1>d. CASE pc = 3
  BY <1>1, <1>2, <1>3, <1>d, DemoStep
<1>e. CASE pc = 4
  <2>1. /\ registers' = [registers EXCEPT ![17] = Logic("AND", registers[17], 1)]
        /\ sreg' = KeepCarries(sreg) \cup LogicalFlags(Logic("AND", registers[17], 1))
        /\ pc' = 5
        /\ UNCHANGED <<ddrb, portb>>
    BY <1>1, <1>e, DemoStep
  <2>2. registers'[17] = Logic("AND", registers[17], 1)
    BY <1>3, <2>1
  <2>3. "Z" \in sreg' <=> 0 \notin BitsOf(registers'[17])
    BY <2>1, <2>2, DemoAnd
  <2>4. registers'[16] = registers[16] /\ registers'[18] = registers[18]
    BY <1>3, <2>1
  <2>. QED BY <1>1, <1>2, <1>e, <2>1, <2>3, <2>4
<1>f. CASE pc \in {5, 6, 7, 8, 9}
  BY <1>1, <1>2, <1>f, DemoStep
<1>. QED BY <1>1, <1>2, <1>a, <1>b, <1>c, <1>d, <1>e, <1>f

\* What a step of the demo means for the pins: it looks at PB0, it drives PB5 to
\* the level PB0 had, or it does neither.
LEMMA DemoStepMirrors ==
  ASSUME TypeOK, DemoFits, DemoLoaded, DemoState, Step
  PROVE  /\ external_input' = external_input
         /\ \/ /\ Sampled <=> PinDriven
               /\ Sampled' <=> 0 \in external_input
               /\ PinDriven' <=> PinDriven
            \/ /\ PinDriven' <=> Sampled
               /\ Sampled' <=> Sampled
            \/ /\ PinDriven' <=> PinDriven
               /\ Sampled' <=> Sampled
<1>1. pc \in 0..9 /\ external_input' = external_input
  BY DemoStep DEF DemoState
<1>2. \A r \in {16, 17, 18} : r \in DOMAIN registers
  BY DEF TypeOK, Register, RegisterCount
<1>3. /\ pc' \in {4, 5} => (Sampled' <=> 0 \in BitsOf(registers'[17]))
      /\ pc' = 6 => Sampled'
      /\ pc' = 8 => ~Sampled'
      /\ pc' \in {0, 1, 2, 3, 7, 9} => (Sampled' <=> PinDriven')
  BY DEF Sampled
<1>a. CASE pc \in {0, 1, 2}
  <2>1. pc' \in {1, 2, 3} /\ portb = {} /\ portb' = {}
    <3>1. portb = {}
      BY <1>a DEF DemoState
    <3>2. pc' \in {1, 2, 3} /\ portb' = portb
      BY <1>1, <1>a, DemoStep
    <3>. QED BY <3>1, <3>2
  <2>2. ~PinDriven /\ ~PinDriven'
    BY <2>1 DEF PinDriven
  <2>. QED BY <1>a, <1>1, <1>3, <2>1, <2>2, SampledAt
<1>b. CASE pc = 3
  <2>1. pc' = 4 /\ registers'[17] = ByteOf(Pins) /\ UNCHANGED <<portb, ddrb>>
    BY <1>b, <1>1, <1>2, DemoStep
  <2>2. ddrb = {5}
    BY <1>b DEF DemoState
  <2>3. 0 \in Pins <=> 0 \in external_input
    BY <2>2 DEF Pins
  <2>4. PinDriven' <=> PinDriven
    BY <2>1 DEF PinDriven
  <2>. QED BY <1>b, <1>1, <1>3, <2>1, <2>3, <2>4, SampledAt, LowestBit
<1>c. CASE pc = 4
  <2>1. pc' = 5 /\ registers'[17] = Logic("AND", registers[17], 1) /\ UNCHANGED <<portb, ddrb>>
    BY <1>c, <1>1, <1>2, DemoStep DEF DemoState
  <2>2. 0 \in BitsOf(registers'[17]) <=> 0 \in BitsOf(registers[17])
    BY <2>1, DemoAnd
  <2>3. PinDriven' <=> PinDriven
    BY <2>1 DEF PinDriven
  <2>. QED BY <1>c, <1>1, <1>3, <2>1, <2>2, <2>3, SampledAt
<1>d. CASE pc = 5
  <2>1. pc' = (IF "Z" \in sreg THEN 8 ELSE 6) /\ UNCHANGED <<portb, ddrb>>
    BY <1>d, <1>1, DemoStep
  <2>2. "Z" \in sreg <=> 0 \notin BitsOf(registers[17])
    BY <1>d DEF DemoState
  <2>3. PinDriven' <=> PinDriven
    BY <2>1 DEF PinDriven
  <2>. QED BY <1>d, <1>1, <1>3, <2>1, <2>2, <2>3, SampledAt
<1>e. CASE pc = 6
  <2>1. pc' = 7 /\ portb' = portb \cup {5} /\ ddrb' = ddrb /\ ddrb = {5}
    BY <1>e, <1>1, DemoStep DEF DemoState
  <2>2. PinDriven'
    BY <2>1 DEF PinDriven
  <2>. QED BY <1>e, <1>1, <1>3, <2>1, <2>2, SampledAt
<1>f. CASE pc = 8
  <2>1. pc' = 9 /\ portb' = portb \ {5}
    BY <1>f, <1>1, DemoStep
  <2>2. ~PinDriven'
    BY <2>1 DEF PinDriven
  <2>. QED BY <1>f, <1>1, <1>3, <2>1, <2>2, SampledAt
<1>g. CASE pc \in {7, 9}
  <2>1. pc' \in {3, 9} /\ UNCHANGED <<portb, ddrb>>
    BY <1>g, <1>1, DemoStep
  <2>2. PinDriven' <=> PinDriven
    BY <2>1 DEF PinDriven
  <2>. QED BY <1>g, <1>1, <1>3, <2>1, <2>2, SampledAt
<1>4. pc \in {0, 1, 2, 3, 4, 5, 6, 7, 8, 9}
  BY <1>1
<1>. QED BY <1>4, <1>a, <1>b, <1>c, <1>d, <1>e, <1>f, <1>g

-----------------------------------------------------------------------------
\* Other calls of the interfaces.

\* load_demo on a machine that is as avr_mcu_create or avr_mcu_reset leaves it.
LEMMA LoadDemoKept ==
  ASSUME TypeOK, DemoFits, LoadDemoProgram
  PROVE  /\ TypeOK'
         /\ DemoLoaded'
         /\ UNCHANGED <<core, external_input>>
<1>. DEFINE program == [n \in DOMAIN DemoProgram |-> Encode(DemoProgram[n])]
<1>1. /\ DOMAIN program = 1..10
      /\ \A n \in 1..10 : program[n] = Encode(DemoProgram[n]) /\ program[n] \in Word
  <2>1. \A n \in 1..10 : Encode(DemoProgram[n]) \in Word
    <3>. TAKE n \in 1..10
    <3>. DEFINE j == DemoProgram[n]
    <3>1. j \in Instruction /\ Encodable(j)
      BY DemoEncodable
    <3>. HIDE DEF j
    <3>2. Encode(j) \in Word
      BY <3>1, EncodingSurvives, Zenon
    <3>. QED BY <3>2 DEF j
  <2>. QED BY <2>1, DemoInstructions
<1>2. LoadProgram(program)
  BY DEF LoadDemoProgram
<1>3. program = [n \in 1..10 |-> program[n]]
  BY DemoInstructions
<1>. HIDE DEF program
<1>4. program \in Seq(Word) /\ Len(program) = 10
  BY <1>1, <1>3
<1>5. Len(program) <= FlashSize
  BY <1>4, DemoInstructions DEF DemoFits
<1>6. /\ flash' = [a \in FlashAddress |-> IF a < 10 THEN program[a + 1] ELSE flash[a]]
      /\ UNCHANGED <<core, external_input, cycle_count, breakpoints>>
      /\ call' = "write" /\ ret' = TRUE
  BY <1>2, <1>4, <1>5 DEF LoadProgram, Written
<1>7. 10 <= FlashSize
  BY <1>4, <1>5
<1>8. flash' \in [FlashAddress -> Word]
  <2>1. \A a \in FlashAddress : a < 10 => program[a + 1] \in Word
    BY <1>1, FlashSizeAssumption DEF FlashAddress
  <2>. QED BY <1>6, <2>1 DEF TypeOK
<1>9. TypeOK'
  BY <1>6, <1>8 DEF TypeOK, core
<1>10. DemoLoaded'
  <2>. SUFFICES ASSUME NEW n \in 1..10 PROVE flash'[n - 1] = Encode(DemoProgram[n])
    BY DEF DemoLoaded
  <2>1. n - 1 \in FlashAddress /\ n - 1 < 10 /\ (n - 1) + 1 = n
    BY <1>7, FlashSizeAssumption DEF FlashAddress
  <2>. QED BY <1>1, <1>6, <2>1
<1>. QED BY <1>6, <1>9, <1>10

\* What the keys do to the machine.
LEMMA InputKept ==
  ASSUME TypeOK, NEW bits \in SUBSET Bit, WriteExternalInput(bits)
  PROVE  TypeOK'
BY DEF WriteExternalInput, Written, core, TypeOK

LEMMA BreakpointKept ==
  ASSUME TypeOK, NEW a, SetBreakpoint(a) \/ ClearBreakpoint(a)
  PROVE  TypeOK' /\ UNCHANGED <<core, flash, external_input>>
<1>1. breakpoints' \in SUBSET FlashAddress /\ call' = "write"
      /\ UNCHANGED <<core, flash, external_input, cycle_count>>
  BY DEF SetBreakpoint, ClearBreakpoint, Written, TypeOK
<1>2. ret' \in BOOLEAN
  BY WrittenType, Zenon DEF SetBreakpoint, ClearBreakpoint
<1>. QED BY <1>1, <1>2 DEF TypeOK, core

\* The demo's state depends on the core alone.
LEMMA DemoStutters ==
  ASSUME UNCHANGED core
  PROVE  /\ DemoState => DemoState'
         /\ Sampled' <=> Sampled
         /\ PinDriven' <=> PinDriven
<1>. USE DEF core
<1>1. DemoState => DemoState'
  BY DEF DemoState
<1>2. PinDriven' <=> PinDriven
  BY DEF PinDriven
<1>3. Sampled' <=> Sampled
  BY DEF Sampled, PinDriven
<1>. QED BY <1>1, <1>2, <1>3

\* Where it starts.
LEMMA DemoStarts ==
  /\ Init => DemoState /\ ~Sampled /\ ~PinDriven /\ external_input = {}
  /\ Reset => DemoState' /\ ~Sampled' /\ ~PinDriven' /\ external_input' = {}
<1>1. (pc = 0 /\ ddrb = {} /\ portb = {}) => (DemoState /\ ~Sampled /\ ~PinDriven)
  BY DEF DemoState, Sampled, PinDriven
<1>2. (pc' = 0 /\ ddrb' = {} /\ portb' = {}) => (DemoState' /\ ~Sampled' /\ ~PinDriven')
  BY DEF DemoState, Sampled, PinDriven
<1>. QED BY <1>1, <1>2 DEF Init, Reset

-----------------------------------------------------------------------------
\* A step of the pins that AvrMirror allows.
InputLevel == 0 \in external_input

MirrorStep ==
  \/ /\ InputLevel' <=> ~InputLevel
     /\ Sampled' <=> Sampled
     /\ PinDriven' <=> PinDriven
  \/ /\ Sampled <=> PinDriven
     /\ Sampled' <=> InputLevel
     /\ InputLevel' <=> InputLevel
     /\ PinDriven' <=> PinDriven
  \/ /\ PinDriven' <=> Sampled
     /\ InputLevel' <=> InputLevel
     /\ Sampled' <=> Sampled
  \/ ~InputLevel' /\ ~Sampled' /\ ~PinDriven'
  \/ /\ InputLevel' <=> InputLevel
     /\ Sampled' <=> Sampled
     /\ PinDriven' <=> PinDriven

LEMMA SampledIsALevel == Sampled \in BOOLEAN
<1>1. CASE pc \in {4, 5}
  <2>0. pc # 6 /\ pc # 8
    BY <1>1
  <2>1. Sampled = (0 \in BitsOf(registers[17]))
    BY <1>1, <2>0, Zenon DEF Sampled
  <2>. QED BY <2>1
<1>2. CASE pc = 6 \/ pc = 8
  <2>0. pc \notin {4, 5} /\ (pc = 6 => pc # 8)
    BY <1>2
  <2>. QED BY <1>2, <2>0, Zenon DEF Sampled
<1>3. CASE pc \notin {4, 5, 6, 8}
  <2>1. Sampled = PinDriven
    BY <1>3 DEF Sampled
  <2>. QED BY <2>1 DEF PinDriven
<1>. QED BY <1>1, <1>2, <1>3

\* A step of the demo is one of them, and so is what leaves the core alone.
LEMMA StepMirrors ==
  ASSUME TypeOK, DemoFits, DemoLoaded, DemoState, Step
  PROVE  MirrorStep
<1>1. InputLevel' <=> InputLevel
  BY DemoStepMirrors DEF InputLevel
<1>. QED BY <1>1, DemoStepMirrors DEF MirrorStep, InputLevel

LEMMA InputMirrors ==
  ASSUME UNCHANGED core
  PROVE  MirrorStep
BY DemoStutters, Zenon DEF MirrorStep

LEMMA ResetMirrors == Reset => MirrorStep
<1>1. Reset => ~InputLevel'
  BY DEF Reset, InputLevel
<1>. QED BY <1>1, DemoStarts DEF MirrorStep
=============================================================================
