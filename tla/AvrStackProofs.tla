--------------------------- MODULE AvrStackProofs ---------------------------
(***************************************************************************)
(* The stack instructions implement the abstract stack of AvrStack, for    *)
(* any size of SRAM and whatever other instructions the program mixes in.  *)
(***************************************************************************)
EXTENDS MCStack, AvrMcuProofs, SequenceTheorems

\* What the refinement rests on: the stack pointer never leaves SRAM.
StackInv == TypeOK /\ sp \in 0..SramSize

LEMMA BytesFromProperties ==
  ASSUME NEW memory \in [SramAddress -> Byte], NEW bottom \in 0..SramSize
  PROVE  /\ BytesFrom(memory, bottom) \in Seq(Byte)
         /\ Len(BytesFrom(memory, bottom)) = SramSize - bottom
         /\ \A k \in 1..(SramSize - bottom) :
              BytesFrom(memory, bottom)[k] = memory[bottom + k - 1]
<1>1. SramSize \in Nat /\ bottom \in Int /\ 0 <= bottom /\ bottom <= SramSize
  BY SramSizeAssumption
<1>2. SramSize - bottom \in Nat
  BY <1>1
<1>3. \A k \in 1..(SramSize - bottom) : memory[bottom + k - 1] \in Byte
  BY <1>1 DEF SramAddress
<1>. QED BY <1>2, <1>3 DEF BytesFrom

LEMMA EmptyStack ==
  ASSUME NEW memory \in [SramAddress -> Byte]
  PROVE  BytesFrom(memory, SramSize) = <<>>
<1>1. SramSize \in 0..SramSize
  BY SramSizeAssumption
<1>2. /\ BytesFrom(memory, SramSize) \in Seq(Byte)
      /\ Len(BytesFrom(memory, SramSize)) = 0
  BY <1>1, BytesFromProperties, SramSizeAssumption
<1>. QED BY <1>2, EmptySeq

\* A longer stack is the bytes below the old stack pointer, then the old stack.
LEMMA PushedBytes ==
  ASSUME NEW old \in [SramAddress -> Byte], NEW new \in [SramAddress -> Byte],
         NEW bottom \in 0..SramSize, NEW top \in Seq(Byte),
         Len(top) <= bottom,
         \A k \in 1..Len(top) : new[bottom - Len(top) + k - 1] = top[k],
         \A a \in SramAddress : a >= bottom => new[a] = old[a]
  PROVE  BytesFrom(new, bottom - Len(top)) = top \o BytesFrom(old, bottom)
<1>. DEFINE n == Len(top)
            before == BytesFrom(old, bottom)
            after == BytesFrom(new, bottom - n)
<1>1. /\ SramSize \in Nat /\ bottom \in Int /\ 0 <= bottom /\ bottom <= SramSize
      /\ n \in Nat /\ n <= bottom
  BY SramSizeAssumption, LenProperties
<1>2. bottom - n \in 0..SramSize
  BY <1>1
<1>3. /\ before \in Seq(Byte) /\ Len(before) = SramSize - bottom
      /\ \A k \in 1..(SramSize - bottom) : before[k] = old[bottom + k - 1]
  BY BytesFromProperties
<1>4. /\ after \in Seq(Byte) /\ Len(after) = SramSize - (bottom - n)
      /\ \A k \in 1..(SramSize - (bottom - n)) : after[k] = new[bottom - n + k - 1]
  BY <1>2, BytesFromProperties
<1>. HIDE DEF before, after
<1>5. /\ top \o before \in Seq(Byte)
      /\ Len(top \o before) = n + (SramSize - bottom)
      /\ \A k \in 1..(n + (SramSize - bottom)) :
           (top \o before)[k] = IF k <= n THEN top[k] ELSE before[k - n]
  <2>1. /\ top \o before \in Seq(Byte)
        /\ Len(top \o before) = Len(top) + Len(before)
        /\ \A k \in 1..Len(top) + Len(before) :
             (top \o before)[k] = IF k <= Len(top) THEN top[k] ELSE before[k - Len(top)]
    BY <1>3, ConcatProperties, Zenon
  <2>. QED BY <1>3, <2>1, Zenon
<1>6. ASSUME NEW k \in 1..Len(after)
      PROVE  after[k] = (top \o before)[k]
  <2>. HIDE DEF n
  <2>1. k \in Int /\ 1 <= k /\ k <= n + (SramSize - bottom)
    BY <1>1, <1>4
  <2>2. CASE k <= n
    <3>1. after[k] = new[bottom - n + k - 1]
      BY <1>1, <1>4, <2>1
    <3>2. k \in 1..n
      BY <1>1, <2>1, <2>2
    <3>. QED BY <1>1, <1>5, <2>1, <2>2, <3>1, <3>2 DEF n
  <2>3. CASE ~(k <= n)
    <3>1. after[k] = new[bottom - n + k - 1]
      BY <1>1, <1>4, <2>1
    <3>2. (top \o before)[k] = before[k - n]
      BY <1>1, <1>5, <2>1, <2>3, SMTT(30)
    <3>3. before[k - n] = old[bottom + (k - n) - 1]
      BY <1>1, <1>3, <2>1, <2>3
    <3>4. bottom - n + k - 1 \in SramAddress /\ bottom - n + k - 1 >= bottom
      BY <1>1, <2>1, <2>3 DEF SramAddress
    <3>5. bottom - n + k - 1 = bottom + (k - n) - 1
      BY <1>1, <2>1
    <3>. QED BY <3>1, <3>2, <3>3, <3>4, <3>5
  <2>. QED BY <2>2, <2>3
<1>7. Len(after) = Len(top \o before)
  BY <1>1, <1>4, <1>5
<1>8. after = top \o before
  BY <1>4, <1>5, <1>6, <1>7, SeqEqual
<1>. QED BY <1>8 DEF before, after, n

\* A shorter stack is what remains past the bytes taken.
LEMMA PoppedBytes ==
  ASSUME NEW memory \in [SramAddress -> Byte], NEW bottom \in 0..SramSize,
         NEW n \in Nat, bottom + n <= SramSize
  PROVE  BytesFrom(memory, bottom + n)
           = SubSeq(BytesFrom(memory, bottom), n + 1, Len(BytesFrom(memory, bottom)))
<1>. DEFINE before == BytesFrom(memory, bottom)
            after == BytesFrom(memory, bottom + n)
            rest == SubSeq(before, n + 1, SramSize - bottom)
<1>1. SramSize \in Nat /\ bottom \in Int /\ 0 <= bottom /\ bottom <= SramSize
  BY SramSizeAssumption
<1>2. /\ before \in Seq(Byte) /\ Len(before) = SramSize - bottom
      /\ \A k \in 1..(SramSize - bottom) : before[k] = memory[bottom + k - 1]
  BY BytesFromProperties
<1>3. /\ after \in Seq(Byte) /\ Len(after) = SramSize - (bottom + n)
      /\ \A k \in 1..(SramSize - (bottom + n)) : after[k] = memory[bottom + n + k - 1]
  <2>1. bottom + n \in 0..SramSize
    BY <1>1
  <2>. QED BY <2>1, BytesFromProperties
<1>. HIDE DEF before, after
<1>4. \A k \in (n + 1)..(SramSize - bottom) : before[k] \in Byte
  BY <1>1, <1>2, ElementOfSeq
<1>5. /\ rest \in Seq(Byte)
      /\ Len(rest) = IF n + 1 <= SramSize - bottom
                     THEN (SramSize - bottom) - (n + 1) + 1 ELSE 0
      /\ \A k \in 1..((SramSize - bottom) - (n + 1) + 1) : rest[k] = before[(n + 1) + k - 1]
  <2>1. n + 1 \in Int /\ SramSize - bottom \in Int
    BY <1>1
  <2>. HIDE DEF rest
  <2>. QED BY <1>4, <2>1, SubSeqProperties DEF rest
<1>. HIDE DEF rest
<1>6. Len(rest) = SramSize - (bottom + n)
  BY <1>1, <1>5
<1>7. ASSUME NEW k \in 1..Len(after)
      PROVE  after[k] = rest[k]
  <2>1. k \in Int /\ 1 <= k /\ k <= SramSize - (bottom + n)
    BY <1>1, <1>3
  <2>2. after[k] = memory[bottom + n + k - 1]
    BY <1>1, <1>3, <2>1
  <2>3. rest[k] = before[(n + 1) + k - 1]
    BY <1>1, <1>5, <2>1
  <2>4. before[(n + 1) + k - 1] = memory[bottom + ((n + 1) + k - 1) - 1]
    BY <1>1, <1>2, <2>1
  <2>5. bottom + n + k - 1 = bottom + ((n + 1) + k - 1) - 1
    BY <1>1, <2>1
  <2>. QED BY <2>2, <2>3, <2>4, <2>5
<1>8. after = rest
  BY <1>3, <1>5, <1>6, <1>7, SeqEqual
<1>. QED BY <1>2, <1>8 DEF before, after, rest
-----------------------------------------------------------------------------
(***************************************************************************)
(* The invariant: types, and a stack pointer inside SRAM or just above it. *)
(***************************************************************************)
LEMMA HostMoveKeepsStackInv ==
  ASSUME StackInv, HostMove
  PROVE  StackInv' /\ UNCHANGED <<sp, sram>>
<1>1. ASSUME NEW r \in Register, NEW value \in Byte, WriteRegister(r, value)
      PROVE  StackInv' /\ UNCHANGED <<sp, sram>>
  <2>1. r < RegisterCount
    BY DEF Register, RegisterCount
  <2>2. registers' \in [Register -> Byte]
    BY <1>1, <2>1 DEF WriteRegister, StackInv, TypeOK
  <2>3. call' = "write" /\ ret' = TRUE
    BY <1>1, <2>1 DEF WriteRegister, Written
  <2>4. UNCHANGED <<pc, sreg, flash, sram, ddrb, portb, external_input, sp,
                    cycle_count, breakpoints>>
    BY <1>1 DEF WriteRegister
  <2>. QED BY <2>2, <2>3, <2>4 DEF StackInv, TypeOK
<1>2. CASE WritePc(Origin)
  <2>1. Origin \in Word
    BY InWord DEF Origin
  <2>. QED BY <1>2, <2>1 DEF WritePc, Written, StackInv, TypeOK
<1>3. ASSUME NEW value \in HostBytes, WriteRegister(16, value)
      PROVE  StackInv' /\ UNCHANGED <<sp, sram>>
  BY <1>1, <1>3, HostAssumption DEF Register, RegisterCount
<1>4. ASSUME NEW low \in HostWords \cap Byte, WriteRegister(26, low)
      PROVE  StackInv' /\ UNCHANGED <<sp, sram>>
  BY <1>1, <1>4 DEF Register, RegisterCount
<1>. QED BY <1>2, <1>3, <1>4 DEF HostMove

LEMMA ExecuteKeepsStackInv ==
  ASSUME StackInv, NEW i \in HostInstructions, ExecuteInstruction(i)
  PROVE  StackInv'
<1>1. i \in Instruction
  BY HostAssumption
<1>2. TypeOK'
  BY <1>1, ExecuteInstructionTypeOK DEF StackInv
<1>3. sp' \in 0..SramSize
  BY <1>1, ExecuteKeepsStackPointer DEF StackInv, ExecuteInstruction
<1>. QED BY <1>2, <1>3 DEF StackInv

LEMMA StackInvHolds == MCSpec => []StackInv
<1>1. MCInit => StackInv
  BY InitTypeOK, SramSizeAssumption DEF MCInit, Init, StackInv
<1>2. StackInv /\ [MCNext]_stackvars => StackInv'
  <2>. SUFFICES ASSUME StackInv, [MCNext]_stackvars PROVE StackInv'
    OBVIOUS
  <2>1. ASSUME NEW i \in HostInstructions, Execute1(i)
        PROVE  StackInv'
    BY <2>1, ExecuteKeepsStackInv DEF Execute1
  <2>2. CASE HostMove
    BY <2>2, HostMoveKeepsStackInv
  <2>3. CASE HostReset
    BY <2>3, ResetTypeOK, SramSizeAssumption DEF HostReset, Reset, StackInv
  <2>4. CASE UNCHANGED stackvars
    BY <2>4, StutterTypeOK DEF stackvars, vars, StackInv
  <2>. QED BY <2>1, <2>2, <2>3, <2>4 DEF MCNext
<1>. QED BY <1>1, <1>2, PTL DEF MCSpec
-----------------------------------------------------------------------------
(***************************************************************************)
(* Each instruction is a step of the abstract stack.                       *)
(***************************************************************************)
LEMMA PushRefines ==
  ASSUME StackInv, StackInv', NEW i \in Instruction, Accepts(i), Push(i),
         moved' = registers[i.source_register]
  PROVE  Stack!Push
<1>1. /\ sp \in Int /\ 1 <= sp /\ sp <= SramSize /\ SramSize \in Nat
      /\ sp' = sp - 1
  <2>1. i.operation = "PUSH" /\ sp' = sp - 1
    BY DEF Push
  <2>2. sp # 0
    BY <2>1 DEF Accepts, StackAccepted
  <2>. QED BY <2>1, <2>2, SramSizeAssumption DEF StackInv
<1>2. moved' \in Byte
  <2>1. i.source_register \in Register
    BY OperandTypes DEF Push, TwoOperand, WithSource
  <2>. QED BY <2>1 DEF StackInv, TypeOK
<1>3. sram \in [SramAddress -> Byte] /\ sram' \in [SramAddress -> Byte]
  BY DEF StackInv, TypeOK
<1>4. sram' = [sram EXCEPT ![sp - 1] = moved']
  BY DEF Push
<1>5. sp - 1 \in SramAddress
  BY <1>1 DEF SramAddress
<1>6. <<moved'>> \in Seq(Byte) /\ Len(<<moved'>>) = 1
  BY <1>2
<1>7. \A k \in 1..Len(<<moved'>>) : sram'[sp - Len(<<moved'>>) + k - 1] = <<moved'>>[k]
  BY <1>1, <1>3, <1>4, <1>5, <1>6
<1>8. \A a \in SramAddress : a >= sp => sram'[a] = sram[a]
  BY <1>1, <1>3, <1>4 DEF SramAddress
<1>9. BytesFrom(sram', sp - Len(<<moved'>>)) = <<moved'>> \o BytesFrom(sram, sp)
  BY <1>1, <1>3, <1>6, <1>7, <1>8, PushedBytes DEF StackInv
<1>10. BytesFrom(sram', sp') = <<moved'>> \o BytesFrom(sram, sp)
  BY <1>1, <1>6, <1>9
<1>11. Len(BytesFrom(sram, sp)) < SramSize
  <2>1. Len(BytesFrom(sram, sp)) = SramSize - sp
    BY <1>3, BytesFromProperties DEF StackInv
  <2>. QED BY <1>1, <2>1
<1>. QED BY <1>2, <1>10, <1>11 DEF Stack!Push, Stack!Byte, Byte

LEMMA CallRefines ==
  ASSUME StackInv, StackInv', NEW i \in Instruction, Accepts(i), Call(i),
         moved' = ToWord(pc + 1)
  PROVE  Stack!PushAddress
<1>1. /\ sp \in Int /\ 2 <= sp /\ sp <= SramSize /\ SramSize \in Nat
      /\ sp' = sp - 2
  <2>1. i.operation = "CALL" /\ sp' = sp - 2
    BY DEF Call
  <2>2. sp >= 2
    BY <2>1 DEF Accepts, StackAccepted
  <2>. QED BY <2>1, <2>2, SramSizeAssumption DEF StackInv
<1>2. moved' = NextPc /\ moved' \in Word
  BY NextPcType DEF NextPc, StackInv, TypeOK
<1>. DEFINE top == <<LowByte(moved'), HighByte(moved')>>
<1>3. LowByte(moved') \in Byte /\ HighByte(moved') \in Byte
  BY <1>2, LowByteType, HighByteType
<1>4. /\ top \in Seq(Byte) /\ Len(top) = 2
      /\ top[1] = LowByte(moved') /\ top[2] = HighByte(moved')
  BY <1>3
<1>5. sram \in [SramAddress -> Byte] /\ sram' \in [SramAddress -> Byte]
  BY DEF StackInv, TypeOK
<1>6. /\ sram'[sp - 2] = LowByte(moved')
      /\ sram'[sp - 1] = HighByte(moved')
      /\ \A a \in SramAddress : a >= sp => sram'[a] = sram[a]
  <2>1. sram' = StoreTwo(sp - 1, HighByte(moved'), sp - 2, LowByte(moved'))
    BY <1>2 DEF Call, StoreReturnAddress
  <2>2. sp - 2 \in SramAddress /\ sp - 1 \in SramAddress
    BY <1>1 DEF SramAddress
  <2>3. \A a \in SramAddress :
          sram'[a] = IF a = sp - 2 /\ sp - 1 < SramSize THEN LowByte(moved')
                     ELSE IF a = sp - 1 THEN HighByte(moved') ELSE sram[a]
    BY <2>1 DEF StoreTwo
  <2>4. sp - 1 < SramSize /\ sp - 1 # sp - 2
    BY <1>1
  <2>5. \A a \in SramAddress : a >= sp => a # sp - 1 /\ a # sp - 2
    BY <1>1 DEF SramAddress
  <2>. QED BY <2>2, <2>3, <2>4, <2>5
<1>. HIDE DEF top
<1>7. \A k \in 1..Len(top) : sram'[sp - Len(top) + k - 1] = top[k]
  <2>. SUFFICES ASSUME NEW k \in 1..2 PROVE sram'[sp - 2 + k - 1] = top[k]
    BY <1>4
  <2>1. CASE k = 1
    BY <1>1, <1>4, <1>6, <2>1
  <2>2. CASE k = 2
    BY <1>1, <1>4, <1>6, <2>2
  <2>. QED BY <2>1, <2>2
<1>8. BytesFrom(sram', sp - Len(top)) = top \o BytesFrom(sram, sp)
  BY <1>1, <1>4, <1>5, <1>6, <1>7, PushedBytes DEF StackInv
<1>9. BytesFrom(sram', sp') = top \o BytesFrom(sram, sp)
  BY <1>1, <1>4, <1>8
<1>10. Len(BytesFrom(sram, sp)) + 2 <= SramSize
  BY <1>1, <1>5, BytesFromProperties DEF StackInv
<1>11. top = <<Stack!LowByte(moved'), Stack!HighByte(moved')>>
  BY DEF top, LowByte, HighByte, Stack!LowByte, Stack!HighByte
<1>12. BytesFrom(sram', sp')
         = <<Stack!LowByte(moved'), Stack!HighByte(moved')>> \o BytesFrom(sram, sp)
  BY <1>9, <1>11, Zenon
<1>13. moved' \in Stack!Word
  <2>1. Stack!Word = Word
    <3>1. Stack!MaxWord = MaxWord
      BY DEF MaxWord, Stack!MaxWord
    <3>. QED BY <3>1 DEF Word, Stack!Word
  <2>2. moved' \in Word
    BY <1>2
  <2>. QED BY <2>1, <2>2, Zenon
<1>. QED BY <1>10, <1>12, <1>13, Zenon DEF Stack!PushAddress

LEMMA PopRefines ==
  ASSUME StackInv, StackInv', NEW i \in Instruction, Accepts(i), Pop(i),
         moved' = registers'[i.destination_register]
  PROVE  Stack!Pop
<1>. DEFINE stack == BytesFrom(sram, sp)
<1>1. /\ sp \in Int /\ 0 <= sp /\ sp < SramSize /\ SramSize \in Nat
      /\ sp' = sp + 1 /\ sram' = sram
  <2>1. i.operation = "POP" /\ sp' = sp + 1 /\ sram' = sram
    BY DEF Pop
  <2>2. sp < SramSize
    BY <2>1 DEF Accepts, StackAccepted
  <2>. QED BY <2>1, <2>2, SramSizeAssumption DEF StackInv
<1>2. sram \in [SramAddress -> Byte]
  BY DEF StackInv, TypeOK
<1>3. moved' = sram[sp]
  <2>1. i.destination_register \in Register
    BY OperandTypes
  <2>. QED BY <2>1 DEF Pop, SetRegister, StackInv, TypeOK
<1>4. /\ stack \in Seq(Byte) /\ Len(stack) = SramSize - sp
      /\ \A k \in 1..(SramSize - sp) : stack[k] = sram[sp + k - 1]
  BY <1>2, BytesFromProperties DEF StackInv
<1>5. BytesFrom(sram, sp + 1) = SubSeq(stack, 1 + 1, Len(stack))
  <2>1. 1 \in Nat /\ sp + 1 <= SramSize
    BY <1>1
  <2>. QED BY <1>2, <2>1, PoppedBytes, Zenon DEF StackInv
<1>. HIDE DEF stack
<1>6. stack # <<>>
  BY <1>1, <1>4
<1>7. stack[1] = sram[sp]
  BY <1>1, <1>4
<1>8. Head(stack) = stack[1]
  OBVIOUS
<1>9. Tail(stack) = SubSeq(stack, 2, Len(stack))
  BY <1>4, <1>6, TailIsSubSeq
<1>10. BytesFrom(sram', sp') = Tail(stack)
  BY <1>1, <1>5, <1>9
<1>. QED BY <1>3, <1>6, <1>7, <1>8, <1>10 DEF stack, Stack!Pop

LEMMA RetRefines ==
  ASSUME StackInv, StackInv', NEW i \in Instruction, Accepts(i), Ret(i),
         moved' = pc'
  PROVE  Stack!PopAddress
<1>. DEFINE stack == BytesFrom(sram, sp)
<1>1. /\ sp \in Int /\ 0 <= sp /\ sp + 2 <= SramSize /\ SramSize \in Nat
      /\ sp' = sp + 2 /\ sram' = sram /\ pc' = WordOf(sram[sp + 1], sram[sp])
  <2>1. /\ i.operation = "RET" /\ sp' = sp + 2 /\ sram' = sram
        /\ pc' = WordOf(sram[sp + 1], sram[sp])
    BY DEF Ret
  <2>2. sp <= SramSize - 2
    BY <2>1 DEF Accepts, StackAccepted
  <2>. QED BY <2>1, <2>2, SramSizeAssumption DEF StackInv
<1>2. sram \in [SramAddress -> Byte]
  BY DEF StackInv, TypeOK
<1>3. /\ stack \in Seq(Byte) /\ Len(stack) = SramSize - sp
      /\ \A k \in 1..(SramSize - sp) : stack[k] = sram[sp + k - 1]
  BY <1>2, BytesFromProperties DEF StackInv
<1>4. BytesFrom(sram, sp + 2) = SubSeq(stack, 2 + 1, Len(stack))
  BY <1>1, <1>2, PoppedBytes DEF StackInv
<1>. HIDE DEF stack
<1>5. stack[1] = sram[sp] /\ stack[2] = sram[sp + 1]
  BY <1>1, <1>3
<1>6. Len(stack) >= 2
  BY <1>1, <1>3
<1>7. moved' = WordOf(stack[2], stack[1])
  BY <1>1, <1>5
<1>8. BytesFrom(sram', sp') = SubSeq(stack, 3, Len(stack))
  BY <1>1, <1>4
<1>. QED BY <1>6, <1>7, <1>8 DEF stack, WordOf, Stack!PopAddress, Stack!WordOf

\* A store through X reaches the stack when the address is at sp or above it.
LEMMA StoreRefines ==
  ASSUME StackInv, StackInv', NEW i \in Instruction, Accepts(i), St(i),
         moved' = Nothing
  PROVE  Stack!Overwrite \/ Stack!Other
<1>. DEFINE stack == BytesFrom(sram, sp)
            after == BytesFrom(sram', sp')
            value == registers[i.source_register]
            k0 == XPointer - sp + 1
<1>1. /\ sp' = sp /\ sram' = [sram EXCEPT ![XPointer] = value]
      /\ value \in Byte
  <2>1. i.source_register \in Register
    BY OperandTypes DEF St, TwoOperand, WithSource
  <2>. QED BY <2>1 DEF St, StackInv, TypeOK
<1>2. sram \in [SramAddress -> Byte] /\ sram' \in [SramAddress -> Byte]
  BY DEF StackInv, TypeOK
<1>3. sp \in Int /\ 0 <= sp /\ sp <= SramSize /\ SramSize \in Nat
  BY SramSizeAssumption DEF StackInv
<1>4. XPointer \in Int /\ 0 <= XPointer /\ XPointer < SramSize
  <2>1. i.operation = "ST"
    BY DEF St
  <2>2. XPointer < SramSize
    BY <2>1 DEF Accepts, OperandsAccepted
  <2>3. registers[27] \in Byte /\ registers[26] \in Byte
    BY DEF StackInv, TypeOK, Register, RegisterCount
  <2>4. XPointer \in Word
    BY <2>3, WordOfType DEF XPointer
  <2>. QED BY <2>2, <2>4, WordBounds
<1>5. /\ stack \in Seq(Byte) /\ Len(stack) = SramSize - sp
      /\ \A k \in 1..(SramSize - sp) : stack[k] = sram[sp + k - 1]
  BY <1>2, BytesFromProperties DEF StackInv
<1>6. /\ after \in Seq(Byte) /\ Len(after) = SramSize - sp
      /\ \A k \in 1..(SramSize - sp) : after[k] = sram'[sp + k - 1]
  <2>1. sp' = sp /\ sp \in 0..SramSize
    BY <1>1 DEF StackInv
  <2>. QED BY <1>2, <2>1, BytesFromProperties
<1>7. \A a \in SramAddress : sram'[a] = IF a = XPointer THEN value ELSE sram[a]
  BY <1>1, <1>2
<1>. HIDE DEF stack, after, value
<1>8. ASSUME NEW k \in 1..Len(stack)
      PROVE  after[k] = IF k = k0 THEN value ELSE stack[k]
  <2>1. k \in Int /\ 1 <= k /\ k <= SramSize - sp
    BY <1>3, <1>5
  <2>2. sp + k - 1 \in SramAddress
    BY <1>3, <2>1 DEF SramAddress
  <2>3. after[k] = sram'[sp + k - 1] /\ stack[k] = sram[sp + k - 1]
    BY <1>3, <1>5, <1>6, <2>1
  <2>4. sp + k - 1 = XPointer <=> k = k0
    BY <1>3, <1>4, <2>1
  <2>. QED BY <1>7, <2>2, <2>3, <2>4
<1>9. CASE XPointer >= sp
  <2>1. k0 \in 1..Len(stack)
    BY <1>3, <1>4, <1>5, <1>9
  <2>. DEFINE new == [stack EXCEPT ![k0] = value]
  <2>2. /\ new \in Seq(Byte) /\ Len(new) = Len(stack)
        /\ \A k \in 1..Len(stack) : new[k] = IF k = k0 THEN value ELSE stack[k]
    <3>. HIDE DEF k0
    <3>. QED BY <1>1, <1>5, <2>1, ExceptSeq
  <2>. HIDE DEF new, k0
  <2>3. \A k \in 1..Len(after) : after[k] = new[k]
    BY <1>5, <1>6, <1>8, <2>2
  <2>4. after = new
    BY <1>5, <1>6, <2>2, <2>3, SeqEqual
  <2>5. k0 \in DOMAIN stack
    BY <1>5, <2>1, LenProperties
  <2>6. Stack!Overwrite
    BY <1>1, <2>4, <2>5, Zenon
       DEF Stack!Overwrite, Stack!Nothing, Stack!Byte, Byte, Nothing, new, stack, after
  <2>. QED BY <2>6
<1>10. CASE ~(XPointer >= sp)
  <2>1. \A k \in 1..Len(after) : after[k] = stack[k]
    <3>1. \A k \in 1..Len(after) : k # k0
      BY <1>3, <1>4, <1>6, <1>10
    <3>. HIDE DEF k0
    <3>. QED BY <1>5, <1>6, <1>8, <3>1
  <2>2. after = stack
    BY <1>5, <1>6, <2>1, SeqEqual
  <2>. QED BY <2>2 DEF Stack!Other, Stack!Nothing, Nothing, stack, after
<1>. QED BY <1>9, <1>10

LEMMA ExecuteRefines ==
  ASSUME StackInv, StackInv', NEW i \in HostInstructions, Execute1(i)
  PROVE  Stack!Next
<1>1. i \in Instruction /\ Execute(i)
  BY HostAssumption DEF Execute1, ExecuteInstruction
<1>2. CASE ret' = FALSE
  <2>1. UNCHANGED core
    BY <1>1, <1>2, FailedExecuteChangesNothing DEF StackInv
  <2>2. moved' = Nothing
    <3>1. ~ret'
      BY <1>2
    <3>. QED BY <3>1 DEF Execute1
  <2>. QED BY <2>1, <2>2 DEF core, Nothing, Stack!Next, Stack!Other, Stack!Nothing
<1>3. CASE ret' = TRUE
  <2>1. Accepts(i) /\ Perform(i)
    BY <1>1, <1>3 DEF Execute
  <2>2. CASE Push(i)
    <3>1. moved' = registers[i.source_register]
      BY <1>3, <2>2 DEF Push, Execute1
    <3>. QED BY <1>1, <2>1, <2>2, <3>1, PushRefines DEF Stack!Next
  <2>3. CASE Call(i)
    <3>1. moved' = ToWord(pc + 1)
      BY <1>3, <2>3 DEF Call, Execute1
    <3>. QED BY <1>1, <2>1, <2>3, <3>1, CallRefines DEF Stack!Next
  <2>4. CASE Pop(i)
    <3>1. moved' = registers'[i.destination_register]
      BY <1>3, <2>4 DEF Pop, Execute1
    <3>. QED BY <1>1, <2>1, <2>4, <3>1, PopRefines DEF Stack!Next
  <2>5. CASE Ret(i)
    <3>1. moved' = pc'
      BY <1>3, <2>5 DEF Ret, Execute1
    <3>. QED BY <1>1, <2>1, <2>5, <3>1, RetRefines DEF Stack!Next
  <2>6. CASE St(i)
    <3>1. moved' = Nothing
      BY <1>3, <2>6 DEF St, Execute1
    <3>. QED BY <1>1, <2>1, <2>6, <3>1, StoreRefines DEF Stack!Next
  <2>7. CASE ~(Push(i) \/ Call(i) \/ Pop(i) \/ Ret(i) \/ St(i))
    <3>1. /\ UNCHANGED <<sp, sram>>
          /\ i.operation \notin {"PUSH", "CALL", "POP", "RET"}
      BY <2>1, <2>7
         DEF Perform, Ldi, Mov, Add, Sub, Inc, Dec, Logical, Compare, Ld,
             In, Out, PortBit, PortBitOps, Rjmp, Branch, Branches
    <3>2. moved' = Nothing
      BY <1>3, <3>1 DEF Execute1
    <3>. QED BY <3>1, <3>2 DEF Nothing, Stack!Next, Stack!Other, Stack!Nothing
  <2>. QED BY <2>2, <2>3, <2>4, <2>5, <2>6, <2>7
<1>4. ret' \in BOOLEAN
  BY DEF StackInv, TypeOK
<1>. QED BY <1>2, <1>3, <1>4

\* Last in, first out: PUSH, POP, CALL and RET implement the abstract stack
\* of any capacity.  A return address comes back as it was pushed, no byte is
\* pushed beyond SRAM or popped below the bottom, and a refused instruction
\* leaves the stack alone, whatever other instructions come in between
\* (avr_instruction.c:1064-1129).
THEOREM StackIsAStack == MCSpec => IsAStack
<1>1. MCInit => Stack!Init
  <2>. SUFFICES ASSUME MCInit PROVE Stack!Init
    OBVIOUS
  <2>1. sram \in [SramAddress -> Byte] /\ sp = SramSize
    BY InitTypeOK DEF MCInit, Init, TypeOK
  <2>2. BytesFrom(sram, sp) = <<>>
    BY <2>1, EmptyStack
  <2>. QED BY <2>2 DEF MCInit, Nothing, Stack!Init, Stack!Nothing
<1>2. StackInv /\ StackInv' /\ [MCNext]_stackvars => [Stack!Next]_Stack!stackvars
  <2>. SUFFICES ASSUME StackInv, StackInv', [MCNext]_stackvars
                PROVE  [Stack!Next]_Stack!stackvars
    OBVIOUS
  <2>1. ASSUME NEW i \in HostInstructions, Execute1(i)
        PROVE  Stack!Next
    BY <2>1, ExecuteRefines
  <2>2. CASE HostMove
    <3>1. UNCHANGED <<sp, sram>> /\ moved' = Nothing
      BY <2>2, HostMoveKeepsStackInv DEF HostMove
    <3>. QED BY <3>1 DEF Nothing, Stack!Next, Stack!Other, Stack!Nothing
  <2>3. CASE HostReset
    <3>1. sp' = SramSize /\ sram' \in [SramAddress -> Byte] /\ moved' = Nothing
      BY <2>3 DEF HostReset, Reset, StackInv, TypeOK
    <3>2. BytesFrom(sram', sp') = <<>>
      BY <3>1, EmptyStack
    <3>. QED BY <3>1, <3>2 DEF Nothing, Stack!Next, Stack!Other, Stack!Nothing
  <2>4. CASE UNCHANGED stackvars
    BY <2>4 DEF stackvars, vars, Stack!stackvars
  <2>. QED BY <2>1, <2>2, <2>3, <2>4 DEF MCNext
<1>. QED BY <1>1, <1>2, StackInvHolds, PTL DEF MCSpec, IsAStack, Stack!Spec
=============================================================================
