----------------------- MODULE AvrInstructionProofs -----------------------
(***************************************************************************)
(* The encoder and the decoder over all words and all instructions, not    *)
(* only the representatives TLC enumerates: what is decoded is in the      *)
(* range of its C types, no word belongs to two operations, and what is    *)
(* encoded is decoded to the same operation on the same operands.          *)
(***************************************************************************)
EXTENDS AvrInstruction, WellFoundedInduction, TLAPS
-----------------------------------------------------------------------------
(***************************************************************************)
(* Bytes and words stay bytes and words: the bounds and the closure facts  *)
(* of AvrBits that all proofs about the machine cite, so that none of them *)
(* needs to expand Byte or Word.                                           *)
(***************************************************************************)
LEMMA ByteBounds ==
  ASSUME NEW b \in Byte
  PROVE  b \in Int /\ 0 <= b /\ b <= 255
BY DEF Byte

LEMMA WordBounds ==
  ASSUME NEW w \in Word
  PROVE  w \in Int /\ 0 <= w /\ w <= 65535
<1>1. MaxWord = 65535
  BY DEF MaxWord
<1>2. MaxWord \in Int
  BY <1>1
<1>3. w \in Int /\ 0 <= w /\ w <= MaxWord
  BY <1>2 DEF Word
<1>. QED BY <1>1, <1>3

LEMMA InByte ==
  ASSUME NEW b \in Int, 0 <= b, b <= 255
  PROVE  b \in Byte
BY DEF Byte

\* The conversions to uint8_t and uint16_t return a byte and a word.
LEMMA ToByteType ==
  ASSUME NEW n \in Int
  PROVE  ToByte(n) \in Byte
BY DEF ToByte, Byte

LEMMA ToWordType ==
  ASSUME NEW n \in Int
  PROVE  ToWord(n) \in Word
<1>1. ToWord(n) \in Int /\ 0 <= ToWord(n) /\ ToWord(n) <= 65535
  BY DEF ToWord
<1>2. MaxWord = 65535
  BY DEF MaxWord
<1>3. MaxWord \in Int /\ ToWord(n) <= MaxWord
  BY <1>1, <1>2
<1>4. ToWord(n) \in 0..MaxWord
  BY <1>1, <1>3
<1>. QED BY <1>4 DEF Word

LEMMA InWord ==
  ASSUME NEW w \in Int, 0 <= w, w <= 65535
  PROVE  w \in Word
<1>1. ToWord(w) = w
  BY DEF ToWord
<1>. QED BY <1>1, ToWordType

LEMMA HighByteType ==
  ASSUME NEW w \in Word
  PROVE  HighByte(w) \in Byte
<1>1. w \in Int /\ 0 <= w /\ w <= 65535
  BY WordBounds
<1>2. HighByte(w) \in Int /\ 0 <= HighByte(w) /\ HighByte(w) <= 255
  BY <1>1 DEF HighByte
<1>. QED BY <1>2, InByte

LEMMA LowByteType ==
  ASSUME NEW w \in Word
  PROVE  LowByte(w) \in Byte
<1>1. w \in Int
  BY WordBounds
<1>. QED BY <1>1, ToByteType DEF LowByte, ToByte

LEMMA WordOfType ==
  ASSUME NEW high \in Byte, NEW low \in Byte
  PROVE  WordOf(high, low) \in Word
<1>1. /\ high \in Int /\ 0 <= high /\ high <= 255
      /\ low \in Int /\ 0 <= low /\ low <= 255
  BY ByteBounds
<1>2. /\ WordOf(high, low) \in Int
      /\ 0 <= WordOf(high, low)
      /\ WordOf(high, low) <= 65535
  BY <1>1 DEF WordOf
<1>. QED BY <1>2, InWord

\* CALL takes an address apart and RET puts the same address together.
LEMMA WordSurvivesSplitting ==
  ASSUME NEW w \in Word
  PROVE  WordOf(HighByte(w), LowByte(w)) = w
<1>1. w \in Int
  BY WordBounds
<1>. QED BY <1>1 DEF WordOf, HighByte, LowByte

LEMMA Int16Bounds ==
  ASSUME NEW n \in Int, -32768 <= n, n <= 32767
  PROVE  n \in Int16
<1>1. MaxInt16 = 32767
  BY DEF MaxInt16
<1>2. MaxInt16 \in Int /\ -MaxInt16 - 1 <= n /\ n <= MaxInt16
  BY <1>1
<1>. QED BY <1>2 DEF Int16

LEMMA InInt16 ==
  ASSUME NEW n \in Int, -2048 <= n, n <= 2047
  PROVE  n \in Int16
BY Int16Bounds

LEMMA Int16IsInt == Int16 \subseteq Int
<1>1. MaxInt16 \in Int
  BY DEF MaxInt16
<1>. QED BY <1>1 DEF Int16

LEMMA ByteOfType ==
  ASSUME NEW S
  PROVE  ByteOf(S) \in Byte
<1>1. \A i, weight : BitValue(S, i, weight) = weight \/ BitValue(S, i, weight) = 0
  BY DEF BitValue
<1>2. ByteOf(S) \in Int /\ 0 <= ByteOf(S) /\ ByteOf(S) <= 255
  BY <1>1 DEF ByteOf
<1>. QED BY <1>2, InByte
-----------------------------------------------------------------------------
(***************************************************************************)
(* The decoder.                                                            *)
(***************************************************************************)
LEMMA OrderedOperations ==
  /\ DOMAIN DecodeOrder = 1..24
  /\ \A k \in 1..24 : DecodeOrder[k] \in Operations
BY DEF DecodeOrder, Operations, WithConstant, WithTwoRegisters, WithDestination,
       WithSource, PortTransfers, Branches, PortBitOps

\* Induction over the natural numbers, as a fact about sets.
LEMMA LeastElement ==
  ASSUME NEW S, S \subseteq Nat, S # {}
  PROVE  \E k \in S : \A m \in S : k <= m
<1>. DEFINE Less == OpToRel(<, Nat)
<1>1. IsWellFoundedOn(Less, Nat)
  BY NatLessThanWellFounded
<1>2. \A m, n \in Nat : m < n => <<m, n>> \in Less
  BY DEF OpToRel
<1>. HIDE DEF Less
<1>3. PICK k \in S : \A m \in S : ~(<<m, k>> \in Less)
  BY <1>1, WFMin
<1>4. \A m \in S : k <= m
  <2>1. TAKE m \in S
  <2>2. m \in Nat /\ k \in Nat
    OBVIOUS
  <2>3. ~(m < k)
    BY <1>2, <1>3, <2>2
  <2>. QED BY <2>2, <2>3
<1>. QED BY <1>4

LEMMA Induction ==
  ASSUME NEW N \in Nat, NEW S, 0 \in S,
         \A n \in 1..N : n - 1 \in S => n \in S
  PROVE  \A n \in 0..N : n \in S
<1>. DEFINE T == {n \in 0..N : n \notin S}
<1>1. SUFFICES ASSUME T # {}
               PROVE  FALSE
  OBVIOUS
<1>2. T \subseteq Nat
  OBVIOUS
<1>3. PICK k \in T : \A m \in T : k <= m
  <2>. HIDE DEF T
  <2>. QED BY <1>1, <1>2, LeastElement, Zenon
<1>4. k \in 1..N /\ k - 1 \in 0..N
  OBVIOUS
<1>5. k - 1 \in S
  BY <1>3, <1>4
<1>. QED BY <1>4, <1>5

\* The decoder's if-chain has a first branch that matches.
LEMMA DecodeOperationType ==
  ASSUME NEW w, Decodes(w)
  PROVE  DecodeOperation(w) \in Operations /\ Matches(DecodeOperation(w), w)
<1>. DEFINE S == {k \in 1..24 : Matches(DecodeOrder[k], w)}
<1>1. S # {} /\ S \subseteq Nat
  BY OrderedOperations DEF Decodes
<1>2. PICK k \in S : \A m \in S : k <= m
  <2>. HIDE DEF S
  <2>. QED BY <1>1, LeastElement
<1>3. k \in DOMAIN DecodeOrder /\ Matches(DecodeOrder[k], w)
  BY OrderedOperations
<1>4. \A j \in 1..(k - 1) : ~Matches(DecodeOrder[j], w)
  <2>1. SUFFICES ASSUME NEW j \in 1..(k - 1), Matches(DecodeOrder[j], w)
                 PROVE  FALSE
    OBVIOUS
  <2>2. j \in S /\ j < k
    BY <2>1
  <2>. QED BY <1>2, <2>2
<1>. DEFINE c == CHOOSE i \in DOMAIN DecodeOrder :
                   /\ Matches(DecodeOrder[i], w)
                   /\ \A j \in 1..(i - 1) : ~Matches(DecodeOrder[j], w)
<1>5. c \in DOMAIN DecodeOrder /\ Matches(DecodeOrder[c], w)
  BY <1>3, <1>4, Zenon
<1>. QED BY <1>5, OrderedOperations, Zenon DEF DecodeOperation

\* The operand fields.
LEMMA ByteFields ==
  ASSUME NEW op, NEW w \in Word
  PROVE  /\ DestinationField(op, w) \in Byte
         /\ SourceField(op, w) \in Byte
         /\ ImmediateField(op, w) \in Byte
         /\ w % 8 \in Byte
<1>1. w \in Int
  BY WordBounds
<1>2. DestinationField(op, w) \in Byte
  <2>1. /\ 16 + ((w \div 16) % 16) \in Byte
        /\ (w \div 16) % 32 \in Byte
        /\ 0 \in Byte
    BY <1>1 DEF Byte
  <2>. QED BY <2>1, Zenon DEF DestinationField
<1>3. SourceField(op, w) \in Byte
  <2>1. /\ ((w \div 512) % 2) * 16 + (w % 16) \in Byte
        /\ (w \div 16) % 32 \in Byte
        /\ 0 \in Byte
    BY <1>1 DEF Byte
  <2>. QED BY <2>1, Zenon DEF SourceField
<1>4. ImmediateField(op, w) \in Byte
  <2>1. /\ ((w \div 256) % 16) * 16 + (w % 16) \in Byte
        /\ ((w \div 512) % 4) * 16 + (w % 16) \in Byte
        /\ (w \div 8) % 32 \in Byte
        /\ 0 \in Byte
    BY <1>1 DEF Byte
  <2>. QED BY <2>1, Zenon DEF ImmediateField
<1>5. w % 8 \in Byte
  BY <1>1 DEF Byte
<1>. QED BY <1>2, <1>3, <1>4, <1>5

LEMMA SignExtendRange ==
  ASSUME NEW w \in Int
  PROVE  /\ SignExtend(w, 4096) \in Int
         /\ -2048 <= SignExtend(w, 4096) /\ SignExtend(w, 4096) <= 2047
         /\ SignExtend(w, 128) \in Int
         /\ -64 <= SignExtend(w, 128) /\ SignExtend(w, 128) <= 63
BY DEF SignExtend

LEMMA OffsetFieldType ==
  ASSUME NEW op, NEW w \in Word, NEW old \in Int16
  PROVE  OffsetField(op, w, old) \in Int16
<1>1. w \in Int /\ w \div 8 \in Int
  BY WordBounds
<1>2. SignExtend(w, 4096) \in Int16
  BY <1>1, SignExtendRange, InInt16
<1>3. SignExtend(w \div 8, 128) \in Int16
  <2>. DEFINE n == w \div 8
  <2>1. SignExtend(n, 128) \in Int /\ -64 <= SignExtend(n, 128) /\ SignExtend(n, 128) <= 63
    BY <1>1, SignExtendRange
  <2>. QED BY <2>1, InInt16
<1>4. 0 \in Int16
  BY InInt16
<1>. QED BY <1>2, <1>3, <1>4 DEF OffsetField

LEMMA TargetFieldType ==
  ASSUME NEW op, NEW w \in Word, NEW old \in Word
  PROVE  TargetField(op, w, old) \in Word
<1>1. w \in Int
  BY WordBounds
<1>2. w % 1024 \in Int /\ 0 <= w % 1024 /\ w % 1024 <= 65535
  BY <1>1
<1>3. w % 1024 \in Word /\ 0 \in Word
  BY <1>2, InWord
<1>. QED BY <1>3 DEF TargetField

THEOREM DecodeType ==
  ASSUME NEW w \in Word, Decodes(w), NEW out \in Instruction
  PROVE  Decode(w, out) \in Instruction
<1>. DEFINE op == DecodeOperation(w)
<1>1. /\ out.bit_index \in Byte
      /\ out.relative_offset \in Int16
      /\ out.target_address \in Word
  BY DEF Instruction
<1>2. op \in Operations
  BY DecodeOperationType
<1>. HIDE DEF op
<1>3. /\ DestinationField(op, w) \in Byte
      /\ SourceField(op, w) \in Byte
      /\ ImmediateField(op, w) \in Byte
      /\ (IF op \in PortBitOps THEN w % 8 ELSE out.bit_index) \in Byte
  BY <1>1, ByteFields
<1>4. /\ OffsetField(op, w, out.relative_offset) \in Int16
      /\ TargetField(op, w, out.target_address) \in Word
  BY <1>1, OffsetFieldType, TargetFieldType
<1>. QED BY <1>2, <1>3, <1>4 DEF Decode, Instruction, op
-----------------------------------------------------------------------------
(***************************************************************************)
(* No two operations share a word.                                         *)
(***************************************************************************)

\* Every pattern is an interval of words, of some only those with the right
\* low bits.
LEMMA PatternIntervals ==
  ASSUME NEW w \in Word
  PROVE  /\ Matches("LDI", w) <=> 57344 <= w /\ w <= 61439
         /\ Matches("CPI", w) <=> 12288 <= w /\ w <= 16383
         /\ Matches("RJMP", w) <=> 49152 <= w /\ w <= 53247
         /\ Matches("MOV", w) <=> 11264 <= w /\ w <= 12287
         /\ Matches("ADD", w) <=> 3072 <= w /\ w <= 4095
         /\ Matches("SUB", w) <=> 6144 <= w /\ w <= 7167
         /\ Matches("AND", w) <=> 8192 <= w /\ w <= 9215
         /\ Matches("OR", w) <=> 10240 <= w /\ w <= 11263
         /\ Matches("EOR", w) <=> 9216 <= w /\ w <= 10239
         /\ Matches("CP", w) <=> 5120 <= w /\ w <= 6143
         /\ Matches("CALL", w) <=> 39936 <= w /\ w <= 40959
         /\ Matches("IN", w) <=> 45056 <= w /\ w <= 47103
         /\ Matches("OUT", w) <=> 47104 <= w /\ w <= 49151
         /\ Matches("SBI", w) <=> 39424 <= w /\ w <= 39679
         /\ Matches("CBI", w) <=> 38912 <= w /\ w <= 39167
         /\ Matches("RET", w) <=> 38152 <= w /\ w <= 38152
         /\ Matches("BRNE", w) <=> 62464 <= w /\ w <= 63487 /\ w % 8 = 1
         /\ Matches("BREQ", w) <=> 61440 <= w /\ w <= 62463 /\ w % 8 = 1
         /\ Matches("LD", w) <=> 36864 <= w /\ w <= 37375 /\ w % 16 = 12
         /\ Matches("POP", w) <=> 36864 <= w /\ w <= 37375 /\ w % 16 = 15
         /\ Matches("ST", w) <=> 37376 <= w /\ w <= 37887 /\ w % 16 = 12
         /\ Matches("PUSH", w) <=> 37376 <= w /\ w <= 37887 /\ w % 16 = 15
         /\ Matches("INC", w) <=> 37888 <= w /\ w <= 38399 /\ w % 16 = 3
         /\ Matches("DEC", w) <=> 37888 <= w /\ w <= 38399 /\ w % 16 = 10
<1>1. w \in Int
  BY WordBounds
<1>2. /\ Matches("LDI", w) <=> 57344 <= w /\ w <= 61439
      /\ Matches("CPI", w) <=> 12288 <= w /\ w <= 16383
      /\ Matches("RJMP", w) <=> 49152 <= w /\ w <= 53247
      /\ Matches("MOV", w) <=> 11264 <= w /\ w <= 12287
      /\ Matches("ADD", w) <=> 3072 <= w /\ w <= 4095
      /\ Matches("SUB", w) <=> 6144 <= w /\ w <= 7167
      /\ Matches("AND", w) <=> 8192 <= w /\ w <= 9215
      /\ Matches("OR", w) <=> 10240 <= w /\ w <= 11263
      /\ Matches("EOR", w) <=> 9216 <= w /\ w <= 10239
      /\ Matches("CP", w) <=> 5120 <= w /\ w <= 6143
      /\ Matches("CALL", w) <=> 39936 <= w /\ w <= 40959
      /\ Matches("IN", w) <=> 45056 <= w /\ w <= 47103
      /\ Matches("OUT", w) <=> 47104 <= w /\ w <= 49151
      /\ Matches("SBI", w) <=> 39424 <= w /\ w <= 39679
      /\ Matches("CBI", w) <=> 38912 <= w /\ w <= 39167
      /\ Matches("RET", w) <=> 38152 <= w /\ w <= 38152
  BY <1>1 DEF Matches, Opcode, AboveOperands, BelowOperands, WithConstant, WithTwoRegisters,
       WithDestination, WithSource, Branches, PortTransfers, PortBitOps
<1>3. /\ Matches("BRNE", w) <=> 62464 <= w /\ w <= 63487 /\ w % 8 = 1
      /\ Matches("BREQ", w) <=> 61440 <= w /\ w <= 62463 /\ w % 8 = 1
  BY <1>1 DEF Matches, Opcode, AboveOperands, BelowOperands, WithConstant, WithTwoRegisters,
       WithDestination, WithSource, Branches, PortTransfers, PortBitOps
<1>4. /\ Matches("LD", w) <=> 36864 <= w /\ w <= 37375 /\ w % 16 = 12
      /\ Matches("POP", w) <=> 36864 <= w /\ w <= 37375 /\ w % 16 = 15
  BY <1>1 DEF Matches, Opcode, AboveOperands, BelowOperands, WithConstant, WithTwoRegisters,
       WithDestination, WithSource, Branches, PortTransfers, PortBitOps
<1>5. /\ Matches("ST", w) <=> 37376 <= w /\ w <= 37887 /\ w % 16 = 12
      /\ Matches("PUSH", w) <=> 37376 <= w /\ w <= 37887 /\ w % 16 = 15
  BY <1>1 DEF Matches, Opcode, AboveOperands, BelowOperands, WithConstant, WithTwoRegisters,
       WithDestination, WithSource, Branches, PortTransfers, PortBitOps
<1>6. /\ Matches("INC", w) <=> 37888 <= w /\ w <= 38399 /\ w % 16 = 3
      /\ Matches("DEC", w) <=> 37888 <= w /\ w <= 38399 /\ w % 16 = 10
  BY <1>1 DEF Matches, Opcode, AboveOperands, BelowOperands, WithConstant, WithTwoRegisters,
       WithDestination, WithSource, Branches, PortTransfers, PortBitOps
<1>. QED BY <1>2, <1>3, <1>4, <1>5, <1>6

LEMMA OnePattern ==
  ASSUME NEW w \in Word, NEW a \in Operations, NEW b \in Operations,
         Matches(a, w), Matches(b, w)
  PROVE  a = b
<1>1. w \in Int
  BY WordBounds
<1>2. CASE w < 36864
  BY <1>1, <1>2, PatternIntervals DEF Operations, WithConstant, WithTwoRegisters,
     WithDestination, WithSource, Branches, PortTransfers, PortBitOps
<1>3. CASE 36864 <= w /\ w < 40960
  BY <1>1, <1>3, PatternIntervals DEF Operations, WithConstant, WithTwoRegisters,
     WithDestination, WithSource, Branches, PortTransfers, PortBitOps
<1>4. CASE 40960 <= w
  BY <1>1, <1>4, PatternIntervals DEF Operations, WithConstant, WithTwoRegisters,
     WithDestination, WithSource, Branches, PortTransfers, PortBitOps
<1>. QED BY <1>1, <1>2, <1>3, <1>4

\* The decoder takes the branch of the only operation that matches.
LEMMA DecodedOperation ==
  ASSUME NEW w \in Word, NEW op \in Operations, Matches(op, w)
  PROVE  Decodes(w) /\ DecodeOperation(w) = op
<1>1. \E k \in DOMAIN DecodeOrder : DecodeOrder[k] = op
  BY OrderedOperations
     DEF DecodeOrder, Operations, WithConstant, WithTwoRegisters, WithDestination,
         WithSource, PortTransfers, Branches, PortBitOps
<1>2. Decodes(w)
  BY <1>1, SMTT(30) DEF Decodes
<1>. QED BY <1>2, DecodeOperationType, OnePattern
-----------------------------------------------------------------------------
(***************************************************************************)
(* What the encoder packs the decoder finds.                               *)
(***************************************************************************)
\* Two instructions that execute alike: the same operation, and the same
\* operands as far as the operation reads them.
SameOperands(i, j) ==
  /\ i.operation = j.operation
  /\ i.destination_register < RegisterCount <=> j.destination_register < RegisterCount
  /\ i.operation \in WithConstant \cup WithTwoRegisters \cup WithDestination \cup {"IN"}
       => i.destination_register = j.destination_register
  /\ i.operation \in WithTwoRegisters \cup WithSource \cup {"OUT"}
       => i.source_register = j.source_register
  /\ i.operation \in WithConstant \cup PortTransfers \cup PortBitOps
       => i.immediate = j.immediate
  /\ i.operation \in PortBitOps => i.bit_index = j.bit_index
  /\ i.operation \in Branches \cup {"RJMP"} => i.relative_offset = j.relative_offset
  /\ i.operation = "CALL" => i.target_address = j.target_address

LEMMA EncodableRanges ==
  ASSUME NEW i \in Instruction, Encodable(i)
  PROVE  /\ i.operation \in Operations
         /\ i.destination_register \in 0..31
         /\ i.operation \in WithConstant => i.destination_register \in 16..31
         /\ i.operation \in WithTwoRegisters \cup WithSource \cup {"OUT"}
              => i.source_register \in 0..31
         /\ i.immediate \in 0..255
         /\ i.operation \in PortTransfers => i.immediate \in 0..63
         /\ i.operation \in PortBitOps => i.immediate \in 0..31 /\ i.bit_index \in 0..7
         /\ i.operation = "RJMP" => i.relative_offset \in -2048..2047
         /\ i.operation \in Branches => i.relative_offset \in -64..63
         /\ i.operation = "CALL" =>
              i.target_address \in Int /\ 0 <= i.target_address /\ i.target_address <= 1023
<1>1. /\ i.operation \in Operations
      /\ i.destination_register \in Byte /\ i.source_register \in Byte
      /\ i.immediate \in Byte /\ i.bit_index \in Byte
      /\ i.target_address \in Word
  BY DEF Instruction
<1>2. /\ i.destination_register \in Int /\ 0 <= i.destination_register
      /\ i.source_register \in Int /\ 0 <= i.source_register
      /\ i.immediate \in Int /\ 0 <= i.immediate /\ i.immediate <= 255
      /\ i.bit_index \in Int /\ 0 <= i.bit_index
      /\ i.target_address \in Int /\ 0 <= i.target_address
  BY <1>1, ByteBounds, WordBounds, SMTT(30)
<1>3. i.operation = "RJMP" => i.relative_offset \in -2048..2047
  BY DEF Encodable, ValidRelativeOffset
<1>4. i.operation \in Branches => i.relative_offset \in -64..63
  BY DEF Encodable, ValidRelativeOffset
<1>5. i.operation = "CALL" =>
        i.target_address \in Int /\ 0 <= i.target_address /\ i.target_address <= 1023
  <2>1. i.operation = "CALL" => i.target_address < FlashSize
    BY DEF Encodable
  <2>. QED BY <1>2, <2>1, FlashSizeAssumption
<1>6. /\ i.destination_register \in 0..31
      /\ i.operation \in WithConstant => i.destination_register \in 16..31
      /\ i.operation \in WithTwoRegisters \cup WithSource \cup {"OUT"}
           => i.source_register \in 0..31
  BY <1>1, <1>2 DEF Encodable, RegisterCount
<1>7. /\ i.immediate \in 0..255
      /\ i.operation \in PortTransfers => i.immediate \in 0..63
      /\ i.operation \in PortBitOps => i.immediate \in 0..31 /\ i.bit_index \in 0..7
  BY <1>1, <1>2, SMTT(30) DEF Encodable
<1>. QED BY <1>1, <1>3, <1>4, <1>5, <1>6, <1>7, SMTT(30)

\* The fields a decoder branch sets.
LEMMA DecodedFields ==
  ASSUME NEW w, NEW out
  PROVE  LET op == DecodeOperation(w)
             j == Decode(w, out)
         IN  /\ j.operation = op
             /\ j.destination_register = DestinationField(op, w)
             /\ j.source_register = SourceField(op, w)
             /\ j.immediate = ImmediateField(op, w)
             /\ op \in PortBitOps => j.bit_index = w % 8
             /\ op = "RJMP" => j.relative_offset = SignExtend(w, 4096)
             /\ op \in Branches => j.relative_offset = SignExtend(w \div 8, 128)
             /\ op = "CALL" => j.target_address = w % 1024
<1>. DEFINE op == DecodeOperation(w)
            j == Decode(w, out)
<1>1. /\ j.operation = op
      /\ j.destination_register = DestinationField(op, w)
      /\ j.source_register = SourceField(op, w)
      /\ j.immediate = ImmediateField(op, w)
      /\ op \in PortBitOps => j.bit_index = w % 8
      /\ j.relative_offset = OffsetField(op, w, out.relative_offset)
      /\ j.target_address = TargetField(op, w, out.target_address)
  BY DEF Decode
<1>. HIDE DEF op, j
<1>2. op = "RJMP" => j.relative_offset = SignExtend(w, 4096)
  BY <1>1 DEF OffsetField, Branches, LeavesOffset
<1>3. op \in Branches => j.relative_offset = SignExtend(w \div 8, 128)
  BY <1>1 DEF OffsetField, Branches, LeavesOffset
<1>4. op = "CALL" => j.target_address = w % 1024
  BY <1>1 DEF TargetField
<1>. QED BY <1>1, <1>2, <1>3, <1>4 DEF op, j

\* What is left to show for an encoded word: the operands are in their fields.
LEMMA FieldsSuffice ==
  ASSUME NEW i \in Instruction, Encodable(i), NEW out, NEW w \in Word,
         Matches(i.operation, w),
         LET op == i.operation
         IN  /\ op \in WithConstant \cup WithTwoRegisters \cup WithDestination \cup {"IN"}
                  => DestinationField(op, w) = i.destination_register
             /\ op \in WithTwoRegisters \cup WithSource \cup {"OUT"}
                  => SourceField(op, w) = i.source_register
             /\ op \in WithConstant \cup PortTransfers \cup PortBitOps
                  => ImmediateField(op, w) = i.immediate
             /\ op \in PortBitOps => w % 8 = i.bit_index
             /\ op = "RJMP" => SignExtend(w, 4096) = i.relative_offset
             /\ op \in Branches => SignExtend(w \div 8, 128) = i.relative_offset
             /\ op = "CALL" => w % 1024 = i.target_address
  PROVE  Decodes(w) /\ SameOperands(Decode(w, out), i)
<1>. DEFINE op == i.operation
            j == Decode(w, out)
<1>1. op \in Operations
  BY EncodableRanges
<1>2. Decodes(w) /\ DecodeOperation(w) = op
  BY <1>1, DecodedOperation
<1>3. /\ j.operation = op
      /\ j.destination_register = DestinationField(op, w)
      /\ j.source_register = SourceField(op, w)
      /\ j.immediate = ImmediateField(op, w)
      /\ op \in PortBitOps => j.bit_index = w % 8
      /\ op = "RJMP" => j.relative_offset = SignExtend(w, 4096)
      /\ op \in Branches => j.relative_offset = SignExtend(w \div 8, 128)
      /\ op = "CALL" => j.target_address = w % 1024
  <2>. HIDE DEF op, j
  <2>. QED BY <1>2, DecodedFields DEF j
<1>4. i.destination_register < RegisterCount
  BY DEF Encodable
<1>5. DestinationField(op, w) < RegisterCount
  <2>1. op \in WithConstant \/ DestinationField(op, w) \in 0..31
    <3>1. (w \div 16) % 32 \in 0..31 /\ 0 \in 0..31
      BY WordBounds
    <3>2. op \notin WithConstant =>
            DestinationField(op, w) = (w \div 16) % 32 \/ DestinationField(op, w) = 0
      <4>. HIDE DEF op
      <4>. QED BY DEF DestinationField, WithConstant, WithTwoRegisters, WithDestination
    <3>. HIDE DEF op
    <3>. QED BY <3>1, <3>2
  <2>2. op \in WithConstant => DestinationField(op, w) = i.destination_register
    OBVIOUS
  <2>. QED BY <1>4, <2>1, <2>2 DEF RegisterCount
<1>. HIDE DEF op, j
<1>6. SameOperands(j, i)
  BY <1>3, <1>4, <1>5, SMTT(30) DEF SameOperands, op
<1>. QED BY <1>2, <1>6 DEF j

\* The fixed bits of an opcode are clear where the operands go.
LEMMA Opcodes ==
  /\ \A op \in Operations : Opcode(op) \in Word
  /\ \A op \in WithConstant \cup {"RJMP"} : Opcode(op) % 4096 = 0
  /\ \A op \in WithTwoRegisters \cup {"CALL"} : Opcode(op) % 1024 = 0
  /\ \A op \in WithDestination \cup WithSource : Opcode(op) % 512 \in 0..15
  /\ \A op \in PortTransfers : Opcode(op) % 2048 = 0
  /\ \A op \in PortBitOps : Opcode(op) % 256 = 0
  /\ \A op \in Branches : Opcode(op) % 1024 = 1
<1>1. /\ Opcode("LDI") = 57344 /\ Opcode("CPI") = 12288 /\ Opcode("RJMP") = 49152
      /\ Opcode("MOV") = 11264 /\ Opcode("ADD") = 3072 /\ Opcode("SUB") = 6144
      /\ Opcode("AND") = 8192 /\ Opcode("OR") = 10240 /\ Opcode("EOR") = 9216
      /\ Opcode("CP") = 5120 /\ Opcode("CALL") = 39936
      /\ Opcode("INC") = 37891 /\ Opcode("DEC") = 37898
      /\ Opcode("LD") = 36876 /\ Opcode("POP") = 36879
      /\ Opcode("ST") = 37388 /\ Opcode("PUSH") = 37391
      /\ Opcode("IN") = 45056 /\ Opcode("OUT") = 47104
      /\ Opcode("SBI") = 39424 /\ Opcode("CBI") = 38912
      /\ Opcode("BRNE") = 62465 /\ Opcode("BREQ") = 61441 /\ Opcode("RET") = 38152
  BY DEF Opcode
<1>2. /\ \A op \in WithConstant \cup {"RJMP"} : Opcode(op) % 4096 = 0
      /\ \A op \in WithTwoRegisters \cup {"CALL"} : Opcode(op) % 1024 = 0
  BY <1>1 DEF WithConstant, WithTwoRegisters
<1>3. \A op \in WithDestination \cup WithSource : Opcode(op) % 512 \in 0..15
  BY <1>1 DEF WithDestination, WithSource
<1>4. /\ \A op \in PortTransfers : Opcode(op) % 2048 = 0
      /\ \A op \in PortBitOps : Opcode(op) % 256 = 0
      /\ \A op \in Branches : Opcode(op) % 1024 = 1
  BY <1>1 DEF PortTransfers, PortBitOps, Branches
<1>5. /\ Opcode("LDI") \in Word /\ Opcode("CPI") \in Word /\ Opcode("RJMP") \in Word
      /\ Opcode("MOV") \in Word /\ Opcode("ADD") \in Word /\ Opcode("SUB") \in Word
      /\ Opcode("AND") \in Word /\ Opcode("OR") \in Word /\ Opcode("EOR") \in Word
      /\ Opcode("CP") \in Word /\ Opcode("CALL") \in Word /\ Opcode("INC") \in Word
      /\ Opcode("DEC") \in Word /\ Opcode("LD") \in Word /\ Opcode("POP") \in Word
      /\ Opcode("ST") \in Word /\ Opcode("PUSH") \in Word /\ Opcode("IN") \in Word
      /\ Opcode("OUT") \in Word /\ Opcode("SBI") \in Word /\ Opcode("CBI") \in Word
      /\ Opcode("BRNE") \in Word /\ Opcode("BREQ") \in Word /\ Opcode("RET") \in Word
  BY <1>1, InWord
<1>6. \A op \in Operations : Opcode(op) \in Word
  BY <1>5, Zenon DEF Operations, WithConstant, WithTwoRegisters, WithDestination,
     WithSource, PortTransfers, PortBitOps, Branches
<1>. QED BY <1>2, <1>3, <1>4, <1>6, Zenon

\* Which bits the masks keep, per class of operations, and where the decoder
\* looks for the operands.
LEMMA Layouts ==
  ASSUME NEW op, NEW w
  PROVE  /\ op \in WithConstant =>
              /\ AboveOperands(op) = 4096 /\ BelowOperands(op) = 1
              /\ DestinationField(op, w) = 16 + ((w \div 16) % 16)
              /\ ImmediateField(op, w) = ((w \div 256) % 16) * 16 + (w % 16)
         /\ op \in WithTwoRegisters =>
              /\ AboveOperands(op) = 1024 /\ BelowOperands(op) = 1
              /\ DestinationField(op, w) = (w \div 16) % 32
              /\ SourceField(op, w) = ((w \div 512) % 2) * 16 + (w % 16)
         /\ op \in WithDestination =>
              /\ AboveOperands(op) = 512 /\ BelowOperands(op) = 16
              /\ DestinationField(op, w) = (w \div 16) % 32
         /\ op \in WithSource =>
              /\ AboveOperands(op) = 512 /\ BelowOperands(op) = 16
              /\ SourceField(op, w) = (w \div 16) % 32
         /\ op \in PortTransfers =>
              /\ AboveOperands(op) = 2048 /\ BelowOperands(op) = 1
              /\ op = "IN" => DestinationField(op, w) = (w \div 16) % 32
              /\ op = "OUT" => SourceField(op, w) = (w \div 16) % 32
              /\ ImmediateField(op, w) = ((w \div 512) % 4) * 16 + (w % 16)
         /\ op \in PortBitOps =>
              /\ AboveOperands(op) = 256 /\ BelowOperands(op) = 1
              /\ ImmediateField(op, w) = (w \div 8) % 32
         /\ op \in Branches => AboveOperands(op) = 1024 /\ BelowOperands(op) = 8
         /\ op = "RJMP" => AboveOperands(op) = 4096 /\ BelowOperands(op) = 1
         /\ op = "CALL" => AboveOperands(op) = 1024 /\ BelowOperands(op) = 1
         /\ op = "RET" => AboveOperands(op) = 1 /\ BelowOperands(op) = 1
<1>. USE DEF WithConstant, WithTwoRegisters, WithDestination, WithSource,
     PortTransfers, PortBitOps, Branches
<1>1. /\ op \in WithConstant \cup {"RJMP"} => AboveOperands(op) = 4096
      /\ op \in WithTwoRegisters \cup Branches \cup {"CALL"} => AboveOperands(op) = 1024
      /\ op \in WithDestination \cup WithSource => AboveOperands(op) = 512
      /\ op \in PortTransfers => AboveOperands(op) = 2048
      /\ op \in PortBitOps => AboveOperands(op) = 256
      /\ op = "RET" => AboveOperands(op) = 1
  BY DEF AboveOperands
<1>2. /\ op \in WithConstant \cup WithTwoRegisters \cup PortTransfers \cup PortBitOps
                  \cup {"RJMP", "CALL", "RET"} => BelowOperands(op) = 1
      /\ op \in WithDestination \cup WithSource => BelowOperands(op) = 16
      /\ op \in Branches => BelowOperands(op) = 8
  BY DEF BelowOperands
<1>3. /\ op \in WithConstant => DestinationField(op, w) = 16 + ((w \div 16) % 16)
      /\ op \in WithTwoRegisters \cup WithDestination \cup {"IN"} =>
           DestinationField(op, w) = (w \div 16) % 32
  BY DEF DestinationField
<1>4. /\ op \in WithTwoRegisters =>
           SourceField(op, w) = ((w \div 512) % 2) * 16 + (w % 16)
      /\ op \in WithSource \cup {"OUT"} => SourceField(op, w) = (w \div 16) % 32
  BY DEF SourceField
<1>5. /\ op \in WithConstant =>
           ImmediateField(op, w) = ((w \div 256) % 16) * 16 + (w % 16)
      /\ op \in PortTransfers =>
           ImmediateField(op, w) = ((w \div 512) % 4) * 16 + (w % 16)
      /\ op \in PortBitOps => ImmediateField(op, w) = (w \div 8) % 32
  BY DEF ImmediateField
<1>. QED BY <1>1, <1>2, <1>3, <1>4, <1>5

\* Where the encoder puts them.
LEMMA Packing ==
  ASSUME NEW i
  PROVE  LET op == i.operation
             d == i.destination_register
             s == i.source_register
             k == i.immediate
         IN  /\ op \in WithConstant =>
                  OperandBits(i) = (k \div 16) * 256 + (d - 16) * 16 + (k % 16)
             /\ op \in WithTwoRegisters =>
                  OperandBits(i) = (s \div 16) * 512 + d * 16 + (s % 16)
             /\ op \in WithDestination => OperandBits(i) = d * 16
             /\ op \in WithSource => OperandBits(i) = s * 16
             /\ op = "IN" => OperandBits(i) = (k \div 16) * 512 + d * 16 + (k % 16)
             /\ op = "OUT" => OperandBits(i) = (k \div 16) * 512 + s * 16 + (k % 16)
             /\ op \in PortBitOps => OperandBits(i) = k * 8 + i.bit_index
             /\ op = "RJMP" => OperandBits(i) = i.relative_offset % 4096
             /\ op \in Branches => OperandBits(i) = (i.relative_offset % 128) * 8
             /\ op = "CALL" => OperandBits(i) = i.target_address % 1024
             /\ op = "RET" => OperandBits(i) = 0
BY SMTT(30) DEF OperandBits, WithConstant, WithTwoRegisters, WithDestination, WithSource,
     PortTransfers, PortBitOps, Branches

\* No operand spills into the opcode or into another operand: whatever accepted
\* instruction avr_encode_instruction is given, the word it writes is decoded to
\* the same operation on the same operands, whatever the decoder's struct held
\* before (avr_instruction.c:241-386, 388-613).
THEOREM EncodingSurvives ==
  ASSUME NEW i \in Instruction, Encodable(i), NEW out
  PROVE  /\ Encode(i) \in Word
         /\ Decodes(Encode(i))
         /\ SameOperands(Decode(Encode(i), out), i)
<1>. DEFINE op == i.operation
            d == i.destination_register
            s == i.source_register
            k == i.immediate
            b == i.bit_index
            r == i.relative_offset
            t == i.target_address
            w == Encode(i)
            Survives == /\ w \in Word
                        /\ Decodes(w)
                        /\ SameOperands(Decode(w, out), i)
<1>1. /\ op \in Operations
      /\ d \in 0..31
      /\ op \in WithConstant => d \in 16..31
      /\ op \in WithTwoRegisters \cup WithSource \cup {"OUT"} => s \in 0..31
      /\ k \in 0..255
      /\ op \in PortTransfers => k \in 0..63
      /\ op \in PortBitOps => k \in 0..31 /\ b \in 0..7
      /\ op = "RJMP" => r \in -2048..2047
      /\ op \in Branches => r \in -64..63
      /\ op = "CALL" => t \in Int /\ 0 <= t /\ t <= 1023
  BY EncodableRanges
<1>2. Opcode(op) \in Int /\ 0 <= Opcode(op) /\ Opcode(op) <= 65535
  BY <1>1, Opcodes, WordBounds
<1>3. w = Opcode(op) + OperandBits(i)
  BY DEF Encode
<1>4. ASSUME w \in Word, Matches(op, w),
             op \in WithConstant \cup WithTwoRegisters \cup WithDestination \cup {"IN"}
               => DestinationField(op, w) = d,
             op \in WithTwoRegisters \cup WithSource \cup {"OUT"} => SourceField(op, w) = s,
             op \in WithConstant \cup PortTransfers \cup PortBitOps
               => ImmediateField(op, w) = k,
             op \in PortBitOps => w % 8 = b,
             op = "RJMP" => SignExtend(w, 4096) = r,
             op \in Branches => SignExtend(w \div 8, 128) = r,
             op = "CALL" => w % 1024 = t
      PROVE  Survives
  BY <1>4, FieldsSuffice
<1>5. ASSUME NEW span \in {256, 1024, 2048, 4096}, NEW q \in Int, Opcode(op) = span * q,
             w \in Int, span * q <= w, w <= span * q + (span - 1),
             AboveOperands(op) = span, BelowOperands(op) = 1
      PROVE  w \in Word /\ Matches(op, w)
  <2>. HIDE DEF w, op
  <2>1. w \div span = q /\ Opcode(op) \div span = q
    BY <1>2, <1>5
  <2>2. w % 1 = 0 /\ Opcode(op) % 1 = 0
    BY <1>2, <1>5
  <2>3. 0 <= w /\ w <= 65535
    BY <1>2, <1>5
  <2>. QED BY <1>5, <2>1, <2>2, <2>3, InWord DEF Matches
<1>6. /\ op \in WithConstant => w = Opcode(op) + ((k \div 16) * 256 + (d - 16) * 16 + (k % 16))
      /\ op \in WithTwoRegisters => w = Opcode(op) + ((s \div 16) * 512 + d * 16 + (s % 16))
      /\ op \in WithDestination => w = Opcode(op) + d * 16
      /\ op \in WithSource => w = Opcode(op) + s * 16
      /\ op = "IN" => w = Opcode(op) + ((k \div 16) * 512 + d * 16 + (k % 16))
      /\ op = "OUT" => w = Opcode(op) + ((k \div 16) * 512 + s * 16 + (k % 16))
      /\ op \in PortBitOps => w = Opcode(op) + (k * 8 + b)
      /\ op = "RJMP" => w = Opcode(op) + (r % 4096)
      /\ op \in Branches => w = Opcode(op) + (r % 128) * 8
      /\ op = "CALL" => w = Opcode(op) + (t % 1024)
      /\ op = "RET" => w = Opcode(op) + 0
  BY <1>3, Packing
<1>. SUFFICES Survives
  OBVIOUS
<1>. HIDE DEF op, d, s, k, b, r, t, w, Survives
<1>a. CASE op \in WithConstant
  <2>1. PICK q \in Int : Opcode(op) = 4096 * q
    <3>1. Opcode(op) = 4096 * (Opcode(op) \div 4096)
      BY <1>2, <1>a, Opcodes
    <3>. QED BY <1>2, <3>1
  <2>b. PICK high \in 0..15, low \in 0..15 : k = 16 * high + low
    <3>1. k \div 16 \in 0..15 /\ k % 16 \in 0..15 /\ k = 16 * (k \div 16) + (k % 16)
      BY <1>1, <1>a
    <3>. QED BY <3>1
  <2>2. d \in 16..31 /\ w = 4096 * q + 256 * high + 16 * (d - 16) + low
    BY <1>1, <1>6, <1>a, <2>1, <2>b
  <2>c. w \div 16 = 256 * q + 16 * high + (d - 16) /\ w \div 256 = 16 * q + high /\ w % 16 = low
    BY <2>2
  <2>3. /\ 4096 * q <= w /\ w <= 4096 * q + 4095
        /\ 16 + ((w \div 16) % 16) = d
        /\ ((w \div 256) % 16) * 16 + (w % 16) = k
    BY <2>b, <2>2, <2>c
  <2>4. w \in Int
    BY <1>1, <1>a, <2>2
  <2>5. /\ AboveOperands(op) = 4096 /\ BelowOperands(op) = 1
        /\ DestinationField(op, w) = d
        /\ ImmediateField(op, w) = k
    BY <1>a, <2>3, Layouts
  <2>6. w \in Word /\ Matches(op, w)
    BY <1>5, <2>1, <2>3, <2>4, <2>5
  <2>7. /\ op \notin WithTwoRegisters \cup WithSource \cup {"OUT"}
        /\ op \notin PortBitOps \cup Branches \cup {"RJMP", "CALL"}
    BY <1>a DEF WithConstant, WithTwoRegisters, WithSource, PortBitOps, Branches
  <2>. QED BY <1>4, <2>5, <2>6, <2>7
<1>b. CASE op \in WithTwoRegisters
  <2>1. PICK q \in Int : Opcode(op) = 1024 * q
    <3>1. Opcode(op) = 1024 * (Opcode(op) \div 1024)
      BY <1>2, <1>b, Opcodes
    <3>. QED BY <1>2, <3>1
  <2>b. PICK high \in 0..1, low \in 0..15 : s = 16 * high + low
    <3>1. s \div 16 \in 0..1 /\ s % 16 \in 0..15 /\ s = 16 * (s \div 16) + (s % 16)
      BY <1>1, <1>b
    <3>. QED BY <3>1
  <2>2. d \in 0..31 /\ w = 1024 * q + 512 * high + 16 * d + low
    BY <1>1, <1>6, <1>b, <2>1, <2>b
  <2>c. w \div 16 = 64 * q + 32 * high + d /\ w \div 512 = 2 * q + high /\ w % 16 = low
    BY <2>2
  <2>3. /\ 1024 * q <= w /\ w <= 1024 * q + 1023
        /\ (w \div 16) % 32 = d
        /\ ((w \div 512) % 2) * 16 + (w % 16) = s
    BY <2>b, <2>2, <2>c
  <2>4. w \in Int
    BY <1>1, <1>b, <2>2
  <2>5. /\ AboveOperands(op) = 1024 /\ BelowOperands(op) = 1
        /\ DestinationField(op, w) = d
        /\ SourceField(op, w) = s
    BY <1>b, <2>3, Layouts
  <2>6. w \in Word /\ Matches(op, w)
    BY <1>5, <2>1, <2>3, <2>4, <2>5
  <2>7. op \notin WithConstant \cup PortTransfers \cup PortBitOps \cup Branches
                    \cup {"RJMP", "CALL"}
    BY <1>b DEF WithConstant, WithTwoRegisters, PortTransfers, PortBitOps, Branches
  <2>. QED BY <1>4, <2>5, <2>6, <2>7
<1>c. CASE op \in WithDestination \cup WithSource
  <2>. DEFINE reg == IF op \in WithDestination THEN d ELSE s
  <2>1. PICK q \in Int, low \in 0..15 : Opcode(op) = 512 * q + low
    <3>1. /\ Opcode(op) = 512 * (Opcode(op) \div 512) + (Opcode(op) % 512)
          /\ Opcode(op) % 512 \in 0..15
      BY <1>2, <1>c, Opcodes
    <3>. QED BY <1>2, <3>1
  <2>2. reg \in 0..31 /\ w = 512 * q + low + reg * 16
    BY <1>1, <1>6, <1>c, <2>1
  <2>. HIDE DEF reg
  <2>c. w \div 16 = 32 * q + reg /\ w % 16 = low
    BY <2>1, <2>2
  <2>3. /\ 512 * q <= w /\ w <= 512 * q + 511
        /\ (w \div 16) % 32 = reg
        /\ w % 16 = low
    BY <2>1, <2>2, <2>c
  <2>4. w \in Int
    BY <2>1, <2>2
  <2>5. AboveOperands(op) = 512 /\ BelowOperands(op) = 16
    BY <1>c, Layouts
  <2>6. Matches(op, w)
    <3>1. w \div 512 = q /\ Opcode(op) \div 512 = q
      BY <2>1, <2>3, <2>4
    <3>2. Opcode(op) % 16 = low
      BY <2>1
    <3>. QED BY <2>3, <2>5, <3>1, <3>2 DEF Matches
  <2>7. w \in Word
    <3>1. 0 <= w /\ w <= 65535
      BY <1>2, <2>1, <2>3, <2>4
    <3>. QED BY <2>4, <3>1, InWord
  <2>8. /\ op \notin WithConstant \cup WithTwoRegisters \cup PortTransfers
        /\ op \notin PortBitOps \cup Branches \cup {"RJMP", "CALL", "IN", "OUT"}
        /\ ~(op \in WithDestination /\ op \in WithSource)
    BY <1>c DEF WithConstant, WithTwoRegisters, WithDestination, WithSource,
       PortTransfers, PortBitOps, Branches
  <2>9. /\ op \in WithDestination => DestinationField(op, w) = d
        /\ op \in WithSource => SourceField(op, w) = s
    BY <2>3, <2>8, Layouts DEF reg
  <2>. QED BY <1>4, <2>6, <2>7, <2>8, <2>9
<1>d. CASE op \in PortTransfers
  <2>. DEFINE reg == IF op = "IN" THEN d ELSE s
  <2>1. PICK q \in Int : Opcode(op) = 2048 * q
    <3>1. Opcode(op) = 2048 * (Opcode(op) \div 2048)
      BY <1>2, <1>d, Opcodes
    <3>. QED BY <1>2, <3>1
  <2>2. op = "IN" \/ op = "OUT"
    BY <1>d DEF PortTransfers
  <2>b. PICK high \in 0..3, low \in 0..15 : k = 16 * high + low
    <3>1. k \div 16 \in 0..3 /\ k % 16 \in 0..15 /\ k = 16 * (k \div 16) + (k % 16)
      BY <1>1, <1>d
    <3>. QED BY <3>1
  <2>3. reg \in 0..31 /\ w = 2048 * q + 512 * high + 16 * reg + low
    <3>1. d \in 0..31 /\ (op = "OUT" => s \in 0..31)
      BY <1>1
    <3>2. k \div 16 = high /\ k % 16 = low
      BY <2>b
    <3>3. reg \in 0..31
      BY <2>2, <3>1
    <3>. HIDE DEF k, d, s
    <3>. QED BY <1>6, <2>1, <2>2, <3>1, <3>2, <3>3
  <2>. HIDE DEF reg
  <2>c. w \div 16 = 128 * q + 32 * high + reg /\ w \div 512 = 4 * q + high /\ w % 16 = low
    BY <2>3
  <2>4. /\ 2048 * q <= w /\ w <= 2048 * q + 2047
        /\ (w \div 16) % 32 = reg
        /\ ((w \div 512) % 4) * 16 + (w % 16) = k
    BY <2>b, <2>3, <2>c
  <2>5. w \in Int
    BY <1>1, <2>1, <2>3
  <2>6. /\ AboveOperands(op) = 2048 /\ BelowOperands(op) = 1
        /\ op = "IN" => DestinationField(op, w) = d
        /\ op = "OUT" => SourceField(op, w) = s
        /\ ImmediateField(op, w) = k
    BY <1>d, <2>4, Layouts DEF reg
  <2>7. w \in Word /\ Matches(op, w)
    BY <1>5, <2>1, <2>4, <2>5, <2>6
  <2>8. /\ op \notin WithConstant \cup WithTwoRegisters \cup WithDestination \cup WithSource
        /\ op \notin PortBitOps \cup Branches \cup {"RJMP", "CALL"}
    BY <2>2 DEF WithConstant, WithTwoRegisters, WithDestination, WithSource,
       PortBitOps, Branches
  <2>. QED BY <1>4, <2>6, <2>7, <2>8
<1>e. CASE op \in PortBitOps
  <2>1. PICK q \in Int : Opcode(op) = 256 * q
    <3>1. Opcode(op) = 256 * (Opcode(op) \div 256)
      BY <1>2, <1>e, Opcodes
    <3>. QED BY <1>2, <3>1
  <2>2. k \in 0..31 /\ b \in 0..7 /\ w = 256 * q + (k * 8 + b)
    BY <1>1, <1>6, <1>e, <2>1
  <2>c. w \div 8 = 32 * q + k /\ w % 8 = b
    BY <2>2
  <2>3. /\ 256 * q <= w /\ w <= 256 * q + 255
        /\ (w \div 8) % 32 = k
        /\ w % 8 = b
    BY <2>2, <2>c
  <2>4. w \in Int
    BY <1>1, <1>e, <2>1, <2>2
  <2>5. /\ AboveOperands(op) = 256 /\ BelowOperands(op) = 1
        /\ ImmediateField(op, w) = k
    BY <1>e, <2>3, Layouts
  <2>6. w \in Word /\ Matches(op, w)
    BY <1>5, <2>1, <2>3, <2>4, <2>5
  <2>7. /\ op \notin WithConstant \cup WithTwoRegisters \cup WithDestination \cup WithSource
        /\ op \notin Branches \cup {"RJMP", "CALL", "IN", "OUT"}
    BY <1>e DEF WithConstant, WithTwoRegisters, WithDestination, WithSource,
       PortBitOps, Branches
  <2>. QED BY <1>4, <2>3, <2>5, <2>6, <2>7
<1>f. CASE op = "RJMP"
  <2>1. PICK q \in Int : Opcode(op) = 4096 * q
    <3>1. Opcode(op) = 4096 * (Opcode(op) \div 4096)
      BY <1>2, <1>f, Opcodes
    <3>. QED BY <1>2, <3>1
  <2>2. w = 4096 * q + (r % 4096)
    BY <1>6, <1>f, <2>1
  <2>3. 4096 * q <= w /\ w <= 4096 * q + 4095 /\ SignExtend(w, 4096) = r
    <3>1. q \in Int /\ r \in -2048..2047
      BY <1>1, <1>f
    <3>. QED BY <2>2, <3>1 DEF SignExtend
  <2>4. w \in Int
    BY <1>1, <1>f, <2>1, <2>2
  <2>5. AboveOperands(op) = 4096 /\ BelowOperands(op) = 1
    BY <1>f, Layouts
  <2>6. w \in Word /\ Matches(op, w)
    BY <1>5, <2>1, <2>3, <2>4, <2>5
  <2>7. /\ op \notin WithConstant \cup WithTwoRegisters \cup WithDestination \cup WithSource
        /\ op \notin PortTransfers \cup PortBitOps \cup Branches \cup {"CALL", "IN", "OUT"}
    BY <1>f DEF WithConstant, WithTwoRegisters, WithDestination, WithSource,
       PortTransfers, PortBitOps, Branches
  <2>. QED BY <1>4, <2>3, <2>6, <2>7
<1>g. CASE op \in Branches
  <2>1. PICK q \in Int : Opcode(op) = 1024 * q + 1
    <3>1. Opcode(op) = 1024 * (Opcode(op) \div 1024) + 1
      BY <1>2, <1>g, Opcodes
    <3>. QED BY <1>2, <3>1
  <2>2. w = 1024 * q + 1 + (r % 128) * 8
    BY <1>6, <1>g, <2>1
  <2>b. r \in -64..63
    BY <1>1, <1>g
  <2>c. w \div 8 = 128 * q + (r % 128) /\ w % 8 = 1
    BY <2>2, <2>b
  <2>d. SignExtend(128 * q + (r % 128), 128) = r
    BY <2>b DEF SignExtend
  <2>3. /\ 1024 * q <= w /\ w <= 1024 * q + 1023
        /\ SignExtend(w \div 8, 128) = r
        /\ w % 8 = 1
    BY <2>2, <2>b, <2>c, <2>d
  <2>4. w \in Int
    BY <1>1, <1>g, <2>1, <2>2
  <2>5. Matches(op, w)
    <3>1. AboveOperands(op) = 1024 /\ BelowOperands(op) = 8
      BY <1>g, Layouts
    <3>2. w \div 1024 = q /\ Opcode(op) \div 1024 = q /\ Opcode(op) % 8 = 1
      BY <2>1, <2>3, <2>4
    <3>. QED BY <2>3, <3>1, <3>2 DEF Matches
  <2>6. w \in Word
    <3>1. 0 <= w /\ w <= 65535
      BY <1>2, <2>1, <2>3, <2>4
    <3>. QED BY <2>4, <3>1, InWord
  <2>7. /\ op \notin WithConstant \cup WithTwoRegisters \cup WithDestination \cup WithSource
        /\ op \notin PortTransfers \cup PortBitOps \cup {"RJMP", "CALL", "IN", "OUT"}
    BY <1>g DEF WithConstant, WithTwoRegisters, WithDestination, WithSource,
       PortTransfers, PortBitOps, Branches
  <2>. QED BY <1>4, <2>3, <2>5, <2>6, <2>7
<1>h. CASE op = "CALL"
  <2>1. PICK q \in Int : Opcode(op) = 1024 * q
    <3>1. Opcode(op) = 1024 * (Opcode(op) \div 1024)
      BY <1>2, <1>h, Opcodes
    <3>. QED BY <1>2, <3>1
  <2>2. w = 1024 * q + t
    <3>1. t % 1024 = t
      BY <1>1, <1>h
    <3>. QED BY <1>6, <1>h, <2>1, <3>1
  <2>3. /\ w \in Int /\ 1024 * q <= w /\ w <= 1024 * q + 1023
        /\ w % 1024 = t
    <3>1. t \in Int /\ 0 <= t /\ t <= 1023
      BY <1>1, <1>h
    <3>. QED BY <2>2, <3>1
  <2>4. AboveOperands(op) = 1024 /\ BelowOperands(op) = 1
    BY <1>h, Layouts
  <2>5. w \in Word /\ Matches(op, w)
    BY <1>5, <2>1, <2>3, <2>4
  <2>6. /\ op \notin WithConstant \cup WithTwoRegisters \cup WithDestination \cup WithSource
        /\ op \notin PortTransfers \cup PortBitOps \cup Branches \cup {"RJMP", "IN", "OUT"}
    BY <1>h DEF WithConstant, WithTwoRegisters, WithDestination, WithSource,
       PortTransfers, PortBitOps, Branches
  <2>. QED BY <1>4, <2>3, <2>5, <2>6
<1>i. CASE op = "RET"
  <2>1. w = Opcode(op) /\ w \in Word
    BY <1>1, <1>2, <1>6, <1>i, Opcodes
  <2>2. Matches(op, w)
    BY <2>1 DEF Matches
  <2>3. /\ op \notin WithConstant \cup WithTwoRegisters \cup WithDestination \cup WithSource
        /\ op \notin PortTransfers \cup PortBitOps \cup Branches
        /\ op \notin {"RJMP", "CALL", "IN", "OUT"}
    BY <1>i DEF WithConstant, WithTwoRegisters, WithDestination, WithSource,
       PortTransfers, PortBitOps, Branches
  <2>. QED BY <1>4, <2>1, <2>2, <2>3
<1>10. op \in Operations
  BY <1>1
<1>. QED
  BY <1>10, <1>a, <1>b, <1>c, <1>d, <1>e, <1>f, <1>g, <1>h, <1>i DEF Operations
-----------------------------------------------------------------------------
\* The other direction: no bit of a decoded word is lost, and no operand the
\* decoder finds is one the encoder refuses (avr_instruction.c:241-386,
\* 388-613).  With less flash than the 10 bits of a CALL address it would
\* refuse a target, so the theorem is about the flash size of the source.
THEOREM DecodingSurvives ==
  ASSUME NEW w \in Word, Decodes(w), NEW out, FlashSize = 1024
  PROVE  Encodable(Decode(w, out)) /\ Encode(Decode(w, out)) = w
<1>. DEFINE op == DecodeOperation(w)
            j == Decode(w, out)
            d == j.destination_register
            s == j.source_register
            k == j.immediate
            b == j.bit_index
            r == j.relative_offset
            t == j.target_address
            Survives == Encodable(j) /\ Encode(j) = w
<1>1. op \in Operations /\ Matches(op, w)
  BY DecodeOperationType
<1>2. /\ j.operation = op
      /\ d = DestinationField(op, w)
      /\ s = SourceField(op, w)
      /\ k = ImmediateField(op, w)
      /\ op \in PortBitOps => b = w % 8
      /\ op = "RJMP" => r = SignExtend(w, 4096)
      /\ op \in Branches => r = SignExtend(w \div 8, 128)
      /\ op = "CALL" => t = w % 1024
  BY DecodedFields
<1>. SUFFICES Survives
  OBVIOUS
<1>. HIDE DEF op, j
<1>3. w \in Int /\ 0 <= w /\ w <= 65535
  BY WordBounds
<1>4. Opcode(op) \in Int /\ 0 <= Opcode(op) /\ Opcode(op) <= 65535
  BY <1>1, Opcodes, WordBounds
<1>5. /\ w \div AboveOperands(op) = Opcode(op) \div AboveOperands(op)
      /\ w % BelowOperands(op) = Opcode(op) % BelowOperands(op)
  BY <1>1 DEF Matches
<1>6. Encode(j) = Opcode(op) + OperandBits(j)
  BY <1>2 DEF Encode
<1>7. d < 32
  <2>1. op \notin WithConstant \cup WithTwoRegisters \cup WithDestination \cup {"IN"} => d = 0
    BY <1>2 DEF DestinationField
  <2>2. op \in WithConstant => d = 16 + ((w \div 16) % 16)
    BY <1>2, Layouts
  <2>3. op \in WithTwoRegisters \cup WithDestination \cup {"IN"} => d = (w \div 16) % 32
    BY <1>2, Layouts DEF PortTransfers
  <2>. QED BY <1>3, <2>1, <2>2, <2>3
<1>. HIDE DEF d, s, k, b, r, t, Survives
<1>8. ASSUME op \in WithConstant => d >= 16,
             op \in WithTwoRegisters \cup WithSource \cup {"OUT"} => s < 32,
             op \in PortTransfers => k <= 63,
             op \in PortBitOps => k <= 31 /\ b <= 7,
             op = "RJMP" => r \in -2048..2047,
             op \in Branches => r \in -64..63,
             op = "CALL" => t < 1024,
             OperandBits(j) = w - Opcode(op)
      PROVE  Survives
  <2>1. Encode(j) = w
    BY <1>3, <1>4, <1>6, <1>8, SMTT(30)
  <2>2. Encodable(j)
    BY <1>2, <1>7, <1>8 DEF Encodable, ValidRelativeOffset, RegisterCount, d, s, k, b, r, t
  <2>. QED BY <2>1, <2>2 DEF Survives
<1>9. /\ op \in WithConstant => OperandBits(j) = (k \div 16) * 256 + (d - 16) * 16 + (k % 16)
      /\ op \in WithTwoRegisters => OperandBits(j) = (s \div 16) * 512 + d * 16 + (s % 16)
      /\ op \in WithDestination => OperandBits(j) = d * 16
      /\ op \in WithSource => OperandBits(j) = s * 16
      /\ op = "IN" => OperandBits(j) = (k \div 16) * 512 + d * 16 + (k % 16)
      /\ op = "OUT" => OperandBits(j) = (k \div 16) * 512 + s * 16 + (k % 16)
      /\ op \in PortBitOps => OperandBits(j) = k * 8 + b
      /\ op = "RJMP" => OperandBits(j) = r % 4096
      /\ op \in Branches => OperandBits(j) = (r % 128) * 8
      /\ op = "CALL" => OperandBits(j) = t % 1024
      /\ op = "RET" => OperandBits(j) = 0
  BY <1>2, Packing DEF d, s, k, b, r, t
<1>a. CASE op \in WithConstant
  <2>1. w - Opcode(op) = w % 4096
    <3>1. Opcode(op) % 4096 = 0 /\ w \div 4096 = Opcode(op) \div 4096
      BY <1>5, <1>a, Opcodes, Layouts
    <3>. QED BY <1>3, <1>4, <3>1
  <2>2. d = 16 + ((w \div 16) % 16) /\ k = ((w \div 256) % 16) * 16 + (w % 16)
    BY <1>2, <1>a, Layouts
  <2>3. PICK q \in Int, x \in 0..15, y \in 0..15, z \in 0..15 :
          w = 4096 * q + 256 * x + 16 * y + z
    <3>1. /\ w = 4096 * (w \div 4096) + 256 * ((w \div 256) % 16)
                  + 16 * ((w \div 16) % 16) + (w % 16)
          /\ (w \div 256) % 16 \in 0..15 /\ (w \div 16) % 16 \in 0..15
          /\ w % 16 \in 0..15 /\ w \div 4096 \in Int
      BY <1>3, SMTT(30)
    <3>. QED BY <3>1, SMTT(30)
  <2>4. /\ w \div 256 = 16 * q + x /\ w \div 16 = 256 * q + 16 * x + y
        /\ w % 16 = z /\ w % 4096 = 256 * x + 16 * y + z
    BY <2>3
  <2>5. d = 16 + y /\ k = 16 * x + z
    BY <2>2, <2>3, <2>4
  <2>6. (k \div 16) * 256 + (d - 16) * 16 + (k % 16) = w % 4096
    <3>1. k \div 16 = x /\ k % 16 = z
      BY <2>3, <2>5
    <3>. QED BY <2>3, <2>4, <2>5, <3>1
  <2>7. /\ op \notin WithTwoRegisters \cup WithSource \cup {"OUT"}
        /\ op \notin PortTransfers \cup PortBitOps \cup Branches \cup {"RJMP", "CALL"}
    BY <1>a DEF WithConstant, WithTwoRegisters, WithSource, PortTransfers, PortBitOps,
       Branches
  <2>8. d >= 16
    BY <2>3, <2>5
  <2>. QED BY <1>8, <1>9, <1>a, <2>1, <2>6, <2>7, <2>8
<1>b. CASE op \in WithTwoRegisters
  <2>1. w - Opcode(op) = w % 1024
    <3>1. Opcode(op) % 1024 = 0 /\ w \div 1024 = Opcode(op) \div 1024
      BY <1>5, <1>b, Opcodes, Layouts
    <3>. QED BY <1>3, <1>4, <3>1
  <2>2. d = (w \div 16) % 32 /\ s = ((w \div 512) % 2) * 16 + (w % 16)
    BY <1>2, <1>b, Layouts
  <2>3. PICK q \in Int, x \in 0..1, y \in 0..31, z \in 0..15 :
          w = 1024 * q + 512 * x + 16 * y + z
    <3>1. /\ w = 1024 * (w \div 1024) + 512 * ((w \div 512) % 2)
                  + 16 * ((w \div 16) % 32) + (w % 16)
          /\ (w \div 512) % 2 \in 0..1 /\ (w \div 16) % 32 \in 0..31
          /\ w % 16 \in 0..15 /\ w \div 1024 \in Int
      BY <1>3
    <3>. QED BY <3>1
  <2>4. /\ w \div 512 = 2 * q + x /\ w \div 16 = 64 * q + 32 * x + y
        /\ w % 16 = z /\ w % 1024 = 512 * x + 16 * y + z
    BY <2>3
  <2>5. d = y /\ s = 16 * x + z
    BY <2>2, <2>3, <2>4
  <2>6. (s \div 16) * 512 + d * 16 + (s % 16) = w % 1024
    <3>1. s \div 16 = x /\ s % 16 = z
      BY <2>3, <2>5
    <3>. QED BY <2>3, <2>4, <2>5, <3>1
  <2>7. op \notin WithConstant \cup PortTransfers \cup PortBitOps \cup Branches
                    \cup {"RJMP", "CALL"}
    BY <1>b DEF WithConstant, WithTwoRegisters, PortTransfers, PortBitOps, Branches
  <2>8. s < 32
    BY <2>3, <2>5
  <2>. QED BY <1>8, <1>9, <1>b, <2>1, <2>6, <2>7, <2>8
<1>c. CASE op \in WithDestination \cup WithSource
  <2>. DEFINE reg == IF op \in WithDestination THEN d ELSE s
  <2>1. /\ op \notin WithConstant \cup WithTwoRegisters \cup PortTransfers
        /\ op \notin PortBitOps \cup Branches \cup {"RJMP", "CALL", "IN", "OUT"}
        /\ ~(op \in WithDestination /\ op \in WithSource)
    BY <1>c DEF WithConstant, WithTwoRegisters, WithDestination, WithSource,
       PortTransfers, PortBitOps, Branches
  <2>2. w - Opcode(op) = ((w \div 16) % 32) * 16
    <3>1. /\ Opcode(op) % 512 \in 0..15
          /\ w \div 512 = Opcode(op) \div 512 /\ w % 16 = Opcode(op) % 16
      BY <1>5, <1>c, Opcodes, Layouts
    <3>2. PICK q \in Int, low \in 0..15 : Opcode(op) = 512 * q + low
      <4>1. Opcode(op) = 512 * (Opcode(op) \div 512) + (Opcode(op) % 512)
        BY <1>4
      <4>. QED BY <1>4, <3>1, <4>1
    <3>3. Opcode(op) \div 512 = q /\ Opcode(op) % 16 = low
      BY <3>2
    <3>4. w = 512 * (w \div 512) + 16 * ((w \div 16) % 32) + (w % 16)
      BY <1>3
    <3>. QED BY <1>3, <3>1, <3>2, <3>3, <3>4
  <2>3. reg = (w \div 16) % 32
    BY <1>2, <1>c, <2>1, Layouts
  <2>4. OperandBits(j) = reg * 16 /\ (op \in WithSource => reg = s)
    BY <1>9, <1>c, <2>1
  <2>. HIDE DEF reg
  <2>5. reg < 32 /\ OperandBits(j) = w - Opcode(op)
    BY <1>3, <2>2, <2>3, <2>4
  <2>. QED BY <1>8, <2>1, <2>4, <2>5
<1>d. CASE op \in PortTransfers
  <2>. DEFINE reg == IF op = "IN" THEN d ELSE s
  <2>1. /\ op \notin WithConstant \cup WithTwoRegisters \cup WithDestination \cup WithSource
        /\ op \notin PortBitOps \cup Branches \cup {"RJMP", "CALL"}
        /\ op = "IN" \/ op = "OUT"
    BY <1>d DEF WithConstant, WithTwoRegisters, WithDestination, WithSource,
       PortTransfers, PortBitOps, Branches
  <2>2. w - Opcode(op) = w % 2048
    <3>1. Opcode(op) % 2048 = 0 /\ w \div 2048 = Opcode(op) \div 2048
      BY <1>5, <1>d, Opcodes, Layouts
    <3>. QED BY <1>3, <1>4, <3>1
  <2>3. reg = (w \div 16) % 32 /\ k = ((w \div 512) % 4) * 16 + (w % 16)
    BY <1>2, <1>d, <2>1, Layouts
  <2>4. /\ OperandBits(j) = (k \div 16) * 512 + reg * 16 + (k % 16)
        /\ op = "OUT" => reg = s
    BY <1>9, <2>1
  <2>. HIDE DEF reg
  <2>5. PICK q \in Int, x \in 0..3, y \in 0..31, z \in 0..15 :
          w = 2048 * q + 512 * x + 16 * y + z
    <3>1. /\ w = 2048 * (w \div 2048) + 512 * ((w \div 512) % 4)
                  + 16 * ((w \div 16) % 32) + (w % 16)
          /\ (w \div 512) % 4 \in 0..3 /\ (w \div 16) % 32 \in 0..31
          /\ w % 16 \in 0..15 /\ w \div 2048 \in Int
      BY <1>3, SMTT(30)
    <3>. QED BY <3>1
  <2>6. /\ w \div 512 = 4 * q + x /\ w \div 16 = 128 * q + 32 * x + y
        /\ w % 16 = z /\ w % 2048 = 512 * x + 16 * y + z
    BY <2>5
  <2>7. reg = y /\ k = 16 * x + z
    BY <2>3, <2>5, <2>6
  <2>8. (k \div 16) * 512 + reg * 16 + (k % 16) = w % 2048 /\ k <= 63 /\ reg < 32
    <3>1. k \div 16 = x /\ k % 16 = z
      BY <2>5, <2>7
    <3>. QED BY <2>5, <2>6, <2>7, <3>1
  <2>. QED BY <1>8, <2>1, <2>2, <2>4, <2>8
<1>e. CASE op \in PortBitOps
  <2>1. w - Opcode(op) = w % 256
    <3>1. Opcode(op) % 256 = 0 /\ w \div 256 = Opcode(op) \div 256
      BY <1>5, <1>e, Opcodes, Layouts
    <3>. QED BY <1>3, <1>4, <3>1
  <2>2. k = (w \div 8) % 32 /\ b = w % 8
    BY <1>2, <1>e, Layouts
  <2>3. k * 8 + b = w % 256 /\ k <= 31 /\ b <= 7
    BY <1>3, <2>2
  <2>4. /\ op \notin WithConstant \cup WithTwoRegisters \cup WithSource
        /\ op \notin PortTransfers \cup Branches \cup {"RJMP", "CALL", "OUT"}
    BY <1>e DEF WithConstant, WithTwoRegisters, WithSource, PortTransfers, PortBitOps,
       Branches
  <2>. QED BY <1>8, <1>9, <1>e, <2>1, <2>3, <2>4
<1>f. CASE op = "RJMP"
  <2>1. w - Opcode(op) = w % 4096
    <3>1. Opcode(op) % 4096 = 0 /\ w \div 4096 = Opcode(op) \div 4096
      BY <1>5, <1>f, Opcodes, Layouts
    <3>. QED BY <1>3, <1>4, <3>1
  <2>2. r = SignExtend(w, 4096)
    BY <1>2, <1>f
  <2>3. r \in -2048..2047 /\ r % 4096 = w % 4096
    BY <1>3, <2>2 DEF SignExtend
  <2>4. /\ op \notin WithConstant \cup WithTwoRegisters \cup WithSource \cup {"OUT"}
        /\ op \notin PortTransfers \cup PortBitOps \cup Branches \cup {"CALL"}
    BY <1>f DEF WithConstant, WithTwoRegisters, WithSource, PortTransfers, PortBitOps,
       Branches
  <2>. QED BY <1>8, <1>9, <1>f, <2>1, <2>3, <2>4
<1>g. CASE op \in Branches
  <2>1. w - Opcode(op) = ((w \div 8) % 128) * 8
    <3>1. /\ Opcode(op) % 1024 = 1
          /\ w \div 1024 = Opcode(op) \div 1024 /\ w % 8 = Opcode(op) % 8
      <4>1. AboveOperands(op) = 1024 /\ BelowOperands(op) = 8
        BY <1>g, Layouts
      <4>2. Opcode(op) % 1024 = 1
        BY <1>g, Opcodes
      <4>. QED BY <1>5, <4>1, <4>2
    <3>2. Opcode(op) % 8 = 1
      BY <1>4, <3>1
    <3>. QED BY <1>3, <1>4, <3>1, <3>2
  <2>2. r = SignExtend(w \div 8, 128)
    BY <1>2, <1>g
  <2>3. r \in -64..63 /\ r % 128 = (w \div 8) % 128
    BY <1>3, <2>2 DEF SignExtend
  <2>4. /\ op \notin WithConstant \cup WithTwoRegisters \cup WithSource \cup {"OUT"}
        /\ op \notin PortTransfers \cup PortBitOps \cup {"RJMP", "CALL"}
    BY <1>g DEF WithConstant, WithTwoRegisters, WithSource, PortTransfers, PortBitOps,
       Branches
  <2>. QED BY <1>8, <1>9, <1>g, <2>1, <2>3, <2>4
<1>h. CASE op = "CALL"
  <2>1. w - Opcode(op) = w % 1024
    <3>1. Opcode(op) % 1024 = 0 /\ w \div 1024 = Opcode(op) \div 1024
      BY <1>5, <1>h, Opcodes, Layouts
    <3>. QED BY <1>3, <1>4, <3>1
  <2>2. t < 1024 /\ t % 1024 = w % 1024
    BY <1>2, <1>3, <1>h
  <2>3. /\ op \notin WithConstant \cup WithTwoRegisters \cup WithSource \cup {"OUT"}
        /\ op \notin PortTransfers \cup PortBitOps \cup Branches \cup {"RJMP"}
    BY <1>h DEF WithConstant, WithTwoRegisters, WithSource, PortTransfers, PortBitOps,
       Branches
  <2>. QED BY <1>8, <1>9, <1>h, <2>1, <2>2, <2>3
<1>i. CASE op = "RET"
  <2>1. w - Opcode(op) = 0
    <3>1. w \div 1 = Opcode(op) \div 1
      BY <1>5, <1>i, Layouts
    <3>. QED BY <1>3, <1>4, <3>1
  <2>2. /\ op \notin WithConstant \cup WithTwoRegisters \cup WithSource \cup {"OUT"}
        /\ op \notin PortTransfers \cup PortBitOps \cup Branches \cup {"RJMP", "CALL"}
    BY <1>i DEF WithConstant, WithTwoRegisters, WithSource, PortTransfers, PortBitOps,
       Branches
  <2>. QED BY <1>8, <1>9, <1>i, <2>1, <2>2
<1>. QED
  BY <1>1, <1>a, <1>b, <1>c, <1>d, <1>e, <1>f, <1>g, <1>h, <1>i DEF Operations
=============================================================================
