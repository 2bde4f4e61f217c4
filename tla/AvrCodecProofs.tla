--------------------------- MODULE AvrCodecProofs ---------------------------
(***************************************************************************)
(* The caller of the codec in MCCodec: what its invariants say of all      *)
(* words and candidates follows from the theorems about the encoder and    *)
(* the decoder, and from what the two texts print.                         *)
(***************************************************************************)
EXTENDS MCCodec, AvrInstructionProofs, FiniteSetTheorems

\* The caller looks at words, passes structs whose fields have their C types,
\* and holds the encoding of what it encoded.
CallerInv ==
  /\ word \in Word
  /\ instruction \in Instruction
  /\ phase = "encoded" => Encodable(instruction) /\ word = Encode(instruction)

LEMMA BlankType == Blank \in Instruction
<1>1. "LDI" \in Operations /\ 0 \in Byte /\ 0 \in Int16 /\ 0 \in Word
  BY InByte, InWord, InInt16 DEF Operations, WithConstant
<1>. QED BY <1>1 DEF Blank, Instruction

LEMMA CandidateType ==
  ASSUME Candidate
  PROVE  instruction \in Instruction
<1>. DEFINE
  OfConstant ==
    \E op \in WithConstant, d \in 0..33, k \in Byte :
      instruction = [Blank EXCEPT !.operation = op, !.destination_register = d,
                                  !.immediate = k]
  OfRegisters ==
    \E op \in WithTwoRegisters \cup WithDestination \cup WithSource,
       d \in 0..33, s \in 0..33 :
      instruction = [Blank EXCEPT !.operation = op, !.destination_register = d,
                                  !.source_register = s]
  OfTransfer ==
    \E op \in PortTransfers, d \in {0, 17, 31, 32}, s \in {0, 17, 31, 32}, k \in 0..65 :
      instruction = [Blank EXCEPT !.operation = op, !.destination_register = d,
                                  !.source_register = s, !.immediate = k]
  OfPortBit ==
    \E op \in PortBitOps, k \in 0..33, b \in 0..9 :
      instruction = [Blank EXCEPT !.operation = op, !.immediate = k, !.bit_index = b]
  Offsets == -2050..2049
  Targets == 0..1025
  OfJump ==
    \E op \in Branches \cup {"RJMP"}, r \in Offsets :
      instruction = [Blank EXCEPT !.operation = op, !.relative_offset = r]
  OfCall ==
    \E op \in {"CALL", "RET"}, t \in Targets :
      instruction = [Blank EXCEPT !.operation = op, !.target_address = t]
<1>1. OfConstant \/ OfRegisters \/ OfTransfer \/ OfPortBit \/ OfJump \/ OfCall
  BY ZenonT(200) DEF Candidate
<1>. HIDE DEF OfConstant, OfRegisters, OfTransfer, OfPortBit, OfJump, OfCall
<1>2. /\ \A n \in 0..65 : n \in Byte
      /\ 0 \in Byte /\ 0 \in Int16 /\ 0 \in Word
  BY InWord, InInt16 DEF Byte
<1>3. ASSUME NEW n \in Offsets
      PROVE  n \in Int16
  <2>1. n \in Int /\ -32768 <= n /\ n <= 32767
    OBVIOUS
  <2>. QED BY <2>1, Int16Bounds
<1>. HIDE DEF Offsets
<1>4. ASSUME NEW n \in Targets
      PROVE  n \in Word
  <2>1. n \in Int /\ 0 <= n /\ n <= 65535
    OBVIOUS
  <2>. QED BY <2>1, InWord
<1>. HIDE DEF Targets
<1>5. /\ WithConstant \subseteq Operations /\ WithTwoRegisters \subseteq Operations
      /\ WithDestination \subseteq Operations /\ WithSource \subseteq Operations
      /\ PortTransfers \subseteq Operations /\ PortBitOps \subseteq Operations
      /\ Branches \subseteq Operations /\ {"RJMP", "CALL", "RET"} \subseteq Operations
  BY DEF Operations
<1>6. CASE OfConstant
  <2>1. PICK op \in WithConstant, d \in 0..33, k \in Byte :
          instruction = [Blank EXCEPT !.operation = op, !.destination_register = d,
                                      !.immediate = k]
    BY <1>6, Zenon DEF OfConstant
  <2>2. op \in Operations /\ d \in Byte /\ k \in Byte
    BY <1>2, <1>5, <2>1
  <2>3. instruction = [operation |-> op, destination_register |-> d,
                       source_register |-> 0, immediate |-> k, bit_index |-> 0,
                       relative_offset |-> 0, target_address |-> 0]
    BY <2>1, ZenonT(60) DEF Blank
  <2>. QED BY <1>2, <2>2, <2>3 DEF Instruction
<1>7. CASE OfRegisters
  <2>1. PICK op \in WithTwoRegisters \cup WithDestination \cup WithSource,
           d \in 0..33, s \in 0..33 :
          instruction = [Blank EXCEPT !.operation = op, !.destination_register = d,
                                      !.source_register = s]
    BY <1>7, Zenon DEF OfRegisters
  <2>2. op \in Operations /\ d \in Byte /\ s \in Byte
    BY <1>2, <1>5, <2>1
  <2>3. instruction = [operation |-> op, destination_register |-> d,
                       source_register |-> s, immediate |-> 0, bit_index |-> 0,
                       relative_offset |-> 0, target_address |-> 0]
    BY <2>1, ZenonT(60) DEF Blank
  <2>. QED BY <1>2, <2>2, <2>3 DEF Instruction
<1>8. CASE OfTransfer
  <2>1. PICK op \in PortTransfers,
           d \in {0, 17, 31, 32}, s \in {0, 17, 31, 32}, k \in 0..65 :
          instruction = [Blank EXCEPT !.operation = op, !.destination_register = d,
                                      !.source_register = s, !.immediate = k]
    BY <1>8, Zenon DEF OfTransfer
  <2>2. op \in Operations /\ d \in Byte /\ s \in Byte /\ k \in Byte
    BY <1>2, <1>5, <2>1
  <2>3. instruction = [operation |-> op, destination_register |-> d,
                       source_register |-> s, immediate |-> k, bit_index |-> 0,
                       relative_offset |-> 0, target_address |-> 0]
    BY <2>1, ZenonT(60) DEF Blank
  <2>. QED BY <1>2, <2>2, <2>3 DEF Instruction
<1>9. CASE OfPortBit
  <2>1. PICK op \in PortBitOps, k \in 0..33, b \in 0..9 :
          instruction = [Blank EXCEPT !.operation = op, !.immediate = k,
                                      !.bit_index = b]
    BY <1>9, Zenon DEF OfPortBit
  <2>2. op \in Operations /\ k \in Byte /\ b \in Byte
    BY <1>2, <1>5, <2>1
  <2>3. instruction = [operation |-> op, destination_register |-> 0,
                       source_register |-> 0, immediate |-> k, bit_index |-> b,
                       relative_offset |-> 0, target_address |-> 0]
    BY <2>1, ZenonT(60) DEF Blank
  <2>. QED BY <1>2, <2>2, <2>3 DEF Instruction
<1>10. CASE OfJump
  <2>1. PICK op \in Branches \cup {"RJMP"}, r \in Offsets :
          instruction = [Blank EXCEPT !.operation = op, !.relative_offset = r]
    BY <1>10 DEF OfJump
  <2>2. op \in Operations /\ r \in Int16
    BY <1>3, <1>5, <2>1
  <2>3. instruction = [operation |-> op, destination_register |-> 0,
                       source_register |-> 0, immediate |-> 0, bit_index |-> 0,
                       relative_offset |-> r, target_address |-> 0]
    BY <2>1, ZenonT(60) DEF Blank
  <2>. QED BY <1>2, <2>2, <2>3 DEF Instruction
<1>11. CASE OfCall
  <2>1. PICK op \in {"CALL", "RET"}, t \in Targets :
          instruction = [Blank EXCEPT !.operation = op, !.target_address = t]
    BY <1>11, Zenon DEF OfCall
  <2>2. op \in Operations /\ t \in Word
    BY <1>4, <1>5, <2>1
  <2>3. instruction = [operation |-> op, destination_register |-> 0,
                       source_register |-> 0, immediate |-> 0, bit_index |-> 0,
                       relative_offset |-> 0, target_address |-> t]
    BY <2>1, ZenonT(60) DEF Blank
  <2>. QED BY <1>2, <2>2, <2>3 DEF Instruction
<1>. QED BY <1>1, <1>6, <1>7, <1>8, <1>9, <1>10, <1>11

LEMMA CallerInvariant == Spec => []CallerInv
<1>1. Init => CallerInv
  <2>1. ASSUME word \in {page * PageSize : page \in 0..15}, instruction = Blank,
               phase = "sweep"
        PROVE  CallerInv
    <3>1. word \in Int /\ 0 <= word /\ word <= 65535
      BY <2>1 DEF PageSize
    <3>. QED BY <2>1, <3>1, InWord, BlankType DEF CallerInv
  <2>2. ASSUME word = 0, Candidate, phase = "candidate"
        PROVE  CallerInv
    BY <2>2, CandidateType, InWord DEF CallerInv
  <2>. QED BY <2>1, <2>2 DEF Init
<1>2. CallerInv /\ [Next]_vars => CallerInv'
  <2>. SUFFICES ASSUME CallerInv, [Next]_vars
                PROVE  CallerInv'
    OBVIOUS
  <2>1. CASE Disassemble
    <3>1. word \in Int /\ 0 <= word /\ word <= 65535
      BY WordBounds DEF CallerInv
    <3>2. word # 65535
      BY <2>1 DEF Disassemble, PageSize
    <3>3. word' \in Word
      BY <2>1, <3>1, <3>2, InWord DEF Disassemble
    <3>. QED BY <2>1, <3>3 DEF Disassemble, CallerInv
  <2>2. CASE EncodeCandidate
    BY <2>2, EncodingSurvives DEF EncodeCandidate, CallerInv
  <2>3. CASE RejectCandidate
    BY <2>3 DEF RejectCandidate, CallerInv
  <2>4. CASE UNCHANGED vars
    BY <2>4 DEF vars, CallerInv
  <2>. QED BY <2>1, <2>2, <2>3, <2>4 DEF Next
<1>. QED BY <1>1, <1>2, PTL DEF Spec

\* No word is claimed by two operations, so the order of the decoder's if-chain
\* decides nothing (avr_instruction.c:388-613).
THEOREM OneOperationPerWord == Spec => []PatternsDisjoint
<1>1. ASSUME word \in Word
      PROVE  PatternsDisjoint
  <2>. DEFINE S == {k \in DOMAIN DecodeOrder : Matches(DecodeOrder[k], word)}
  <2>1. ASSUME NEW k \in S, NEW n \in S
        PROVE  k = n
    <3>1. DecodeOrder[k] = DecodeOrder[n]
      BY <1>1, <2>1, OnePattern, OrderedOperations
    <3>. QED BY <2>1, <3>1 DEF DecodeOrder
  <2>2. CASE S = {}
    BY <2>2, FS_EmptySet DEF PatternsDisjoint
  <2>3. CASE S # {}
    <3>1. PICK k : S = {k}
      BY <2>1, <2>3
    <3>2. Cardinality(S) = 1
      BY <3>1, FS_Singleton
    <3>. QED BY <3>2 DEF PatternsDisjoint
  <2>. QED BY <2>2, <2>3
<1>2. CallerInv => PatternsDisjoint
  BY <1>1 DEF CallerInv
<1>. QED BY <1>2, CallerInvariant, PTL

\* Every word that is decoded is encoded again as it was, whatever the struct
\* held before, and no operand found in it is refused (avr_instruction.c:241-386,
\* 388-613); for the flash size of the source.
THEOREM WordsSurvive ==
  ASSUME FlashSize = 1024
  PROVE  Spec => []DecodeThenEncode
<1>1. CallerInv => DecodeThenEncode
  BY DecodingSurvives DEF CallerInv, DecodeThenEncode
<1>. QED BY <1>1, CallerInvariant, PTL

\* Every candidate the encoder accepts comes back from its word with the
\* operands its operation reads (avr_instruction.c:241-386, 388-613).
THEOREM CandidatesSurvive == Spec => []EncodeThenDecode
<1>1. ASSUME NEW i, NEW j, SameOperands(i, j)
      PROVE  Operands(i) = Operands(j)
  BY <1>1 DEF SameOperands, Operands
<1>2. CallerInv => EncodeThenDecode
  <2>. SUFFICES ASSUME CallerInv, phase = "encoded"
                PROVE  /\ word \in Word
                       /\ Decodes(word)
                       /\ Operands(Decode(word, Blank)) = Operands(instruction)
    BY DEF EncodeThenDecode
  <2>1. /\ Decodes(word)
        /\ SameOperands(Decode(word, Blank), instruction)
    BY EncodingSurvives DEF CallerInv
  <2>. QED BY <1>1, <2>1 DEF CallerInv
<1>. QED BY <1>2, CallerInvariant, PTL
-----------------------------------------------------------------------------
(***************************************************************************)
(* The texts.                                                              *)
(***************************************************************************)
\* What the encoder reads of an instruction: its operation, and the operands
\* of that operation.
ReadAlike(i, j) ==
  /\ i.operation = j.operation
  /\ i.operation \in WithConstant \cup WithTwoRegisters \cup WithDestination \cup {"IN"}
       => i.destination_register = j.destination_register
  /\ i.operation \in WithTwoRegisters \cup WithSource \cup {"OUT"}
       => i.source_register = j.source_register
  /\ i.operation \in WithConstant \cup PortTransfers \cup PortBitOps
       => i.immediate = j.immediate
  /\ i.operation \in PortBitOps => i.bit_index = j.bit_index
  /\ i.operation \in Branches \cup {"RJMP"} => i.relative_offset = j.relative_offset
  /\ i.operation = "CALL" => i.target_address = j.target_address

LEMMA EncodedAlike ==
  ASSUME NEW i, NEW j, i.operation \in Operations, ReadAlike(i, j)
  PROVE  Encode(i) = Encode(j)
<1>1. OperandBits(i) = OperandBits(j)
  BY DEF OperandBits, ReadAlike, Operations, WithConstant, WithTwoRegisters,
         WithDestination, WithSource, PortTransfers, PortBitOps, Branches
<1>. QED BY <1>1 DEF Encode, ReadAlike

\* What avr_debug_format_instruction prints, and what a reader takes from it.
LEMMA FormatPrints ==
  ASSUME NEW i, NEW pc, i.operation \in Operations
  PROVE  LET op == i.operation
             v(n) == FormatValues(i, pc)[n].value
         IN  /\ op \in WithConstant \cup {"IN"} =>
                  v(1) = i.destination_register /\ v(2) = i.immediate
             /\ op \in WithTwoRegisters =>
                  v(1) = i.destination_register /\ v(2) = i.source_register
             /\ op \in WithDestination => v(1) = i.destination_register
             /\ op \in WithSource => v(1) = i.source_register
             /\ op = "OUT" => v(1) = i.immediate /\ v(2) = i.source_register
             /\ op \in PortBitOps => v(1) = i.immediate /\ v(2) = i.bit_index
             /\ op \in Branches \cup {"RJMP"} =>
                  v(1) = i.relative_offset /\ v(2) = ResolvedTarget(i, pc)
             /\ op = "CALL" => v(1) = i.target_address
BY DEF FormatValues, Decimal, Signed, Hex, IoName, Operations, WithConstant,
       WithTwoRegisters, WithDestination, WithSource, PortTransfers, PortBitOps, Branches

LEMMA FormatReads ==
  ASSUME NEW text, NEW pc, text.words \in Operations
  PROVE  LET op == text.words
             v(n) == text.values[n].value
             j == ReadFormat(text, pc)
         IN  /\ j.operation = op
             /\ op \in WithConstant \cup {"IN"} =>
                  j.destination_register = v(1) /\ j.immediate = v(2)
             /\ op \in WithTwoRegisters =>
                  j.destination_register = v(1) /\ j.source_register = v(2)
             /\ op \in WithDestination => j.destination_register = v(1)
             /\ op \in WithSource => j.source_register = v(1)
             /\ op = "OUT" => j.immediate = v(1) /\ j.source_register = v(2)
             /\ op \in PortBitOps => j.immediate = v(1) /\ j.bit_index = v(2)
             /\ op \in Branches \cup {"RJMP"} => j.relative_offset = v(1)
             /\ op = "CALL" => j.target_address = v(1)
BY DEF ReadFormat, Blanked, Blank, Operations, WithConstant, WithTwoRegisters,
       WithDestination, WithSource, PortTransfers, PortBitOps, Branches

LEMMA FormatTellsTheInstruction ==
  ASSUME NEW i, NEW pc, i.operation \in Operations
  PROVE  ReadAlike(i, ReadFormat(Disassembled(i, pc), pc))
<1>. DEFINE text == Disassembled(i, pc)
<1>1. text.words = i.operation /\ text.values = FormatValues(i, pc)
  BY SMTT(30) DEF Disassembled
<1>. HIDE DEF text
<1>. QED
  BY <1>1, FormatPrints, FormatReads, SMTT(30)
     DEF ReadAlike, Operations, WithConstant, WithTwoRegisters, WithDestination,
         WithSource, PortTransfers, PortBitOps, Branches, text

\* What avr_debug_explain_instruction prints, and what a reader takes from it.
LEMMA ExplainPrints ==
  ASSUME NEW i, NEW pc, i.operation \in Operations
  PROVE  LET op == i.operation
             v(n) == ExplainValues(i, pc)[n].value
         IN  /\ op \in {"LDI", "IN"} => v(1) = i.immediate /\ v(2) = i.destination_register
             /\ op = "CPI" => v(1) = i.destination_register /\ v(2) = i.immediate
             /\ op \in {"MOV", "ADD", "SUB"} =>
                  v(1) = i.source_register /\ v(2) = i.destination_register
             /\ op \in {"AND", "OR", "EOR", "CP"} =>
                  v(1) = i.destination_register /\ v(2) = i.source_register
             /\ op \in WithDestination => v(1) = i.destination_register
             /\ op \in WithSource => v(1) = i.source_register
             /\ op = "OUT" => v(1) = i.source_register /\ v(2) = i.immediate
             /\ op \in PortBitOps => v(1) = i.bit_index /\ v(2) = i.immediate
             /\ op \in Branches \cup {"RJMP"} => v(1) = ResolvedTarget(i, pc)
             /\ op = "CALL" => v(1) = i.target_address
<1>. DEFINE op == i.operation
            v(n) == ExplainValues(i, pc)[n].value
<1>1. /\ op \in {"LDI", "IN"} => v(1) = i.immediate /\ v(2) = i.destination_register
      /\ op = "CPI" => v(1) = i.destination_register /\ v(2) = i.immediate
      /\ op = "OUT" => v(1) = i.source_register /\ v(2) = i.immediate
      /\ op \in PortBitOps => v(1) = i.bit_index /\ v(2) = i.immediate
  BY DEF ExplainValues, Decimal, IoName, Operations, WithConstant,
         WithTwoRegisters, WithDestination, WithSource, PortTransfers, PortBitOps, Branches
<1>2. /\ op \in {"MOV", "ADD", "SUB"} =>
           v(1) = i.source_register /\ v(2) = i.destination_register
      /\ op \in {"AND", "OR", "EOR", "CP"} =>
           v(1) = i.destination_register /\ v(2) = i.source_register
  BY DEF ExplainValues, ThreeValues, Decimal, Operations, WithConstant,
         WithTwoRegisters, WithDestination, WithSource, PortTransfers, PortBitOps, Branches
<1>3. /\ op \in WithDestination => v(1) = i.destination_register
      /\ op \in WithSource => v(1) = i.source_register
      /\ op \in Branches \cup {"RJMP"} => v(1) = ResolvedTarget(i, pc)
      /\ op = "CALL" => v(1) = i.target_address
  BY DEF ExplainValues, Decimal, Operations, WithConstant,
         WithTwoRegisters, WithDestination, WithSource, PortTransfers, PortBitOps, Branches
<1>. HIDE DEF v, op
<1>. QED BY <1>1, <1>2, <1>3, SMTT(30) DEF v, op

LEMMA ExplainReads ==
  ASSUME NEW text, NEW pc, text.words \in Operations
  PROVE  LET op == text.words
             v(n) == text.values[n].value
             j == ReadExplanation(text, pc)
         IN  /\ j.operation = op
             /\ op = "LDI" => j.immediate = v(1) /\ j.destination_register = v(2)
             /\ op = "IN" => j.immediate = v(1) /\ j.destination_register = v(2)
             /\ op = "CPI" => j.destination_register = v(1) /\ j.immediate = v(2)
             /\ op \in {"MOV", "ADD", "SUB"} =>
                  j.source_register = v(1) /\ j.destination_register = v(2)
             /\ op \in {"AND", "OR", "EOR", "CP"} =>
                  j.destination_register = v(1) /\ j.source_register = v(2)
             /\ op \in WithDestination => j.destination_register = v(1)
             /\ op \in WithSource => j.source_register = v(1)
             /\ op = "OUT" => j.source_register = v(1) /\ j.immediate = v(2)
             /\ op \in PortBitOps => j.bit_index = v(1) /\ j.immediate = v(2)
             /\ op \in Branches \cup {"RJMP"} => j.relative_offset = OffsetTo(v(1), pc)
             /\ op = "CALL" => j.target_address = v(1)
<1>. DEFINE op == text.words
            j == ReadExplanation(text, pc)
            likeFormat == {"CPI", "AND", "OR", "EOR", "CP", "CALL", "RET"}
                            \cup WithDestination \cup WithSource
<1>. USE DEF Operations, WithConstant, WithTwoRegisters, WithDestination, WithSource,
             PortTransfers, PortBitOps, Branches
<1>1. CASE op \in likeFormat
  <2>1. j = ReadFormat(text, pc)
    BY <1>1 DEF ReadExplanation
  <2>. QED BY <1>1, <2>1, FormatReads
<1>2. CASE op \in {"LDI", "MOV", "ADD", "SUB", "IN", "OUT"}
  BY <1>2 DEF ReadExplanation, Blanked, Blank
<1>3. CASE op \in {"SBI", "CBI", "BRNE", "BREQ", "RJMP"}
  BY <1>3 DEF ReadExplanation, Blanked, Blank
<1>. QED BY <1>1, <1>2, <1>3

\* The way to a target that has wrapped is the offset that led there.
LEMMA OffsetRecovered ==
  ASSUME NEW pc \in Int, NEW offset \in Int, -2048 <= offset, offset <= 2047
  PROVE  OffsetTo(ToWord(pc + 1 + offset), pc) = offset
<1>. DEFINE here == pc + 1
            target == (here + offset) % 65536
            q == (here + offset) \div 65536
            way == (target - here) % 65536
            turns == (target - here) \div 65536
<1>1. here + offset = 65536 * q + target /\ q \in Int /\ target \in Int
  OBVIOUS
<1>2. /\ target - here = 65536 * turns + way /\ turns \in Int
      /\ way \in Int /\ 0 <= way /\ way < 65536
  OBVIOUS
<1>. HIDE DEF target, q, way, turns
<1>3. offset = 65536 * (q + turns) + way
  BY <1>1, <1>2
<1>4. (IF way >= 32768 THEN way - 65536 ELSE way) = offset
  BY <1>2, <1>1, <1>3
<1>5. OffsetTo(ToWord(pc + 1 + offset), pc) = (IF way >= 32768 THEN way - 65536 ELSE way)
  <2>1. target - pc - 1 = target - here
    BY <1>1
  <2>. QED BY <2>1 DEF OffsetTo, SignExtend, ToWord, way, target
<1>. QED BY <1>4, <1>5

LEMMA ExplanationTellsTheInstruction ==
  ASSUME NEW i, NEW pc \in Int, i.operation \in Operations,
         i.operation \in Branches \cup {"RJMP"} =>
           /\ i.relative_offset \in Int
           /\ -2048 <= i.relative_offset /\ i.relative_offset <= 2047
  PROVE  ReadAlike(i, ReadExplanation(Explained(i, pc), pc))
<1>. DEFINE text == Explained(i, pc)
<1>1. text.words = i.operation /\ text.values = ExplainValues(i, pc)
  BY DEF Explained
<1>2. i.operation \in Branches \cup {"RJMP"}
        => OffsetTo(ResolvedTarget(i, pc), pc) = i.relative_offset
  <2>. DEFINE r == i.relative_offset
  <2>1. ASSUME r \in Int, -2048 <= r, r <= 2047
        PROVE  OffsetTo(ToWord(pc + 1 + r), pc) = r
    <3>. HIDE DEF r
    <3>. QED BY <2>1, OffsetRecovered
  <2>. QED BY <2>1 DEF ResolvedTarget
<1>. HIDE DEF text
<1>. QED
  BY <1>1, <1>2, ExplainPrints, ExplainReads
     DEF ReadAlike, Operations, WithConstant, WithTwoRegisters, WithDestination,
         WithSource, PortTransfers, PortBitOps, Branches, text

\* The operation of a decoded word, and the offset found in it.
LEMMA DecodedJump ==
  ASSUME NEW w \in Word, Decodes(w), NEW out
  PROVE  LET i == Decode(w, out)
         IN  /\ i.operation \in Operations
             /\ i.operation \in Branches \cup {"RJMP"} =>
                  /\ i.relative_offset \in Int
                  /\ -2048 <= i.relative_offset /\ i.relative_offset <= 2047
<1>. DEFINE op == DecodeOperation(w)
            i == Decode(w, out)
            n == w \div 8
<1>1. w \in Int /\ n \in Int
  BY WordBounds
<1>2. op \in Operations
  BY DecodeOperationType
<1>3. /\ i.operation = op
      /\ op = "RJMP" => i.relative_offset = SignExtend(w, 4096)
      /\ op \in Branches => i.relative_offset = SignExtend(n, 128)
  BY DecodedFields
<1>. HIDE DEF op, i, n
<1>4. /\ SignExtend(w, 4096) \in Int
      /\ -2048 <= SignExtend(w, 4096) /\ SignExtend(w, 4096) <= 2047
      /\ SignExtend(n, 128) \in Int
      /\ -64 <= SignExtend(n, 128) /\ SignExtend(n, 128) <= 63
  BY <1>1, SignExtendRange
<1>. QED BY <1>2, <1>3, <1>4 DEF i

\* Neither the assembly line nor the sentence loses anything of a word: each
\* determines it, whatever the struct held before it was decoded, also for jumps
\* whose target wraps (avr_debug.c:76-354); for the flash size of the source.
THEOREM TextsDetermineTheWord ==
  ASSUME FlashSize = 1024
  PROVE  Spec => []TextsTellTheWord
<1>1. CallerInv => TextsTellTheWord
  <2>. SUFFICES ASSUME CallerInv, Decodes(word), NEW garbage \in Garbage, NEW pc \in Lines
                PROVE  LET i == Decode(word, garbage)
                       IN  /\ Encode(ReadFormat(Disassembled(i, pc), pc)) = word
                           /\ Encode(ReadExplanation(Explained(i, pc), pc)) = word
    BY DEF TextsTellTheWord
  <2>. DEFINE i == Decode(word, garbage)
  <2>1. word \in Word
    BY DEF CallerInv
  <2>2. pc \in Int
    BY DEF Lines
  <2>3. /\ i.operation \in Operations
        /\ i.operation \in Branches \cup {"RJMP"} =>
             /\ i.relative_offset \in Int
             /\ -2048 <= i.relative_offset /\ i.relative_offset <= 2047
    BY <2>1, DecodedJump
  <2>4. Encode(i) = word
    BY <2>1, DecodingSurvives
  <2>. HIDE DEF i
  <2>5. Encode(ReadFormat(Disassembled(i, pc), pc)) = word
    BY <2>3, <2>4, FormatTellsTheInstruction, EncodedAlike
  <2>6. Encode(ReadExplanation(Explained(i, pc), pc)) = word
    BY <2>2, <2>3, <2>4, ExplanationTellsTheInstruction, EncodedAlike
  <2>. QED BY <2>5, <2>6 DEF i
<1>. QED BY <1>1, CallerInvariant, PTL

\* The widest value of each kind.
LEMMA Widths ==
  ASSUME NEW n
  PROVE  /\ Width(Decimal(n)) \in 1..5
         /\ Width(Signed(n)) \in 2..6
         /\ Width(Hex(n)) = 4
         /\ Width(IoName(n)) \in 3..7
<1>1. \A m : Digits(m) \in 1..5
  BY DEF Digits
<1>2. IoNameWidth(n) \in 3..7
  BY <1>1 DEF IoNameWidth
<1>. QED BY <1>1, <1>2 DEF Width, Decimal, Signed, Hex, IoName

\* The operands take 19 characters of the line at most.
LEMMA LineFits ==
  ASSUME NEW i, NEW pc, i.operation \in Operations
  PROVE  FormatLength(i, pc) < 64
<1>. DEFINE v == FormatValues(i, pc)
<1>1. FormatWords(i.operation) \in 3..10
  BY DEF FormatWords, Operations, WithConstant, WithTwoRegisters, WithDestination,
         WithSource, PortTransfers, PortBitOps, Branches
<1>2. \A n \in {1, 2, 3} : WidthAt(v, n) \in 0..7
  BY Widths
     DEF WidthAt, FormatValues, Operations, WithConstant, WithTwoRegisters,
         WithDestination, WithSource, PortTransfers, PortBitOps, Branches
<1>. HIDE DEF v
<1>. QED BY <1>1, <1>2 DEF FormatLength, TextLength, v

\* The longest sentence is that of SBI, the longest with three values EOR's.
LEMMA SentenceFits ==
  ASSUME NEW i, NEW pc, i.operation \in Operations
  PROVE  ExplainLength(i, pc) < 96
<1>. DEFINE op == i.operation
            v == ExplainValues(i, pc)
            fixed == ExplainWords(op)
<1>. USE DEF Operations, WithConstant, WithTwoRegisters, WithDestination, WithSource,
             PortTransfers, PortBitOps, Branches
<1>1. CASE op \in WithTwoRegisters
  <2>1. fixed \in {27, 37, 44, 59, 61, 62, 74}
    BY <1>1 DEF ExplainWords
  <2>2. \A n \in {1, 2, 3} : WidthAt(v, n) \in 0..5
    BY <1>1, Widths DEF WidthAt, ExplainValues, ThreeValues
  <2>. HIDE DEF v, fixed, op
  <2>. QED BY <2>1, <2>2 DEF ExplainLength, TextLength, v, fixed, op
<1>2. CASE op \in WithConstant \cup PortTransfers \cup PortBitOps
  <2>1. fixed \in {25, 33, 38, 72, 78, 79}
    BY <1>2 DEF ExplainWords
  <2>2. /\ WidthAt(v, 1) \in 0..7 /\ WidthAt(v, 2) \in 0..7 /\ WidthAt(v, 3) = 0
    <3>. DEFINE d == Decimal(i.destination_register)
                s == Decimal(i.source_register)
                k == Decimal(i.immediate)
                b == Decimal(i.bit_index)
                io == IoName(i.immediate)
    <3>1. v \in {<<k, d>>, <<d, k>>, <<io, d>>, <<s, io>>, <<b, io>>}
      BY <1>2 DEF ExplainValues
    <3>2. \A w \in {d, s, k, b, io} : Width(w) \in 0..7
      BY Widths
    <3>. HIDE DEF v, d, s, k, b, io
    <3>3. PICK left \in {d, s, k, b, io}, right \in {d, s, k, b, io} : v = <<left, right>>
      BY <3>1
    <3>. QED BY <3>2, <3>3 DEF WidthAt
  <2>. HIDE DEF v, fixed, op
  <2>. QED BY <2>1, <2>2 DEF ExplainLength, TextLength, v, fixed, op
<1>3. CASE op \in WithDestination \cup WithSource \cup Branches \cup {"RJMP", "CALL", "RET"}
  <2>1. fixed \in {11, 14, 18, 22, 43, 45, 49, 51, 55, 80, 84}
    BY <1>3, SMTT(30) DEF ExplainWords
  <2>2. /\ WidthAt(v, 1) \in 0..7 /\ WidthAt(v, 2) = 0 /\ WidthAt(v, 3) = 0
    BY <1>3, Widths DEF WidthAt, ExplainValues
  <2>. HIDE DEF v, fixed, op
  <2>. QED BY <2>1, <2>2 DEF ExplainLength, TextLength, v, fixed, op
<1>. QED BY <1>1, <1>2, <1>3

\* No text is cut: the smallest buffers of the frontends, 64 and 96 bytes, hold
\* the line and the sentence of every word at both ends of flash, so that the
\* results of the two functions may be ignored (avr_tui.c:125-136,
\* avr_debug.c:353).
THEOREM TextsAlwaysFit == Spec => []TextsFit
<1>1. CallerInv => TextsFit
  <2>. SUFFICES ASSUME CallerInv, Decodes(word), NEW pc \in Lines
                PROVE  LET i == Decode(word, Blank)
                       IN  /\ FormatFits(i, pc, InstructionBuffer)
                           /\ ExplainFits(i, pc, ExplanationBuffer)
    BY DEF TextsFit
  <2>. DEFINE i == Decode(word, Blank)
  <2>1. i.operation \in Operations
    BY DecodedJump DEF CallerInv
  <2>. HIDE DEF i
  <2>. QED BY <2>1, LineFits, SentenceFits
           DEF FormatFits, ExplainFits, InstructionBuffer, ExplanationBuffer, i
<1>. QED BY <1>1, CallerInvariant, PTL
=============================================================================
