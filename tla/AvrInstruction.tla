--------------------------- MODULE AvrInstruction ---------------------------
(***************************************************************************)
(* The instruction codec of src/src/instructions/avr_instruction.c: which  *)
(* instructions avr_encode_instruction accepts and the word it writes, and *)
(* what avr_decode_instruction_word makes of a word.                       *)
(*                                                                         *)
(* Every mask of the source keeps a block of high bits and a block of low  *)
(* bits of the word, so "(w & MASK) == OPCODE" is "w and OPCODE agree      *)
(* above the operand field and below it".                                  *)
(***************************************************************************)
EXTENDS AvrBits, Sequences

RegisterCount == 32

\* AvrIoAddress
PINB == 0
DDRB == 1
PORTB == 2

\* The size of flash in words.  Encoded CALL targets have 10 bits, so the code
\* relies on AVR_FLASH_SIZE (1024) not exceeding what they can name.
CONSTANT FlashSize
ASSUME FlashSizeAssumption == FlashSize \in Nat \ {0} /\ FlashSize <= 1024

(***************************************************************************)
(* Operations, in the order in which the decoder tries them, and the       *)
(* classes that share an operand layout.                                   *)
(***************************************************************************)
DecodeOrder ==
  << "LDI", "MOV", "ADD", "SUB", "INC", "LD", "ST", "IN", "OUT", "RJMP",
     "BRNE", "BREQ", "DEC", "AND", "OR", "EOR", "CP", "CPI", "SBI", "CBI",
     "PUSH", "POP", "CALL", "RET" >>

WithConstant     == {"LDI", "CPI"}
WithTwoRegisters == {"MOV", "ADD", "SUB", "AND", "OR", "EOR", "CP"}
WithDestination  == {"INC", "DEC", "LD", "POP"}
WithSource       == {"ST", "PUSH"}
PortTransfers    == {"IN", "OUT"}
Branches         == {"BRNE", "BREQ"}
PortBitOps       == {"SBI", "CBI"}

Operations == WithConstant \cup WithTwoRegisters \cup WithDestination
                \cup WithSource \cup PortTransfers \cup Branches
                \cup PortBitOps \cup {"RJMP", "CALL", "RET"}

\* AvrInstruction: what the caller of the codec may put in the struct.
Instruction ==
  [operation: Operations, destination_register: Byte, source_register: Byte,
   immediate: Byte, bit_index: Byte, relative_offset: Int16,
   target_address: Word]

Opcode(op) ==
  CASE op = "LDI"  -> 57344  \* 0xe000
    [] op = "MOV"  -> 11264  \* 0x2c00
    [] op = "ADD"  -> 3072   \* 0x0c00
    [] op = "SUB"  -> 6144   \* 0x1800
    [] op = "INC"  -> 37891  \* 0x9403
    [] op = "LD"   -> 36876  \* 0x900c
    [] op = "ST"   -> 37388  \* 0x920c
    [] op = "IN"   -> 45056  \* 0xb000
    [] op = "OUT"  -> 47104  \* 0xb800
    [] op = "RJMP" -> 49152  \* 0xc000
    [] op = "BRNE" -> 62465  \* 0xf401
    [] op = "BREQ" -> 61441  \* 0xf001
    [] op = "DEC"  -> 37898  \* 0x940a
    [] op = "AND"  -> 8192   \* 0x2000
    [] op = "OR"   -> 10240  \* 0x2800
    [] op = "EOR"  -> 9216   \* 0x2400
    [] op = "CP"   -> 5120   \* 0x1400
    [] op = "CPI"  -> 12288  \* 0x3000
    [] op = "SBI"  -> 39424  \* 0x9a00
    [] op = "CBI"  -> 38912  \* 0x9800
    [] op = "PUSH" -> 37391  \* 0x920f
    [] op = "POP"  -> 36879  \* 0x900f
    [] op = "CALL" -> 39936  \* 0x9c00
    [] op = "RET"  -> 38152  \* 0x9508

\* The masks: everything from AboveOperands up and below BelowOperands is fixed.
AboveOperands(op) ==
  CASE op \in WithConstant \cup {"RJMP"}                -> 4096
    [] op \in WithTwoRegisters \cup Branches \cup {"CALL"} -> 1024
    [] op \in WithDestination \cup WithSource           -> 512
    [] op \in PortTransfers                             -> 2048
    [] op \in PortBitOps                                -> 256
    [] op = "RET"                                       -> 1

\* Mutant of BelowOperands: masks that forget the low nibble.
MasksForgetNibble(op) == IF op \in Branches THEN 8 ELSE 1

BelowOperands(op) ==
  CASE op \in WithDestination \cup WithSource -> 16
    [] op \in Branches                        -> 8
    [] OTHER                                  -> 1

\* (w & MASK) == OPCODE
Matches(op, w) ==
  /\ w \div AboveOperands(op) = Opcode(op) \div AboveOperands(op)
  /\ w % BelowOperands(op) = Opcode(op) % BelowOperands(op)

(***************************************************************************)
(* Decoding.  Only the fields a branch of the decoder assigns are written; *)
(* the caller's struct `out' keeps the others, and avr_mcu_step hands in   *)
(* an uninitialised one.                                                   *)
(***************************************************************************)
Decodes(w) == \E i \in DOMAIN DecodeOrder : Matches(DecodeOrder[i], w)

\* The first branch of the decoder that matches w.
DecodeOperation(w) ==
  DecodeOrder[CHOOSE i \in DOMAIN DecodeOrder :
                /\ Matches(DecodeOrder[i], w)
                /\ \A j \in 1..(i - 1) : ~Matches(DecodeOrder[j], w)]

\* Mutant of SignExtend: a field read as unsigned.
ZeroExtend(w, span) == w % span

\* decode_relative_offset: sign-extend the low bits of w; span is 2^bit_count.
SignExtend(w, span) ==
  LET encoded == w % span
  IN  IF encoded >= span \div 2 THEN encoded - span ELSE encoded

DestinationField(op, w) ==
  CASE op \in WithConstant -> 16 + ((w \div 16) % 16)
    [] op \in WithTwoRegisters \cup WithDestination \cup {"IN"} -> (w \div 16) % 32
    [] OTHER -> 0

SourceField(op, w) ==
  CASE op \in WithTwoRegisters -> ((w \div 512) % 2) * 16 + (w % 16)
    [] op \in WithSource \cup {"OUT"} -> (w \div 16) % 32
    [] OTHER -> 0

ImmediateField(op, w) ==
  CASE op \in WithConstant  -> ((w \div 256) % 16) * 16 + (w % 16)
    [] op \in PortTransfers -> ((w \div 512) % 4) * 16 + (w % 16)
    [] op \in PortBitOps    -> (w \div 8) % 32
    [] OTHER -> 0

\* The branches up to OUT leave relative_offset alone; RJMP and the branches
\* set it and all later ones clear it.
LeavesOffset == {"LDI", "MOV", "ADD", "SUB", "INC", "LD", "ST", "IN", "OUT"}

\* Mutant of OffsetField: the branches forget to store their offset.
OffsetFieldForgotten(op, w, old) ==
  IF op = "RJMP" THEN SignExtend(w, 4096) ELSE old

OffsetField(op, w, old) ==
  CASE op = "RJMP"        -> SignExtend(w, 4096)
    [] op \in Branches    -> SignExtend(w \div 8, 128)
    [] op \in LeavesOffset -> old
    [] OTHER -> 0

TargetField(op, w, old) ==
  CASE op = "CALL"                  -> w % 1024
    [] op \in {"PUSH", "POP", "RET"} -> 0
    [] OTHER -> old

Decode(w, out) ==
  LET op == DecodeOperation(w)
  IN  [operation            |-> op,
       destination_register |-> DestinationField(op, w),
       source_register      |-> SourceField(op, w),
       immediate            |-> ImmediateField(op, w),
       bit_index            |-> IF op \in PortBitOps THEN w % 8 ELSE out.bit_index,
       relative_offset      |-> OffsetField(op, w, out.relative_offset),
       target_address       |-> TargetField(op, w, out.target_address)]

(***************************************************************************)
(* Encoding.                                                               *)
(***************************************************************************)
\* Mutant of ValidRelativeOffset: a symmetric range.
ValidSymmetricOffset(offset, span) == offset \in -(span \div 2 - 1)..(span \div 2 - 1)

\* valid_relative_offset; span is 2^bit_count.
ValidRelativeOffset(offset, span) == offset \in -(span \div 2)..(span \div 2 - 1)

\* The operand checks after which avr_encode_instruction returns true.
Encodable(i) ==
  /\ i.destination_register < RegisterCount
  /\ i.operation \in WithConstant => i.destination_register >= 16
  /\ i.operation \in WithTwoRegisters \cup WithSource \cup {"OUT"}
       => i.source_register < RegisterCount
  /\ i.operation \in PortTransfers => i.immediate <= 63
  /\ i.operation \in PortBitOps => i.immediate <= 31 /\ i.bit_index <= 7
  /\ i.operation = "RJMP" => ValidRelativeOffset(i.relative_offset, 4096)
  /\ i.operation \in Branches => ValidRelativeOffset(i.relative_offset, 128)
  /\ i.operation = "CALL" => i.target_address < FlashSize

\* The operand bits that are or-ed into the opcode.
OperandBits(i) ==
  LET d == i.destination_register
      s == i.source_register
      k == i.immediate
      op == i.operation
  IN  CASE op \in WithConstant     -> (k \div 16) * 256 + (d - 16) * 16 + (k % 16)
        [] op \in WithTwoRegisters -> (s \div 16) * 512 + d * 16 + (s % 16)
        [] op \in WithDestination  -> d * 16
        [] op \in WithSource       -> s * 16
        [] op = "IN"               -> (k \div 16) * 512 + d * 16 + (k % 16)
        [] op = "OUT"              -> (k \div 16) * 512 + s * 16 + (k % 16)
        [] op \in PortBitOps       -> k * 8 + i.bit_index
        [] op = "RJMP"             -> i.relative_offset % 4096
        [] op \in Branches         -> (i.relative_offset % 128) * 8
        [] op = "CALL"             -> i.target_address % 1024
        [] op = "RET"              -> 0

Encode(i) == Opcode(i.operation) + OperandBits(i)
=============================================================================
