------------------------------ MODULE MCCodec ------------------------------
(***************************************************************************)
(* A caller of the codec.  It either disassembles the whole word space in  *)
(* order, or takes one candidate instruction, legal or not, encodes it and *)
(* decodes the result.  The invariants compare the two directions.         *)
(***************************************************************************)
EXTENDS AvrDisassembly, FiniteSets

VARIABLES word,         \* the instruction word the caller looks at
          instruction,  \* the struct it passes to the codec
          phase         \* "sweep" | "candidate" | "encoded" | "rejected" | "decoded"

vars == <<word, instruction, phase>>

Blank == [operation |-> "LDI", destination_register |-> 0, source_register |-> 0,
          immediate |-> 0, bit_index |-> 0, relative_offset |-> 0,
          target_address |-> 0]

\* What an uninitialised AvrInstruction may hold: nothing, or extreme fields.
Garbage == {Blank,
            [operation |-> "RET", destination_register |-> 255,
             source_register |-> 255, immediate |-> 255, bit_index |-> 255,
             relative_offset |-> -32768, target_address |-> 65535]}

\* Every operand of every operation, with the values just outside each range.
Candidate ==
  \/ \E op \in WithConstant, d \in 0..33, k \in Byte :
       instruction = [Blank EXCEPT !.operation = op, !.destination_register = d,
                                   !.immediate = k]
  \/ \E op \in WithTwoRegisters \cup WithDestination \cup WithSource,
        d \in 0..33, s \in 0..33 :
       instruction = [Blank EXCEPT !.operation = op, !.destination_register = d,
                                   !.source_register = s]
  \/ \E op \in PortTransfers, d \in {0, 17, 31, 32}, s \in {0, 17, 31, 32}, k \in 0..65 :
       instruction = [Blank EXCEPT !.operation = op, !.destination_register = d,
                                   !.source_register = s, !.immediate = k]
  \/ \E op \in PortBitOps, k \in 0..33, b \in 0..9 :
       instruction = [Blank EXCEPT !.operation = op, !.immediate = k, !.bit_index = b]
  \/ \E op \in Branches \cup {"RJMP"}, r \in -2050..2049 :
       instruction = [Blank EXCEPT !.operation = op, !.relative_offset = r]
  \/ \E op \in {"CALL", "RET"}, t \in 0..1025 :
       instruction = [Blank EXCEPT !.operation = op, !.target_address = t]

\* The sweep goes through the word space in pages.
PageSize == 4096

Init ==
  \/ word \in {page * PageSize : page \in 0..15} /\ instruction = Blank /\ phase = "sweep"
  \/ word = 0 /\ Candidate /\ phase = "candidate"

Disassemble ==
  /\ phase = "sweep"
  /\ word % PageSize # PageSize - 1
  /\ word' = word + 1
  /\ UNCHANGED <<instruction, phase>>

EncodeCandidate ==
  /\ phase = "candidate"
  /\ Encodable(instruction)
  /\ word' = Encode(instruction)
  /\ phase' = "encoded"
  /\ UNCHANGED instruction

RejectCandidate ==
  /\ phase = "candidate"
  /\ ~Encodable(instruction)
  /\ phase' = "rejected"
  /\ UNCHANGED <<word, instruction>>

Next == Disassemble \/ EncodeCandidate \/ RejectCandidate

Spec == Init /\ [][Next]_vars
-----------------------------------------------------------------------------
\* No word is claimed by two operations, so the order of the decoder's if-chain
\* (avr_instruction.c:388-613) decides nothing.
PatternsDisjoint ==
  Cardinality({i \in DOMAIN DecodeOrder : Matches(DecodeOrder[i], word)}) <= 1

\* Whatever an uninitialised struct holds, a decoded word is an instruction that
\* the encoder accepts and turns back into the same word: no bit of the word is
\* lost, no stale field of the struct is read (avr_mcu_step passes an
\* uninitialised struct, avr_mcu.c:376-380), and no legal operand is refused.
DecodeThenEncode ==
  Decodes(word) =>
    \A garbage \in Garbage :
      LET i == Decode(word, garbage)
      IN  Encodable(i) /\ Encode(i) = word

\* The operands an operation reads when it executes.
Operands(i) ==
  [operation |-> i.operation,
   destination |-> IF i.operation \in WithConstant \cup WithTwoRegisters
                                        \cup WithDestination \cup {"IN"}
                   THEN i.destination_register ELSE 0,
   source |-> IF i.operation \in WithTwoRegisters \cup WithSource \cup {"OUT"}
              THEN i.source_register ELSE 0,
   immediate |-> IF i.operation \in WithConstant \cup PortTransfers \cup PortBitOps
                 THEN i.immediate ELSE 0,
   bit |-> IF i.operation \in PortBitOps THEN i.bit_index ELSE 0,
   offset |-> IF i.operation \in Branches \cup {"RJMP"} THEN i.relative_offset ELSE 0,
   target |-> IF i.operation = "CALL" THEN i.target_address ELSE 0]

\* An accepted instruction survives encoding: the word decodes to the same
\* operation with the same operands, so no operand spills into the opcode or
\* into another field.
EncodeThenDecode ==
  phase = "encoded" =>
    /\ word \in Word
    /\ Decodes(word)
    /\ Operands(Decode(word, Blank)) = Operands(instruction)

\* A reader with the text and the address of an instruction writes it down again.
Blanked(op) == [Blank EXCEPT !.operation = op]
OffsetTo(target, pc) == SignExtend(target - pc - 1, 65536)

ReadFormat(text, pc) ==
  LET op == text.words
      v(n) == text.values[n].value
  IN  CASE op \in WithConstant -> [Blanked(op) EXCEPT !.destination_register = v(1), !.immediate = v(2)]
        [] op \in WithTwoRegisters ->
             [Blanked(op) EXCEPT !.destination_register = v(1), !.source_register = v(2)]
        [] op \in WithDestination -> [Blanked(op) EXCEPT !.destination_register = v(1)]
        [] op \in WithSource -> [Blanked(op) EXCEPT !.source_register = v(1)]
        [] op = "IN"  -> [Blanked(op) EXCEPT !.destination_register = v(1), !.immediate = v(2)]
        [] op = "OUT" -> [Blanked(op) EXCEPT !.immediate = v(1), !.source_register = v(2)]
        [] op \in PortBitOps -> [Blanked(op) EXCEPT !.immediate = v(1), !.bit_index = v(2)]
        [] op \in Branches \cup {"RJMP"} -> [Blanked(op) EXCEPT !.relative_offset = v(1)]
        [] op = "CALL" -> [Blanked(op) EXCEPT !.target_address = v(1)]
        [] op = "RET" -> Blanked(op)

\* The sentences name operands in another order, and of a jump only the target.
ReadExplanation(text, pc) ==
  LET op == text.words
      v(n) == text.values[n].value
  IN  CASE op = "LDI" -> [Blanked(op) EXCEPT !.immediate = v(1), !.destination_register = v(2)]
        [] op \in {"MOV", "ADD", "SUB"} ->
             [Blanked(op) EXCEPT !.source_register = v(1), !.destination_register = v(2)]
        [] op = "IN"  -> [Blanked(op) EXCEPT !.immediate = v(1), !.destination_register = v(2)]
        [] op = "OUT" -> [Blanked(op) EXCEPT !.source_register = v(1), !.immediate = v(2)]
        [] op \in PortBitOps -> [Blanked(op) EXCEPT !.bit_index = v(1), !.immediate = v(2)]
        [] op \in Branches \cup {"RJMP"} ->
             [Blanked(op) EXCEPT !.relative_offset = OffsetTo(v(1), pc)]
        [] OTHER -> ReadFormat(text, pc)

\* Line 0, from which jumps wrap below zero, and the last one.
Lines == {0, FlashSize - 1}

\* Neither text loses anything: each determines the word it was made of, whatever
\* the struct held before it was decoded.  So no operand is left out, printed in
\* another's place, or read from a field the decoder does not set, and the
\* target of a jump is right (avr_debug.c:76-354).
TextsTellTheWord ==
  Decodes(word) =>
    \A garbage \in Garbage, pc \in Lines :
      LET i == Decode(word, garbage)
      IN  /\ Encode(ReadFormat(Disassembled(i, pc), pc)) = word
          /\ Encode(ReadExplanation(Explained(i, pc), pc)) = word

\* No text is cut: the frontends ignore the result of the two functions, whose
\* snprintf leaves a truncated text behind (avr_tui.c:125-136, avr_debug.c:353).
TextsFit ==
  Decodes(word) =>
    \A pc \in Lines :
      LET i == Decode(word, Blank)
      IN  FormatFits(i, pc, InstructionBuffer) /\ ExplainFits(i, pc, ExplanationBuffer)
=============================================================================
