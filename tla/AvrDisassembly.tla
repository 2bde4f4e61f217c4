--------------------------- MODULE AvrDisassembly ---------------------------
(***************************************************************************)
(* The texts avr_debug.c makes of a decoded instruction: a line of         *)
(* assembly and an English sentence.  A text is its operation, which       *)
(* stands for the fixed words around it, and the values printed among      *)
(* them, in the order of the text.  Wording is left out; its length is     *)
(* kept, because the texts go into buffers of the frontends.               *)
(***************************************************************************)
EXTENDS AvrInstruction

\* How a value is printed: %u, %+d, %04x, or the name of an I/O register.
Decimal(n) == [printed |-> "decimal", value |-> n]
Signed(n)  == [printed |-> "signed", value |-> n]
Hex(n)     == [printed |-> "hex", value |-> n]
IoName(id) == [printed |-> "io", value |-> id]

\* Mutant of ResolvedTarget: relative to the jump instead of its successor.
TargetFromHere(i, pc) == ToWord(pc + i.relative_offset)

\* The destination of a relative jump.
ResolvedTarget(i, pc) == ToWord(pc + 1 + i.relative_offset)

\* avr_debug_format_instruction
FormatValues(i, pc) ==
  LET d == Decimal(i.destination_register)
      s == Decimal(i.source_register)
      k == Decimal(i.immediate)
      io == IoName(i.immediate)
      op == i.operation
  IN  CASE op \in WithConstant          -> <<d, k>>
        [] op \in WithTwoRegisters      -> <<d, s>>
        [] op \in WithDestination       -> <<d>>
        [] op \in WithSource            -> <<s>>
        [] op = "IN"                    -> <<d, io>>
        [] op = "OUT"                   -> <<io, s>>
        [] op \in PortBitOps            -> <<io, Decimal(i.bit_index)>>
        [] op \in Branches \cup {"RJMP"} ->
             <<Signed(i.relative_offset), Hex(ResolvedTarget(i, pc))>>
        [] op = "CALL"                  -> <<Hex(i.target_address)>>
        [] op = "RET"                   -> << >>

\* Mutant of ThreeValues: AND, OR and EOR name one register only.
ThreeValuesRepeated(op, d, s) ==
  IF op \in {"ADD", "SUB"} THEN <<s, d, d>> ELSE <<d, d, d>>

\* "Add R%u to R%u and store ..."; "Keep only the bits set in both R%u and R%u ...".
ThreeValues(op, d, s) ==
  IF op \in {"ADD", "SUB"} THEN <<s, d, d>> ELSE <<d, s, d>>

\* avr_debug_explain_instruction
ExplainValues(i, pc) ==
  LET d == Decimal(i.destination_register)
      s == Decimal(i.source_register)
      k == Decimal(i.immediate)
      io == IoName(i.immediate)
      op == i.operation
  IN  CASE op = "LDI"                    -> <<k, d>>
        [] op = "CPI"                    -> <<d, k>>
        [] op = "MOV"                    -> <<s, d>>
        [] op = "CP"                     -> <<d, s>>
        [] op \in WithTwoRegisters \ {"MOV", "CP"} -> ThreeValues(op, d, s)
        [] op \in WithDestination        -> <<d>>
        [] op \in WithSource             -> <<s>>
        [] op = "IN"                     -> <<io, d>>
        [] op = "OUT"                    -> <<s, io>>
        [] op \in PortBitOps             -> <<Decimal(i.bit_index), io>>
        [] op \in Branches \cup {"RJMP"} -> <<Decimal(ResolvedTarget(i, pc))>>
        [] op = "CALL"                   -> <<Decimal(i.target_address)>>
        [] op = "RET"                    -> << >>

Disassembled(i, pc) == [words |-> i.operation, values |-> FormatValues(i, pc)]
Explained(i, pc) == [words |-> i.operation, values |-> ExplainValues(i, pc)]
-----------------------------------------------------------------------------
(***************************************************************************)
(* The lengths of the texts.                                               *)
(***************************************************************************)
Digits(n) == CASE n < 10         -> 1 [] n \in 10..99     -> 2
               [] n \in 100..999 -> 3 [] n \in 1000..9999 -> 4
               [] OTHER          -> 5

\* io_name: PINB and DDRB, PORTB, or IO and the number.
IoNameWidth(id) ==
  CASE id \in {PINB, DDRB} -> 4 [] id = PORTB -> 5 [] OTHER -> 2 + Digits(id)

Width(v) ==
  CASE v.printed = "decimal" -> Digits(v.value)
    [] v.printed = "signed"  -> 1 + Digits(IF v.value < 0 THEN -v.value ELSE v.value)
    [] v.printed = "hex"     -> 4
    [] v.printed = "io"      -> IoNameWidth(v.value)

\* The characters of the format strings without their conversions.
FormatWords(op) ==
  CASE op \in Branches \cup {"RJMP"} -> 10
    [] op \in {"MOV", "ADD", "SUB", "AND", "EOR"} -> 8
    [] op \in {"LDI", "CPI", "OR", "CP", "LD", "ST", "OUT", "CALL"} -> 7
    [] op \in PortBitOps \cup {"IN", "PUSH"} -> 6
    [] op \in {"INC", "DEC", "POP"} -> 5
    [] op = "RET" -> 3

ExplainWords(op) ==
  CASE op = "LDI"  -> 33 [] op = "MOV"  -> 27 [] op = "ADD"  -> 37
    [] op = "SUB"  -> 44 [] op = "INC"  -> 11 [] op = "DEC"  -> 18
    [] op = "LD"   -> 51 [] op = "ST"   -> 43 [] op = "IN"   -> 38
    [] op = "OUT"  -> 25 [] op = "RJMP" -> 14 [] op = "BRNE" -> 84
    [] op = "BREQ" -> 80 [] op = "AND"  -> 62 [] op = "OR"   -> 59
    [] op = "EOR"  -> 74 [] op = "CP"   -> 61 [] op = "CPI"  -> 72
    [] op = "SBI"  -> 79 [] op = "CBI"  -> 78 [] op = "PUSH" -> 22
    [] op = "POP"  -> 55 [] op = "CALL" -> 49 [] op = "RET"  -> 45

\* The characters a text needs.  The operands are at most three.
WidthAt(values, n) == IF n \in DOMAIN values THEN Width(values[n]) ELSE 0
TextLength(fixed, values) ==
  fixed + WidthAt(values, 1) + WidthAt(values, 2) + WidthAt(values, 3)

FormatLength(i, pc) == TextLength(FormatWords(i.operation), FormatValues(i, pc))
ExplainLength(i, pc) == TextLength(ExplainWords(i.operation), ExplainValues(i, pc))

\* Mutant of ExplanationBuffer: a line of 80 columns with its terminator.
ExplanationBuffer80 == 81

\* The smallest buffers of the frontends: instruction[64], explanation[96].
InstructionBuffer == 64
ExplanationBuffer == 96

\* What the functions return: whether the text and its terminator fit.
FormatFits(i, pc, buffer_size) == FormatLength(i, pc) < buffer_size
ExplainFits(i, pc, buffer_size) == ExplainLength(i, pc) < buffer_size
=============================================================================
