------------------------------- MODULE AvrAlu -------------------------------
(***************************************************************************)
(* The status flags of the 8-bit arithmetic, translated from the bitwise   *)
(* formulas of avr_instruction.c.  SREG is the set of the flags that are   *)
(* 1; a flag function returns the flags it sets, like the byte of the C    *)
(* functions.                                                              *)
(***************************************************************************)
EXTENDS AvrBits

Flags == {"C", "Z", "N", "V", "S", "H", "T", "I"}

\* Bits 7 and 3 of a byte: the masks 0x80 and 0x08.
Bit7(v) == (v \div 128) % 2 = 1
Bit3(v) == (v \div 8) % 2 = 1

FlagIf(flag, condition) == IF condition THEN {flag} ELSE {}

\* N and Z of a result, and S = N xor V, as every flag function ends.
SignFlags(result, v) ==
  FlagIf("V", v) \cup FlagIf("N", Bit7(result)) \cup FlagIf("Z", result = 0)
    \cup FlagIf("S", ~(Bit7(result) <=> v))

\* Mutant of AddFlags: the half carry taken from the whole sum.
AddFlagsWholeSum(left, right, result) ==
  FlagIf("C", ((left + right) \div 256) % 2 = 1)
    \cup FlagIf("H", ((left + right) \div 16) % 2 = 1)
    \cup SignFlags(result,
           (Bit7(left) <=> Bit7(right)) /\ ~(Bit7(left) <=> Bit7(result)))

AddFlags(left, right, result) ==
  FlagIf("C", ((left + right) \div 256) % 2 = 1)
    \cup FlagIf("H", (((left % 16) + (right % 16)) \div 16) % 2 = 1)
    \cup SignFlags(result,
           (Bit7(left) <=> Bit7(right)) /\ ~(Bit7(left) <=> Bit7(result)))

\* Mutant of Borrow: the borrow that comes in from below is lost.
BorrowOfTwo(left, right, result) == (~left /\ right) \/ (right /\ result)

\* (~left & right) | (right & result) | (result & ~left), for one bit.
Borrow(left, right, result) ==
  (~left /\ right) \/ (right /\ result) \/ (result /\ ~left)

SubFlags(left, right, result) ==
  FlagIf("C", Borrow(Bit7(left), Bit7(right), Bit7(result)))
    \cup FlagIf("H", Borrow(Bit3(left), Bit3(right), Bit3(result)))
    \cup SignFlags(result,
           \/ Bit7(left) /\ ~Bit7(right) /\ ~Bit7(result)
           \/ ~Bit7(left) /\ Bit7(right) /\ Bit7(result))

\* Mutant of IncFlags: overflow tested on the operand's limit.
IncFlagsEarly(result) == SignFlags(result, result = 127)

IncFlags(result) == SignFlags(result, result = 128)
DecFlags(result) == SignFlags(result, result = 127)
LogicalFlags(result) == SignFlags(result, FALSE)

\* The flags an operation leaves alone: I and T always, and H and C as well
\* when the instruction does not compute them.
KeepSystem(sreg) == sreg \cap {"I", "T"}

\* Mutant of KeepCarries: the mask of the instructions that compute H and C.
KeepSystemOnly(sreg) == KeepSystem(sreg)

KeepCarries(sreg) == sreg \cap {"I", "T", "H", "C"}

\* The register-to-register logic on bytes.
Logic(op, left, right) ==
  LET l == BitsOf(left)
      r == BitsOf(right)
  IN  ByteOf(CASE op = "AND" -> l \cap r
               [] op = "OR"  -> l \cup r
               [] op = "EOR" -> (l \ r) \cup (r \ l))
=============================================================================
