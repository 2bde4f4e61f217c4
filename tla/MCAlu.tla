------------------------------- MODULE MCAlu -------------------------------
(***************************************************************************)
(* The flag functions over every pair of bytes, against what the flags     *)
(* mean: carries as unsigned comparisons, overflow and sign as statements  *)
(* about signed arithmetic.                                                *)
(***************************************************************************)
EXTENDS AvrAlu

VARIABLES left, right

vars == <<left, right>>

Init == left = 0 /\ right = 0

NextRight == right < 255 /\ right' = right + 1 /\ UNCHANGED left
NextLeft  == right = 255 /\ left < 255 /\ right' = 0 /\ left' = left + 1

Next == NextRight \/ NextLeft

Spec == Init /\ [][Next]_vars

TypeOK == left \in Byte /\ right \in Byte
-----------------------------------------------------------------------------
\* A byte read as a two's complement number.
Signed(v) == IF v >= 128 THEN v - 256 ELSE v

OutOfRange(n) == n < -128 \/ n > 127

\* ADD (arithmetic_flags_add): C and H are the carries out of bit 7 and bit 3,
\* V says the signed sum does not fit, and S is the sign of the exact sum.
AddFlagsMean(l, r) ==
  LET f == AddFlags(l, r, ToByte(l + r))
  IN  /\ "C" \in f <=> l + r > 255
      /\ "H" \in f <=> (l % 16) + (r % 16) > 15
      /\ "V" \in f <=> OutOfRange(Signed(l) + Signed(r))
      /\ "N" \in f <=> Signed(ToByte(l + r)) < 0
      /\ "S" \in f <=> Signed(l) + Signed(r) < 0
      /\ "Z" \in f <=> l + r \in {0, 256}

\* SUB, CP, CPI (arithmetic_flags_sub): C is unsigned less-than, S is signed
\* less-than, Z is equality, H is the borrow of the low nibble.
SubFlagsMean(l, r) ==
  LET f == SubFlags(l, r, ToByte(l - r))
  IN  /\ "C" \in f <=> l < r
      /\ "H" \in f <=> l % 16 < r % 16
      /\ "V" \in f <=> OutOfRange(Signed(l) - Signed(r))
      /\ "N" \in f <=> Signed(ToByte(l - r)) < 0
      /\ "S" \in f <=> Signed(l) < Signed(r)
      /\ "Z" \in f <=> l = r

\* INC and DEC agree with adding or subtracting one on every flag they write.
StepFlagsMean(l) ==
  /\ IncFlags(ToByte(l + 1)) = AddFlags(l, 1, ToByte(l + 1)) \ {"C", "H"}
  /\ DecFlags(ToByte(l - 1)) = SubFlags(l, 1, ToByte(l - 1)) \ {"C", "H"}

AddFlagsCorrect  == AddFlagsMean(left, right)
SubFlagsCorrect  == SubFlagsMean(left, right)
StepFlagsCorrect == StepFlagsMean(left)
=============================================================================
