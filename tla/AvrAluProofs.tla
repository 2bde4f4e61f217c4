---------------------------- MODULE AvrAluProofs ----------------------------
(***************************************************************************)
(* The flag functions and the byte logic are right for all pairs of bytes. *)
(* The lemmas split the set-valued part (which flag is in which union)     *)
(* from the arithmetic (what the top bit and the nibbles of a sum or       *)
(* difference are), as the SMT solver decides each quickly but not both at *)
(* once.                                                                   *)
(***************************************************************************)
EXTENDS MCAlu, AvrInstructionProofs

\* Bit 7 is set in the upper half of the bytes; bit 3 in the upper half of the
\* nibble's values.
LEMMA Bit7Upper ==
  ASSUME NEW v \in Byte
  PROVE  Bit7(v) <=> v >= 128
BY DEF Bit7, Byte

LEMMA Bit3Upper ==
  ASSUME NEW v \in Byte
  PROVE  Bit3(v) <=> v % 16 >= 8
BY DEF Bit3, Byte

\* Reduction modulo 256, given the quotient.
LEMMA ModByQuotient ==
  ASSUME NEW n \in Int, NEW q \in Int, 256 * q <= n, n < 256 * q + 256
  PROVE  n % 256 = n - 256 * q
OBVIOUS

LEMMA ByteWraps ==
  ASSUME NEW l \in Byte, NEW r \in Byte
  PROVE  /\ ToByte(l + r) = IF l + r > 255 THEN l + r - 256 ELSE l + r
         /\ ToByte(l - r) = IF l < r THEN l - r + 256 ELSE l - r
         /\ ToByte(l + r) \in Byte
         /\ ToByte(l - r) \in Byte
<1>1. l \in 0..255 /\ r \in 0..255
  BY DEF Byte
<1>2. ToByte(l + r) = IF l + r > 255 THEN l + r - 256 ELSE l + r
  <2>1. CASE l + r > 255
    <3>1. (l + r) % 256 = l + r - 256 * 1
      BY <1>1, <2>1, ModByQuotient
    <3>. QED BY <1>1, <2>1, <3>1 DEF ToByte
  <2>2. CASE ~(l + r > 255)
    <3>1. (l + r) % 256 = l + r - 256 * 0
      BY <1>1, <2>2, ModByQuotient
    <3>. QED BY <1>1, <2>2, <3>1 DEF ToByte
  <2>. QED BY <2>1, <2>2
<1>3. ToByte(l - r) = IF l < r THEN l - r + 256 ELSE l - r
  <2>1. CASE l < r
    <3>1. (l - r) % 256 = l - r - 256 * (-1)
      BY <1>1, <2>1, ModByQuotient
    <3>. QED BY <1>1, <2>1, <3>1 DEF ToByte
  <2>2. CASE ~(l < r)
    <3>1. (l - r) % 256 = l - r - 256 * 0
      BY <1>1, <2>2, ModByQuotient
    <3>. QED BY <1>1, <2>2, <3>1 DEF ToByte
  <2>. QED BY <2>1, <2>2
<1>4. (l + r) % 256 \in 0..255 /\ (l - r) % 256 \in 0..255
  BY <1>1
<1>5. ToByte(l + r) \in Byte /\ ToByte(l - r) \in Byte
  BY <1>4, Zenon DEF ToByte, Byte
<1>. QED BY <1>2, <1>3, <1>5, Zenon

(***************************************************************************)
(* What the flags mean.                                                    *)
(***************************************************************************)
\* ADD: for all bytes the six flags mean what AddFlagsMean says.
THEOREM AddFlagsTheorem ==
  ASSUME NEW l \in Byte, NEW r \in Byte
  PROVE  AddFlagsMean(l, r)
<1> DEFINE sum == ToByte(l + r)
           f == AddFlags(l, r, sum)
           c == ((l + r) \div 256) % 2 = 1
           h == (((l % 16) + (r % 16)) \div 16) % 2 = 1
           v == (Bit7(l) <=> Bit7(r)) /\ ~(Bit7(l) <=> Bit7(sum))
           n == Bit7(sum)
           z == sum = 0
<1>1. sum \in Byte /\ sum = IF l + r > 255 THEN l + r - 256 ELSE l + r
  BY ByteWraps
<1>2. /\ Bit7(l) <=> l >= 128
      /\ Bit7(r) <=> r >= 128
      /\ Bit7(sum) <=> sum >= 128
  BY <1>1, Bit7Upper DEF Bit7
<1>3. l \in 0..255 /\ r \in 0..255 /\ sum \in 0..255
  BY <1>1 DEF Byte
<1>4. f = FlagIf("C", c) \cup FlagIf("H", h)
            \cup (FlagIf("V", v) \cup FlagIf("N", n) \cup FlagIf("Z", z)
                   \cup FlagIf("S", ~(n <=> v)))
  BY Zenon DEF AddFlags, SignFlags
<1>5. /\ c <=> l + r > 255
      /\ h <=> (l % 16) + (r % 16) > 15
  BY <1>3
<1> HIDE DEF sum
<1>6. /\ ((l >= 128 <=> r >= 128) /\ ~(l >= 128 <=> sum >= 128))
           <=> OutOfRange(Signed(l) + Signed(r))
      /\ sum >= 128 <=> Signed(sum) < 0
      /\ z <=> l + r \in {0, 256}
      /\ ~(sum >= 128 <=> OutOfRange(Signed(l) + Signed(r))) <=> Signed(l) + Signed(r) < 0
  BY <1>1, <1>3, SMT DEF Signed, OutOfRange
<1>7. c \in BOOLEAN /\ h \in BOOLEAN /\ v \in BOOLEAN /\ n \in BOOLEAN /\ z \in BOOLEAN
  BY DEF Bit7
<1> HIDE DEF f, c, h, v, n, z
<1>8. /\ v <=> OutOfRange(Signed(l) + Signed(r))
      /\ n <=> Signed(sum) < 0
      /\ ~(n <=> v) <=> Signed(l) + Signed(r) < 0
      /\ z <=> l + r \in {0, 256}
  BY <1>2, <1>6, <1>7, ZenonT(60) DEF v, n
<1>9. /\ "C" \in f <=> c
      /\ "H" \in f <=> h
      /\ "V" \in f <=> v
      /\ "N" \in f <=> n
      /\ "S" \in f <=> ~(n <=> v)
      /\ "Z" \in f <=> z
  BY <1>4, <1>7 DEF FlagIf
<1>10. /\ "C" \in f <=> l + r > 255
       /\ "H" \in f <=> (l % 16) + (r % 16) > 15
  BY <1>5, <1>9, Zenon
<1>11. /\ "V" \in f <=> OutOfRange(Signed(l) + Signed(r))
       /\ "N" \in f <=> Signed(sum) < 0
       /\ "S" \in f <=> Signed(l) + Signed(r) < 0
  BY <1>8, <1>9, Zenon
<1>12. "Z" \in f <=> l + r \in {0, 256}
  BY <1>8, <1>9
<1>. QED
  BY <1>10, <1>11, <1>12, Zenon DEF AddFlagsMean, f, sum

\* SUB, CP and CPI: likewise.
THEOREM SubFlagsTheorem ==
  ASSUME NEW l \in Byte, NEW r \in Byte
  PROVE  SubFlagsMean(l, r)
<1> DEFINE difference == ToByte(l - r)
           f == SubFlags(l, r, difference)
           c == Borrow(Bit7(l), Bit7(r), Bit7(difference))
           h == Borrow(Bit3(l), Bit3(r), Bit3(difference))
           v == \/ Bit7(l) /\ ~Bit7(r) /\ ~Bit7(difference)
                \/ ~Bit7(l) /\ Bit7(r) /\ Bit7(difference)
           n == Bit7(difference)
           z == difference = 0
<1>1. difference \in Byte /\ difference = IF l < r THEN l - r + 256 ELSE l - r
  BY ByteWraps
<1>2. /\ Bit7(l) <=> l >= 128
      /\ Bit7(r) <=> r >= 128
      /\ Bit7(difference) <=> difference >= 128
  BY <1>1, Bit7Upper DEF Bit7
<1>3. l \in 0..255 /\ r \in 0..255 /\ difference \in 0..255
  BY <1>1 DEF Byte
<1>4. f = FlagIf("C", c) \cup FlagIf("H", h)
            \cup (FlagIf("V", v) \cup FlagIf("N", n) \cup FlagIf("Z", z)
                   \cup FlagIf("S", ~(n <=> v)))
  BY Zenon DEF SubFlags, SignFlags
<1>5. h <=> l % 16 < r % 16
  <2>1. /\ Bit3(l) <=> l % 16 >= 8
        /\ Bit3(r) <=> r % 16 >= 8
        /\ Bit3(difference) <=> difference % 16 >= 8
    BY <1>1, Bit3Upper DEF Bit3
  <2>2. difference % 16 = IF l % 16 < r % 16 THEN (l % 16) - (r % 16) + 16
                                             ELSE (l % 16) - (r % 16)
    BY <1>1, <1>3
  <2>3. l % 16 \in 0..15 /\ r % 16 \in 0..15 /\ difference % 16 \in 0..15
    BY <1>3
  <2>4. Borrow(l % 16 >= 8, r % 16 >= 8, difference % 16 >= 8) <=> l % 16 < r % 16
    BY <2>2, <2>3, SMT DEF Borrow
  <2>. QED BY <2>1, <2>4, Zenon DEF Borrow
<1> HIDE DEF difference
<1>6. /\ Borrow(l >= 128, r >= 128, difference >= 128) <=> l < r
      /\ (\/ l >= 128 /\ ~(r >= 128) /\ ~(difference >= 128)
          \/ ~(l >= 128) /\ r >= 128 /\ difference >= 128)
           <=> OutOfRange(Signed(l) - Signed(r))
      /\ difference >= 128 <=> Signed(difference) < 0
      /\ z <=> l = r
      /\ ~(difference >= 128 <=> OutOfRange(Signed(l) - Signed(r))) <=> Signed(l) < Signed(r)
  BY <1>1, <1>3, SMT DEF Signed, OutOfRange, Borrow
<1>7. c \in BOOLEAN /\ h \in BOOLEAN /\ v \in BOOLEAN /\ n \in BOOLEAN /\ z \in BOOLEAN
  BY DEF Bit7, Borrow
<1> HIDE DEF f, c, h, v, n, z
<1>8. /\ c <=> l < r
      /\ v <=> OutOfRange(Signed(l) - Signed(r))
      /\ n <=> Signed(difference) < 0
      /\ ~(n <=> v) <=> Signed(l) < Signed(r)
      /\ z <=> l = r
  BY <1>2, <1>6, <1>7, ZenonT(60) DEF v, n, c, Borrow
<1>9. /\ "C" \in f <=> c
      /\ "H" \in f <=> h
      /\ "V" \in f <=> v
      /\ "N" \in f <=> n
      /\ "S" \in f <=> ~(n <=> v)
      /\ "Z" \in f <=> z
  BY <1>4, <1>7 DEF FlagIf
<1>10. /\ "C" \in f <=> l < r
       /\ "H" \in f <=> l % 16 < r % 16
       /\ "V" \in f <=> OutOfRange(Signed(l) - Signed(r))
       /\ "N" \in f <=> Signed(difference) < 0
       /\ "S" \in f <=> Signed(l) < Signed(r)
       /\ "Z" \in f <=> l = r
  BY <1>5, <1>8, <1>9, Zenon
<1>. QED
  BY <1>10, Zenon DEF SubFlagsMean, f, difference

\* INC and DEC agree with ADD 1 and SUB 1 on all the flags they write.
THEOREM StepFlagsTheorem ==
  ASSUME NEW l \in Byte
  PROVE  StepFlagsMean(l)
<1> DEFINE up == ToByte(l + 1)
           down == ToByte(l - 1)
<1>0. 1 \in Byte
  BY DEF Byte
<1>1. /\ up \in Byte /\ up = IF l + 1 > 255 THEN l + 1 - 256 ELSE l + 1
      /\ down \in Byte /\ down = IF l < 1 THEN l - 1 + 256 ELSE l - 1
  BY <1>0, ByteWraps
<1>2. l \in 0..255 /\ up \in 0..255 /\ down \in 0..255
  BY <1>1 DEF Byte
<1>3. /\ Bit7(l) <=> l >= 128
      /\ Bit7(up) <=> up >= 128
      /\ Bit7(down) <=> down >= 128
      /\ ~Bit7(1)
  BY <1>1, <1>2, Bit7Upper DEF Bit7
<1> HIDE DEF up, down
<1>4. ((Bit7(l) <=> Bit7(1)) /\ ~(Bit7(l) <=> Bit7(up))) <=> up = 128
  <2>1. (~(l >= 128) /\ up >= 128) <=> up = 128
    BY <1>1, <1>2
  <2>. QED BY <1>3, <2>1, Zenon
<1>5. (\/ Bit7(l) /\ ~Bit7(1) /\ ~Bit7(down)
       \/ ~Bit7(l) /\ Bit7(1) /\ Bit7(down)) <=> down = 127
  <2>1. (l >= 128 /\ ~(down >= 128)) <=> down = 127
    BY <1>1, <1>2
  <2>. QED BY <1>3, <2>1, Zenon
<1>6. AddFlags(l, 1, up) \ {"C", "H"} = IncFlags(up)
  BY <1>4 DEF AddFlags, IncFlags, SignFlags, FlagIf
<1>7. SubFlags(l, 1, down) \ {"C", "H"} = DecFlags(down)
  BY <1>5 DEF SubFlags, DecFlags, SignFlags, FlagIf
<1>. QED BY <1>6, <1>7, Zenon DEF StepFlagsMean, up, down

(***************************************************************************)
(* The sweep of MCAlu, as theorems of its specification.                   *)
(***************************************************************************)
LEMMA SweepTypeOK == Spec => []TypeOK
<1>1. Init => TypeOK
  BY DEF Init, TypeOK, Byte
<1>2. TypeOK /\ [Next]_vars => TypeOK'
  BY DEF TypeOK, Next, NextLeft, NextRight, vars, Byte
<1>. QED BY <1>1, <1>2, PTL DEF Spec

\* Every flag ADD writes is right in every state of the sweep.
THEOREM AddFlagsAlwaysCorrect == Spec => []AddFlagsCorrect
<1>1. TypeOK => AddFlagsCorrect
  BY AddFlagsTheorem DEF TypeOK, AddFlagsCorrect
<1>. QED BY <1>1, SweepTypeOK, PTL

\* Every flag SUB, CP and CPI write is right in every state of the sweep.
THEOREM SubFlagsAlwaysCorrect == Spec => []SubFlagsCorrect
<1>1. TypeOK => SubFlagsCorrect
  BY SubFlagsTheorem DEF TypeOK, SubFlagsCorrect
<1>. QED BY <1>1, SweepTypeOK, PTL

\* INC and DEC write the flags of adding and subtracting one.
THEOREM StepFlagsAlwaysCorrect == Spec => []StepFlagsCorrect
<1>1. TypeOK => StepFlagsCorrect
  BY StepFlagsTheorem DEF TypeOK, StepFlagsCorrect
<1>. QED BY <1>1, SweepTypeOK, PTL
=============================================================================
