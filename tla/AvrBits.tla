------------------------------ MODULE AvrBits ------------------------------
(***************************************************************************)
(* The fixed-width data of the emulator: bytes, 16-bit words, and bytes    *)
(* seen as sets of bits.  The bitwise operators of C on uint8_t become     *)
(* union, intersection and difference of bit sets; the GPIO ports, which   *)
(* the program only ever treats bit by bit, are kept as bit sets.          *)
(***************************************************************************)
EXTENDS Integers

Byte == 0..255
MaxWord == 65535
Word == 0..MaxWord
MaxInt16 == 32767
Int16 == (-MaxInt16 - 1)..MaxInt16
Bit == 0..7

\* The value of one bit of a byte or word: (v >> i) & 1, for i in 0..7.
IsSet(v, i) == (v \div 2^i) % 2 = 1

\* The bits set in byte v, and the byte in which exactly the bits in S are set.
BitsOf(v) == {i \in Bit : IsSet(v, i)}

BitValue(S, i, weight) == IF i \in S THEN weight ELSE 0
ByteOf(S) ==
  BitValue(S, 0, 1) + BitValue(S, 1, 2) + BitValue(S, 2, 4) + BitValue(S, 3, 8)
  + BitValue(S, 4, 16) + BitValue(S, 5, 32) + BitValue(S, 6, 64)
  + BitValue(S, 7, 128)

\* Unsigned wrap-around of C's conversions to uint8_t and uint16_t.
ToByte(n) == n % 256
ToWord(n) == n % 65536

\* A 16-bit word from its bytes, and back.
WordOf(high, low) == high * 256 + low
HighByte(w) == w \div 256
LowByte(w) == w % 256
=============================================================================
