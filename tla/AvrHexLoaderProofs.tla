------------------------- MODULE AvrHexLoaderProofs -------------------------
(***************************************************************************)
(* The Intel HEX loader stays inside the text and inside the flash image,  *)
(* whatever the text; it loads exactly the complete images, and any other  *)
(* text never changes the flash.  An image of which one token is wrong,    *)
(* lost or one too many, or the end is cut off, is not taken for another.  *)
(***************************************************************************)
EXTENDS AvrHexLoader, FiniteSetTheorems, WellFoundedInduction, TLAPS

\* Bytes and words: the facts of AvrInstructionProofs that are needed here.
LEMMA ByteBounds ==
  ASSUME NEW b \in Byte
  PROVE  b \in Int /\ 0 <= b /\ b <= 255
BY DEF Byte

LEMMA WordBounds ==
  ASSUME NEW w \in Word
  PROVE  w \in Int /\ 0 <= w /\ w <= 65535
<1>1. MaxWord = 65535
  BY DEF MaxWord
<1>2. MaxWord \in Int
  BY <1>1
<1>3. w \in Int /\ 0 <= w /\ w <= MaxWord
  BY <1>2 DEF Word
<1>. QED BY <1>1, <1>3

LEMMA InByte ==
  ASSUME NEW b \in Int, 0 <= b, b <= 255
  PROVE  b \in Byte
BY DEF Byte

LEMMA ToWordType ==
  ASSUME NEW n \in Int
  PROVE  ToWord(n) \in Word
<1>1. ToWord(n) \in Int /\ 0 <= ToWord(n) /\ ToWord(n) <= 65535
  BY DEF ToWord
<1>2. MaxWord = 65535
  BY DEF MaxWord
<1>3. MaxWord \in Int /\ ToWord(n) <= MaxWord
  BY <1>1, <1>2
<1>4. ToWord(n) \in 0..MaxWord
  BY <1>1, <1>3
<1>. QED BY <1>4 DEF Word

LEMMA InWord ==
  ASSUME NEW w \in Int, 0 <= w, w <= 65535
  PROVE  w \in Word
<1>1. ToWord(w) = w
  BY DEF ToWord
<1>. QED BY <1>1, ToWordType

LEMMA ToByteType ==
  ASSUME NEW n \in Int
  PROVE  ToByte(n) \in Byte
BY DEF ToByte, Byte

LEMMA HighByteType ==
  ASSUME NEW w \in Word
  PROVE  HighByte(w) \in Byte
<1>1. w \in Int /\ 0 <= w /\ w <= 65535
  BY WordBounds
<1>2. HighByte(w) \in Int /\ 0 <= HighByte(w) /\ HighByte(w) <= 255
  BY <1>1 DEF HighByte
<1>. QED BY <1>2, InByte

LEMMA LowByteType ==
  ASSUME NEW w \in Word
  PROVE  LowByte(w) \in Byte
<1>1. w \in Int
  BY WordBounds
<1>. QED BY <1>1, ToByteType DEF LowByte, ToByte

LEMMA WordOfType ==
  ASSUME NEW high \in Byte, NEW low \in Byte
  PROVE  WordOf(high, low) \in Word
<1>1. /\ high \in Int /\ 0 <= high /\ high <= 255
      /\ low \in Int /\ 0 <= low /\ low <= 255
  BY ByteBounds
<1>2. /\ WordOf(high, low) \in Int
      /\ 0 <= WordOf(high, low)
      /\ WordOf(high, low) <= 65535
  BY <1>1 DEF WordOf
<1>. QED BY <1>2, InWord

\* What a token at the cursor is, when it is a byte: a token of the text.
LEMMA HereInText ==
  ASSUME TypeOK, NEW k \in Nat, Here(k) \in Byte
  PROVE  cursor + k <= Len(text)
<1>1. ~(End \in Byte)
  BY DEF End, Byte
<1>. QED BY <1>1 DEF Here

\* A complete record lies inside the text, with its checksum as its last byte.
LEMMA RecordInText ==
  ASSUME TypeOK, IsComplete
  PROVE  /\ byte_count \in Byte /\ byte_count \in Nat
         /\ address \in Word /\ address \in Nat
         /\ RecordLength \in Nat
         /\ cursor + RecordLength <= Len(text)
         /\ \A k \in 5..RecordLength : Here(k) \in Byte
<1>1. Here(1) \in Byte /\ Here(2) \in Byte /\ Here(3) \in Byte
  BY DEF IsComplete, HasHeader
<1>2. byte_count \in Byte /\ byte_count \in Nat
  BY <1>1, ByteBounds DEF byte_count
<1>3. address \in Word /\ address \in Nat
  BY <1>1, WordOfType, WordBounds DEF address
<1>4. RecordLength \in Nat /\ RecordLength >= 5
  BY <1>2 DEF RecordLength
<1>5. Here(RecordLength) \in Byte
  BY <1>4 DEF IsComplete
<1>6. cursor + RecordLength <= Len(text)
  BY <1>4, <1>5, HereInText
<1>. QED BY <1>2, <1>3, <1>4, <1>6 DEF IsComplete

\* Past a complete record the cursor is at most at the NUL.
LEMMA CursorInText ==
  ASSUME TypeOK, IsComplete
  PROVE  cursor + RecordLength + 1 \in 1..(Len(text) + 1)
BY RecordInText DEF TypeOK

\* A byte of the record, or the one that was there.
LEMMA ByteAtType ==
  ASSUME TypeOK, IsComplete, NEW p \in Int, NEW old \in Byte
  PROVE  ByteAt(p, old) \in Byte
<1>1. CASE p \in Covered
  <2>1. 5 + p - address \in 5..RecordLength
    BY <1>1, RecordInText DEF Covered, RecordLength
  <2>. QED BY <1>1, <2>1, RecordInText DEF ByteAt
<1>. QED BY <1>1 DEF ByteAt

\* The bytes of a data record make words of the staged flash.
LEMMA StagedType ==
  ASSUME TypeOK, IsComplete
  PROVE  Staged \in [FlashAddress -> Word]
<1>1. ASSUME NEW a \in FlashAddress
      PROVE  WordOf(ByteAt(2 * a + 1, HighByte(staged[a])),
                    ByteAt(2 * a, LowByte(staged[a]))) \in Word
  <2>1. staged[a] \in Word
    BY DEF TypeOK
  <2>2. HighByte(staged[a]) \in Byte /\ LowByte(staged[a]) \in Byte
    BY <2>1, HighByteType, LowByteType
  <2>3. 2 * a \in Int /\ 2 * a + 1 \in Int
    BY HexAssumption DEF FlashAddress
  <2>. QED BY <2>2, <2>3, ByteAtType, WordOfType
<1>. QED BY <1>1 DEF Staged

\* Type correctness: whatever the text, complete or not, no iteration leaves
\* the text, and every staged word is a word.
THEOREM HexTypeCorrect == Spec => []TypeOK
<1>1. Init => TypeOK
  <2>. SUFFICES ASSUME Init PROVE TypeOK
    OBVIOUS
  <2>1. flash \in [FlashAddress -> Word] /\ staged = flash
    BY InWord DEF Init
  <2>2. text \in Seq(Token) /\ cursor \in 1..(Len(text) + 1)
    BY DEF Init
  <2>. QED BY <2>1, <2>2 DEF Init, TypeOK
<1>2. TypeOK /\ [Next]_hexvars => TypeOK'
  <2>. SUFFICES ASSUME TypeOK, [Next]_hexvars PROVE TypeOK'
    OBVIOUS
  <2>1. ASSUME NEW hex_text \in Texts, Begin(hex_text)
        PROVE  TypeOK'
    <3>1. hex_text \in Seq(Token) /\ 1 \in 1..(Len(hex_text) + 1)
      BY HexAssumption
    <3>. QED BY <2>1, <3>1 DEF Begin, TypeOK
  <2>2. CASE SkipBlank
    <3>1. ~(End = Blank)
      BY DEF End, Blank
    <3>2. cursor + 0 <= Len(text)
      BY <2>2, <3>1 DEF SkipBlank, Here
    <3>. QED BY <2>2, <3>2 DEF SkipBlank, TypeOK
  <2>3. CASE DataRecord
    <3>1. IsComplete
      BY <2>3 DEF DataRecord, IsRecord
    <3>. QED BY <2>3, <3>1, CursorInText, StagedType DEF DataRecord, TypeOK
  <2>4. CASE EofRecord
    <3>1. IsComplete
      BY <2>4 DEF EofRecord, IsRecord
    <3>. QED BY <2>4, <3>1, CursorInText DEF EofRecord, TypeOK
  <2>5. CASE Accept
    BY <2>5 DEF Accept, TypeOK
  <2>6. CASE Reject
    BY <2>6 DEF Reject, TypeOK
  <2>7. CASE UNCHANGED hexvars
    BY <2>7 DEF hexvars, TypeOK
  <2>. QED BY <2>1, <2>2, <2>3, <2>4, <2>5, <2>6, <2>7 DEF Next, Parse
<1>. QED BY <1>1, <1>2, PTL DEF Spec
-----------------------------------------------------------------------------
\* The flash is written once per call, when the whole text has been accepted.
THEOREM FlashOnlyOnAccept == Spec => FlashChangesOnlyOnAccept
<1>1. [Next]_hexvars => [flash' # flash => status' = "loaded"]_hexvars
  BY DEF Next, Parse, Begin, SkipBlank, DataRecord, EofRecord, Accept, Reject
<1>. QED BY <1>1, PTL DEF Spec, FlashChangesOnlyOnAccept
-----------------------------------------------------------------------------
(***************************************************************************)
(* What a data record does to the image.                                   *)
(***************************************************************************)
LEMMA BytesOfWord ==
  ASSUME NEW high \in Byte, NEW low \in Byte
  PROVE  HighByte(WordOf(high, low)) = high /\ LowByte(WordOf(high, low)) = low
<1>1. high \in 0..255 /\ low \in 0..255
  BY DEF Byte
<1>. QED BY <1>1 DEF HighByte, LowByte, WordOf

\* A data record puts each of its bytes at its address, two to a word with the
\* low byte first, and leaves all other bytes of the image as they were, those
\* that share a word with the record's first or last byte included
\* (avr_mcu.c:338-358).
THEOREM RecordLands ==
  ASSUME TypeOK, IsComplete, NEW p \in 0..(2 * FlashSize - 1)
  PROVE  ByteIn(Staged, p) = IF p \in Covered THEN Here(5 + p - address)
                                              ELSE ByteIn(staged, p)
<1>. DEFINE a == p \div 2
<1>1. a \in FlashAddress /\ p \in Int
  BY HexAssumption DEF FlashAddress
<1>2. \/ p % 2 = 0 /\ p = 2 * a
      \/ p % 2 # 0 /\ p = 2 * a + 1
  OBVIOUS
<1>3. 2 * a \in Int /\ 2 * a + 1 \in Int
  OBVIOUS
<1>. HIDE DEF a
<1>4. HighByte(staged[a]) \in Byte /\ LowByte(staged[a]) \in Byte
  BY <1>1, HighByteType, LowByteType DEF TypeOK
<1>. DEFINE high == ByteAt(2 * a + 1, HighByte(staged[a]))
            low == ByteAt(2 * a, LowByte(staged[a]))
<1>5. high \in Byte /\ low \in Byte
  BY <1>3, <1>4, ByteAtType
<1>6. Staged[a] = WordOf(high, low)
  BY <1>1 DEF Staged
<1>. HIDE DEF high, low
<1>7. HighByte(Staged[a]) = high /\ LowByte(Staged[a]) = low
  BY <1>5, <1>6, BytesOfWord
<1>8. CASE p % 2 = 0 /\ p = 2 * a
  <2>1. ByteIn(Staged, p) = low /\ ByteIn(staged, p) = LowByte(staged[a])
    BY <1>7, <1>8 DEF ByteIn, a
  <2>. QED BY <1>8, <2>1 DEF low, ByteAt
<1>9. CASE p % 2 # 0 /\ p = 2 * a + 1
  <2>1. ByteIn(Staged, p) = high /\ ByteIn(staged, p) = HighByte(staged[a])
    BY <1>7, <1>9 DEF ByteIn, a
  <2>. QED BY <1>9, <2>1 DEF high, ByteAt
<1>. QED BY <1>2, <1>8, <1>9

-----------------------------------------------------------------------------
(***************************************************************************)
(* The whole loop: what it has made of the text so far, and what becomes   *)
(* of the call.                                                            *)
(***************************************************************************)
\* The records before position c, and what holds of them between two iterations of
\* the loop, with the cursor at c: they are well formed and end before c, nothing
\* but blanks is between them, the last is the end-of-file record if one was seen
\* and all others are data in flash, and the staged flash is written as they say.
Before(c) == {k \in Starts : k < c}
EndIsLast(records) ==
  \E last \in records : /\ TypeAt(last) = EOF
                        /\ \A k \in records \ {last} : k < last /\ DataInFlash(k)
WellFormedBefore(c) == \A k \in Before(c) : WellFormed(k) /\ ChecksumAt(k) < c
NothingBetween(c) ==
  \A n \in 1..(c - 1) : text[n] = Blank \/ \E k \in Before(c) : n \in k..ChecksumAt(k)
EndsBefore(c, seen) == IF seen THEN EndIsLast(Before(c)) ELSE \A k \in Before(c) : DataInFlash(k)
Parsed(c, seen, image) ==
  /\ WellFormedBefore(c)
  /\ NothingBetween(c)
  /\ EndsBefore(c, seen)
  /\ Written(image, flash, Before(c))
ParseInv == TypeOK /\ (status = "parsing" => Parsed(cursor, eof_seen, staged))

LEMMA CursorBounds ==
  ASSUME TypeOK
  PROVE  /\ Len(text) \in Nat /\ cursor \in Nat /\ 1 <= cursor /\ cursor <= Len(text) + 1
         /\ DOMAIN text = 1..Len(text)
         /\ \A n \in 1..Len(text) : text[n] \in Token
BY DEF TypeOK

LEMMA NotBytes ==
  /\ Colon \notin Byte /\ Blank \notin Byte /\ End \notin Byte /\ End \notin Token
  /\ Colon # Blank /\ Colon # End /\ Blank # End
BY DEF Colon, Blank, Junk, End, Byte, Token

\* A position of the text seen from the cursor.
LEMMA HereIs ==
  ASSUME TypeOK, NEW k \in Nat
  PROVE  /\ Here(k) \in Byte <=> (cursor + k \in DOMAIN text /\ text[cursor + k] \in Byte)
         /\ cursor + k \in DOMAIN text => Here(k) = text[cursor + k]
<1>1. CASE cursor + k <= Len(text)
  <2>1. cursor + k \in DOMAIN text
    BY <1>1, CursorBounds
  <2>. QED BY <1>1, <2>1 DEF Here
<1>2. CASE ~(cursor + k <= Len(text))
  <2>1. cursor + k \notin DOMAIN text
    BY <1>2, CursorBounds
  <2>. QED BY <1>2, <2>1, NotBytes DEF Here
<1>3. cursor + k \in Int /\ Len(text) \in Int
  BY CursorBounds
<1>. QED BY <1>1, <1>2

\* The header at the cursor is that of the record at this place of the text.
LEMMA HeaderHere ==
  ASSUME TypeOK, HasHeader
  PROVE  /\ CountAt(cursor) = byte_count /\ AddressAt(cursor) = address
         /\ TypeAt(cursor) = record_type /\ ChecksumAt(cursor) = cursor + RecordLength
         /\ byte_count \in Nat /\ address \in Nat /\ record_type \in Nat
<1>1. Here(1) \in Byte /\ Here(2) \in Byte /\ Here(3) \in Byte /\ Here(4) \in Byte
  BY DEF HasHeader
<1>2. /\ Here(1) = text[cursor + 1] /\ Here(2) = text[cursor + 2]
      /\ Here(3) = text[cursor + 3] /\ Here(4) = text[cursor + 4]
  BY <1>1, HereIs
<1>3. address \in Nat
  BY <1>1, WordOfType, WordBounds DEF address
<1>4. byte_count \in Nat /\ record_type \in Nat
  BY <1>1, ByteBounds DEF byte_count, record_type
<1>5. cursor \in Nat
  BY CursorBounds
<1>. QED BY <1>2, <1>3, <1>4, <1>5
     DEF CountAt, AddressAt, TypeAt, ChecksumAt, RecordLength, byte_count, address, record_type

\* What the code reads as a record is a well-formed record of the text.
LEMMA RecordIsWellFormed ==
  ASSUME TypeOK
  PROVE  WellFormed(cursor) <=> (IsComplete /\ ChecksumHolds)
<1>0. cursor \in Nat
  BY CursorBounds
<1>1. (\A n \in (cursor + 1)..(cursor + 4) : n \in DOMAIN text /\ text[n] \in Byte) <=> HasHeader
  <2>1. ASSUME \A n \in (cursor + 1)..(cursor + 4) : n \in DOMAIN text /\ text[n] \in Byte,
               NEW k \in 1..4
        PROVE  Here(k) \in Byte
    <3>1. cursor + k \in (cursor + 1)..(cursor + 4)
      BY <1>0
    <3>. QED BY <2>1, <3>1, HereIs
  <2>2. ASSUME HasHeader, NEW n \in (cursor + 1)..(cursor + 4)
        PROVE  n \in DOMAIN text /\ text[n] \in Byte
    <3>. DEFINE k == n - cursor
    <3>1. k \in 1..4 /\ k \in Nat /\ n = cursor + k
      BY <1>0
    <3>. HIDE DEF k
    <3>2. Here(k) \in Byte
      BY <2>2, <3>1 DEF HasHeader
    <3>. QED BY <3>1, <3>2, HereIs
  <2>. QED BY <2>1, <2>2 DEF HasHeader
<1>2. CASE ~HasHeader
  BY <1>1, <1>2 DEF WellFormed, IsComplete
<1>3. CASE HasHeader
  <2>1. /\ CountAt(cursor) = byte_count /\ ChecksumAt(cursor) = cursor + RecordLength
        /\ byte_count \in Nat /\ RecordLength \in Nat /\ RecordLength = 5 + byte_count
    BY <1>3, HeaderHere DEF RecordLength
  <2>2. ASSUME \A n \in (cursor + 5)..ChecksumAt(cursor) : n \in DOMAIN text /\ text[n] \in Byte,
               NEW k \in 5..RecordLength
        PROVE  Here(k) \in Byte
    <3>1. cursor + k \in (cursor + 5)..ChecksumAt(cursor) /\ k \in Nat
      BY <1>0, <2>1
    <3>. QED BY <2>2, <3>1, HereIs
  <2>3. ASSUME IsComplete, NEW n \in (cursor + 5)..ChecksumAt(cursor)
        PROVE  n \in DOMAIN text /\ text[n] \in Byte
    <3>. DEFINE k == n - cursor
    <3>1. k \in 5..RecordLength /\ k \in Nat /\ n = cursor + k
      BY <1>0, <2>1
    <3>. HIDE DEF k
    <3>2. Here(k) \in Byte
      BY <2>3, <3>1 DEF IsComplete
    <3>. QED BY <3>1, <3>2, HereIs
  <2>4. (\A n \in (cursor + 5)..ChecksumAt(cursor) : n \in DOMAIN text /\ text[n] \in Byte)
          <=> IsComplete
    BY <1>3, <2>2, <2>3 DEF IsComplete
  <2>5. ASSUME IsComplete
        PROVE  [n \in 1..(5 + CountAt(cursor)) |-> text[cursor + n]]
                 = [k \in 1..RecordLength |-> Here(k)]
    <3>1. ASSUME NEW k \in 1..RecordLength
          PROVE  Here(k) = text[cursor + k]
      <4>1. k \in Nat /\ (k \in 1..4 \/ k \in 5..RecordLength)
        BY <2>1
      <4>2. Here(k) \in Byte
        BY <1>3, <2>5, <4>1 DEF IsComplete, HasHeader
      <4>. QED BY <4>1, <4>2, HereIs
    <3>2. 5 + CountAt(cursor) = RecordLength
      BY <2>1
    <3>. QED BY <3>1, <3>2
  <2>6. CASE ~IsComplete
    BY <2>4, <2>6 DEF WellFormed
  <2>7. CASE IsComplete
    <3>. DEFINE bytes == [k \in 1..RecordLength |-> Here(k)]
                tokens == [n \in 1..(5 + CountAt(cursor)) |-> text[cursor + n]]
    <3>1. bytes = tokens
      BY <2>5, <2>7
    <3>2. ChecksumHolds <=> SumFunction(bytes) % 256 = 0
      BY DEF ChecksumHolds
    <3>3. WellFormed(cursor) <=> SumFunction(tokens) % 256 = 0
      BY <1>1, <1>3, <2>4, <2>7 DEF WellFormed
    <3>. HIDE DEF bytes, tokens
    <3>. QED BY <2>7, <3>1, <3>2, <3>3
  <2>. QED BY <2>6, <2>7
<1>. QED BY <1>2, <1>3

\* A colon at the cursor is where a record starts.
LEMMA ColonHere ==
  ASSUME TypeOK
  PROVE  /\ Here(0) = Colon <=> cursor \in Starts
         /\ Here(0) = End <=> cursor = Len(text) + 1
         /\ Here(0) # End => cursor \in DOMAIN text /\ Here(0) = text[cursor]
<1>1. Here(0) = IF cursor <= Len(text) THEN text[cursor] ELSE End
  <2>1. cursor + 0 = cursor
    BY CursorBounds
  <2>. QED BY <2>1 DEF Here
<1>2. cursor <= Len(text) => cursor \in DOMAIN text /\ text[cursor] \in Token
  BY CursorBounds
<1>3. cursor \in DOMAIN text => cursor <= Len(text)
  BY CursorBounds
<1>4. ~(cursor <= Len(text)) <=> cursor = Len(text) + 1
  BY CursorBounds
<1>. QED BY <1>1, <1>2, <1>3, <1>4, NotBytes DEF Starts

\* Data at the cursor, record by record and byte by byte.
LEMMA DataHere ==
  ASSUME TypeOK, HasHeader
  PROVE  /\ DataInFlash(cursor) <=> (record_type = DATA /\ FitsFlash)
         /\ \A p \in Int : Lands(cursor, p) <=> (record_type = DATA /\ p \in Covered)
<1>1. /\ CountAt(cursor) = byte_count /\ AddressAt(cursor) = address
      /\ TypeAt(cursor) = record_type /\ byte_count \in Nat /\ address \in Nat
  BY HeaderHere
<1>2. FlashSize \in Nat
  BY HexAssumption
<1>3. FitsFlash <=> (byte_count = 0 \/ address + byte_count <= 2 * FlashSize)
  <2>1. CASE byte_count = 0
    <3>1. Covered = {}
      BY <1>1, <2>1 DEF Covered
    <3>. QED BY <2>1, <3>1 DEF FitsFlash
  <2>2. CASE byte_count # 0
    <3>1. ASSUME FitsFlash PROVE address + byte_count <= 2 * FlashSize
      <4>1. address + byte_count - 1 \in Covered
        BY <1>1, <2>2 DEF Covered
      <4>2. address + byte_count - 1 \in 0..(2 * FlashSize - 1)
        BY <3>1, <4>1 DEF FitsFlash
      <4>. QED BY <1>1, <1>2, <4>2
    <3>2. ASSUME address + byte_count <= 2 * FlashSize, NEW p \in Covered
          PROVE  p \in 0..(2 * FlashSize - 1)
      BY <1>1, <1>2, <3>2 DEF Covered
    <3>. QED BY <2>2, <3>1, <3>2 DEF FitsFlash
  <2>. QED BY <2>1, <2>2
<1>4. ASSUME NEW p \in Int
      PROVE  p \in Covered <=> (address <= p /\ p < address + byte_count)
  BY <1>1 DEF Covered
<1>. QED BY <1>1, <1>3, <1>4 DEF DataInFlash, Lands

\* A blank is not a record.
LEMMA BlankParsed ==
  ASSUME TypeOK, Parsed(cursor, eof_seen, staged), Here(0) = Blank
  PROVE  Parsed(cursor + 1, eof_seen, staged)
<1>1. cursor \in DOMAIN text /\ text[cursor] = Blank /\ cursor \notin Starts /\ cursor \in Nat
  BY ColonHere, NotBytes, CursorBounds DEF Starts
<1>2. \A k \in Starts : k \in Nat
  BY CursorBounds DEF Starts
<1>3. Before(cursor + 1) = Before(cursor)
  BY <1>1, <1>2 DEF Before
<1>4. WellFormedBefore(cursor + 1)
  <2>. SUFFICES ASSUME NEW k \in Before(cursor)
                PROVE  WellFormed(k) /\ ChecksumAt(k) < cursor + 1
    BY <1>3 DEF WellFormedBefore
  <2>1. WellFormed(k) /\ ChecksumAt(k) < cursor
    BY DEF Parsed, WellFormedBefore
  <2>2. CountAt(k) \in Int /\ k \in Int
    <3>1. k + 1 \in (k + 1)..(k + 4) /\ k \in Int
      BY <1>2 DEF Before
    <3>2. text[k + 1] \in Byte
      BY <2>1, <3>1 DEF WellFormed
    <3>. QED BY <3>1, <3>2, ByteBounds DEF CountAt
  <2>. QED BY <1>1, <2>1, <2>2 DEF ChecksumAt
<1>5. NothingBetween(cursor + 1)
  <2>. SUFFICES ASSUME NEW n \in 1..cursor
                PROVE  text[n] = Blank \/ \E k \in Before(cursor) : n \in k..ChecksumAt(k)
    BY <1>1, <1>3 DEF NothingBetween
  <2>1. n = cursor \/ n \in 1..(cursor - 1)
    BY <1>1
  <2>. QED BY <1>1, <2>1 DEF Parsed, NothingBetween
<1>. QED BY <1>3, <1>4, <1>5 DEF Parsed, EndsBefore

\* The records before the end of the one at the cursor.
LEMMA OneMoreRecord ==
  ASSUME TypeOK, IsRecord
  PROVE  /\ cursor \in Starts /\ WellFormed(cursor) /\ ~eof_seen
         /\ HasHeader /\ RecordLength \in Nat
         /\ ChecksumAt(cursor) = cursor + RecordLength
         /\ Before(cursor + RecordLength + 1) = Before(cursor) \cup {cursor}
<1>1. IsComplete /\ ChecksumHolds /\ Here(0) = Colon /\ ~eof_seen /\ HasHeader
  BY DEF IsRecord, StartsRecord, IsComplete
<1>2. cursor \in Starts /\ WellFormed(cursor) /\ cursor \in Nat
  BY <1>1, ColonHere, RecordIsWellFormed, CursorBounds
<1>3. /\ ChecksumAt(cursor) = cursor + RecordLength
      /\ RecordLength \in Nat
  BY <1>1, HeaderHere DEF RecordLength
<1>4. \A k \in Starts : k \in Nat /\ text[k] = Colon
  BY CursorBounds DEF Starts
<1>5. ASSUME NEW n \in (cursor + 1)..(cursor + RecordLength)
      PROVE  n \notin Starts
  <2>1. n \in (cursor + 1)..(cursor + 4) \/ n \in (cursor + 5)..ChecksumAt(cursor)
    BY <1>2, <1>3
  <2>2. text[n] \in Byte
    BY <1>2, <2>1 DEF WellFormed
  <2>. QED BY <1>4, <2>2, NotBytes
<1>6. ASSUME NEW k \in Starts
      PROVE  k < cursor + RecordLength + 1 <=> (k < cursor \/ k = cursor)
  <2>1. k \in Nat /\ k \notin (cursor + 1)..(cursor + RecordLength)
    BY <1>4, <1>5
  <2>. QED BY <1>2, <1>3, <2>1
<1>7. Before(cursor + RecordLength + 1) = Before(cursor) \cup {cursor}
  BY <1>2, <1>6 DEF Before
<1>. QED BY <1>1, <1>2, <1>3, <1>7

\* The text up to the end of the record is well formed.
LEMMA RecordParsed ==
  ASSUME TypeOK, IsRecord, Parsed(cursor, eof_seen, staged)
  PROVE  /\ WellFormedBefore(cursor + RecordLength + 1)
         /\ NothingBetween(cursor + RecordLength + 1)
<1>. DEFINE c == cursor + RecordLength + 1
<1>1. /\ cursor \in Starts /\ WellFormed(cursor) /\ RecordLength \in Nat /\ cursor \in Nat
      /\ ChecksumAt(cursor) = cursor + RecordLength
      /\ Before(c) = Before(cursor) \cup {cursor}
  BY OneMoreRecord, CursorBounds
<1>2. \A k \in Starts : k \in Nat
  BY CursorBounds DEF Starts
<1>3. ASSUME NEW k \in Before(cursor)
      PROVE  WellFormed(k) /\ ChecksumAt(k) < cursor /\ ChecksumAt(k) \in Int
  <2>1. WellFormed(k) /\ ChecksumAt(k) < cursor
    BY DEF Parsed, WellFormedBefore
  <2>2. k + 1 \in (k + 1)..(k + 4) /\ k \in Int
    BY <1>2 DEF Before
  <2>3. text[k + 1] \in Byte
    BY <2>1, <2>2 DEF WellFormed
  <2>4. CountAt(k) \in Int
    BY <2>3, ByteBounds DEF CountAt
  <2>. QED BY <2>1, <2>2, <2>4 DEF ChecksumAt
<1>4. ASSUME NEW k \in Before(c)
      PROVE  WellFormed(k) /\ ChecksumAt(k) < c
  <2>1. CASE k = cursor
    BY <1>1, <2>1
  <2>2. CASE k \in Before(cursor)
    BY <1>1, <1>3, <2>2
  <2>. QED BY <1>1, <2>1, <2>2
<1>5. ASSUME NEW n \in 1..(c - 1)
      PROVE  text[n] = Blank \/ \E k \in Before(c) : n \in k..ChecksumAt(k)
  <2>1. n \in 1..(cursor - 1) \/ n \in cursor..ChecksumAt(cursor)
    BY <1>1
  <2>2. CASE n \in 1..(cursor - 1)
    <3>1. text[n] = Blank \/ \E k \in Before(cursor) : n \in k..ChecksumAt(k)
      BY <2>2 DEF Parsed, NothingBetween
    <3>. QED BY <1>1, <3>1
  <2>3. CASE n \in cursor..ChecksumAt(cursor)
    BY <1>1, <2>3
  <2>. QED BY <2>1, <2>2, <2>3
<1>. QED BY <1>4, <1>5 DEF WellFormedBefore, NothingBetween

\* A data record in flash.
LEMMA DataParsed ==
  ASSUME TypeOK, IsRecord, record_type = DATA, FitsFlash, Parsed(cursor, eof_seen, staged)
  PROVE  Parsed(cursor + RecordLength + 1, eof_seen, Staged)
<1>. DEFINE c == cursor + RecordLength + 1
<1>1. /\ ~eof_seen /\ HasHeader /\ IsComplete /\ cursor \in Nat
      /\ Before(c) = Before(cursor) \cup {cursor}
  BY OneMoreRecord, CursorBounds DEF IsRecord
<1>2. DataInFlash(cursor) /\ \A p \in Int : Lands(cursor, p) <=> p \in Covered
  BY <1>1, DataHere
<1>3. EndsBefore(c, eof_seen)
  BY <1>1, <1>2 DEF Parsed, EndsBefore
<1>4. \A k \in Before(cursor) : k \in Nat /\ k < cursor
  BY CursorBounds DEF Before, Starts
<1>5. ASSUME NEW p \in 0..(2 * FlashSize - 1)
      PROVE  \/ \E k \in Before(c) : /\ Lands(k, p)
                                     /\ \A j \in Before(c) : Lands(j, p) => j <= k
                                     /\ ByteIn(Staged, p) = text[k + 5 + p - AddressAt(k)]
             \/ /\ \A k \in Before(c) : ~Lands(k, p)
                /\ ByteIn(Staged, p) = ByteIn(flash, p)
  <2>0. p \in Int
    BY HexAssumption
  <2>1. ByteIn(Staged, p) = IF p \in Covered THEN Here(5 + p - address) ELSE ByteIn(staged, p)
    BY <1>1, RecordLands
  <2>2. CASE p \in Covered
    <3>1. 5 + p - address \in Nat /\ 5 + p - address \in 5..RecordLength
      BY <1>1, <2>2, HeaderHere DEF Covered, RecordLength
    <3>2. Here(5 + p - address) \in Byte
      BY <1>1, <3>1 DEF IsComplete
    <3>3. Here(5 + p - address) = text[cursor + (5 + p - address)]
      BY <3>1, <3>2, HereIs
    <3>4. AddressAt(cursor) = address /\ address \in Int
      BY <1>1, HeaderHere
    <3>5. cursor + (5 + p - address) = cursor + 5 + p - AddressAt(cursor)
      BY <1>1, <2>0, <3>4
    <3>6. /\ Lands(cursor, p)
          /\ ByteIn(Staged, p) = text[cursor + 5 + p - AddressAt(cursor)]
      BY <1>2, <2>0, <2>1, <2>2, <3>3, <3>5
    <3>7. \A j \in Before(c) : j <= cursor
      BY <1>1, <1>4
    <3>. QED BY <1>1, <3>6, <3>7
  <2>3. CASE p \notin Covered
    <3>1. ByteIn(Staged, p) = ByteIn(staged, p) /\ ~Lands(cursor, p)
      BY <1>2, <2>0, <2>1, <2>3
    <3>2. \/ \E k \in Before(cursor) : /\ Lands(k, p)
                                       /\ \A j \in Before(cursor) : Lands(j, p) => j <= k
                                       /\ ByteIn(staged, p) = text[k + 5 + p - AddressAt(k)]
          \/ /\ \A k \in Before(cursor) : ~Lands(k, p)
             /\ ByteIn(staged, p) = ByteIn(flash, p)
      BY DEF Parsed, Written
    <3>. QED BY <1>1, <3>1, <3>2
  <2>. QED BY <2>2, <2>3
<1>6. Written(Staged, flash, Before(c))
  <2>. HIDE DEF c
  <2>. QED BY <1>5 DEF Written
<1>. QED BY <1>3, <1>6, RecordParsed DEF Parsed

\* An end-of-file record.
LEMMA EofParsed ==
  ASSUME TypeOK, IsRecord, record_type = EOF, Parsed(cursor, eof_seen, staged)
  PROVE  Parsed(cursor + RecordLength + 1, TRUE, staged)
<1>. DEFINE c == cursor + RecordLength + 1
<1>1. /\ ~eof_seen /\ HasHeader /\ cursor \in Nat
      /\ Before(c) = Before(cursor) \cup {cursor}
  BY OneMoreRecord, CursorBounds
<1>2. TypeAt(cursor) = EOF /\ EOF # DATA
  BY <1>1, HeaderHere DEF EOF, DATA
<1>3. \A k \in Before(cursor) : k \in Nat /\ k < cursor /\ DataInFlash(k)
  BY <1>1, CursorBounds DEF Before, Starts, Parsed, EndsBefore
<1>4. EndsBefore(c, TRUE)
  <2>1. \A k \in Before(c) \ {cursor} : k < cursor /\ DataInFlash(k)
    BY <1>1, <1>3
  <2>2. EndIsLast(Before(c))
    BY <1>1, <1>2, <2>1 DEF EndIsLast
  <2>. QED BY <2>2 DEF EndsBefore
<1>5. \A p : ~Lands(cursor, p)
  BY <1>2 DEF Lands
<1>6. Written(staged, flash, Before(c))
  <2>. SUFFICES ASSUME NEW p \in 0..(2 * FlashSize - 1)
                PROVE  \/ \E k \in Before(c) :
                            /\ Lands(k, p)
                            /\ \A j \in Before(c) : Lands(j, p) => j <= k
                            /\ ByteIn(staged, p) = text[k + 5 + p - AddressAt(k)]
                       \/ /\ \A k \in Before(c) : ~Lands(k, p)
                          /\ ByteIn(staged, p) = ByteIn(flash, p)
    BY DEF Written
  <2>1. \/ \E k \in Before(cursor) : /\ Lands(k, p)
                                     /\ \A j \in Before(cursor) : Lands(j, p) => j <= k
                                     /\ ByteIn(staged, p) = text[k + 5 + p - AddressAt(k)]
        \/ /\ \A k \in Before(cursor) : ~Lands(k, p)
           /\ ByteIn(staged, p) = ByteIn(flash, p)
    BY DEF Parsed, Written
  <2>. QED BY <1>1, <1>5, <2>1
<1>. QED BY <1>4, <1>6, RecordParsed DEF Parsed

\* What is said of the text and the flash stays said while they do.
LEMMA SameText ==
  ASSUME text' = text, flash' = flash, NEW c, NEW seen, NEW image, Parsed(c, seen, image),
         cursor' = c, eof_seen' = seen, staged' = image
  PROVE  Parsed(cursor, eof_seen, staged)'
<1>1. Before(cursor)' = Before(c)
  BY DEF Before, Starts
<1>2. /\ \A k : WellFormed(k)' <=> WellFormed(k)
      /\ \A k : ChecksumAt(k)' = ChecksumAt(k)
      /\ \A k : DataInFlash(k)' <=> DataInFlash(k)
      /\ \A k : TypeAt(k)' = TypeAt(k)
      /\ \A k, p : Lands(k, p)' <=> Lands(k, p)
  BY DEF WellFormed, ChecksumAt, CountAt, DataInFlash, Lands, TypeAt, AddressAt
<1>3. WellFormedBefore(cursor)'
  BY <1>1, <1>2 DEF Parsed, WellFormedBefore
<1>4. NothingBetween(cursor)'
  BY <1>1, <1>2 DEF Parsed, NothingBetween
<1>5. EndsBefore(cursor, eof_seen)'
  BY <1>1, <1>2 DEF Parsed, EndsBefore, EndIsLast
<1>6. Written(staged, flash, Before(cursor))'
  <2>. SUFFICES ASSUME NEW p \in 0..(2 * FlashSize - 1)
                PROVE  \/ \E k \in Before(cursor)' :
                            /\ Lands(k, p)'
                            /\ \A j \in Before(cursor)' : Lands(j, p)' => j <= k
                            /\ ByteIn(staged', p) = text'[k + 5 + p - AddressAt(k)']
                       \/ /\ \A k \in Before(cursor)' : ~Lands(k, p)'
                          /\ ByteIn(staged', p) = ByteIn(flash', p)
    BY DEF Written, ByteIn
  <2>1. \/ \E k \in Before(c) : /\ Lands(k, p)
                                /\ \A j \in Before(c) : Lands(j, p) => j <= k
                                /\ ByteIn(image, p) = text[k + 5 + p - AddressAt(k)]
        \/ /\ \A k \in Before(c) : ~Lands(k, p)
           /\ ByteIn(image, p) = ByteIn(flash, p)
    BY DEF Parsed, Written
  <2>2. \A k : AddressAt(k)' = AddressAt(k)
    BY DEF AddressAt
  <2>. QED BY <1>1, <1>2, <2>1, <2>2
<1>. QED BY <1>3, <1>4, <1>5, <1>6 DEF Parsed

\* The first iteration has passed nothing.
LEMMA NothingParsed ==
  ASSUME (text \in Seq(Token))', cursor' = 1, eof_seen' = FALSE, staged' = flash'
  PROVE  Parsed(cursor, eof_seen, staged)'
<1>1. Before(cursor)' = {}
  BY DEF Before, Starts
<1>2. WellFormedBefore(cursor)' /\ NothingBetween(cursor)' /\ EndsBefore(cursor, eof_seen)'
  BY <1>1 DEF WellFormedBefore, NothingBetween, EndsBefore
<1>3. Written(staged, flash, Before(cursor))'
  BY <1>1 DEF Written, ByteIn
<1>. QED BY <1>2, <1>3 DEF Parsed

\* What Accept takes is an image, and what Reject turns away is not.
LEMMA AcceptedIsImage ==
  ASSUME ParseInv, Accept
  PROVE  IsImage /\ Written(staged, flash, Starts)
<1>1. TypeOK /\ Parsed(cursor, eof_seen, staged) /\ Here(0) = End /\ eof_seen
  BY DEF ParseInv, Accept
<1>2. cursor = Len(text) + 1 /\ Len(text) \in Nat /\ DOMAIN text = 1..Len(text)
  BY <1>1, ColonHere, CursorBounds
<1>3. Before(cursor) = Starts
  BY <1>2 DEF Before, Starts
<1>4. \A n \in DOMAIN text : text[n] = Blank \/ \E k \in Starts : n \in k..ChecksumAt(k)
  BY <1>1, <1>2, <1>3 DEF Parsed, NothingBetween
<1>. QED BY <1>1, <1>3, <1>4
     DEF Parsed, WellFormedBefore, EndsBefore, EndIsLast, IsImage

LEMMA RejectedIsNoImage ==
  ASSUME ParseInv, Reject
  PROVE  ~IsImage
<1>. SUFFICES ASSUME IsImage
              PROVE  FALSE
  OBVIOUS
<1>1. TypeOK /\ Parsed(cursor, eof_seen, staged) /\ Malformed
  BY DEF ParseInv, Reject
<1>2. PICK last \in Starts : /\ TypeAt(last) = EOF
                             /\ \A k \in Starts \ {last} : k < last /\ DataInFlash(k)
  BY DEF IsImage
<1>3. EOF # DATA
  BY DEF EOF, DATA
<1>4. \A k \in Starts : k \in Nat /\ k \in DOMAIN text /\ text[k] = Colon
  BY <1>1, CursorBounds DEF Starts
<1>5. cursor \in Nat
  BY <1>1, CursorBounds
\* At the end of a text the end-of-file record has been seen.
<1>6. CASE Here(0) = End /\ ~eof_seen
  <2>1. cursor = Len(text) + 1 /\ DOMAIN text = 1..Len(text) /\ Len(text) \in Nat
    BY <1>1, <1>6, ColonHere, CursorBounds
  <2>2. last \in Before(cursor)
    BY <1>4, <2>1 DEF Before
  <2>3. DataInFlash(last)
    BY <1>1, <1>6, <2>2 DEF Parsed, EndsBefore
  <2>. QED BY <1>2, <1>3, <2>3 DEF DataInFlash
\* A token that is no blank is the colon of a well-formed record.
<1>7. ASSUME Here(0) \notin {End, Blank}
      PROVE  cursor \in Starts /\ WellFormed(cursor)
  <2>1. cursor \in DOMAIN text /\ text[cursor] # Blank
    BY <1>1, <1>7, ColonHere
  <2>2. PICK k \in Starts : cursor \in k..ChecksumAt(k)
    BY <2>1 DEF IsImage
  <2>3. k \notin Before(cursor)
    <3>1. k \in Before(cursor) => ChecksumAt(k) < cursor
      BY <1>1 DEF Parsed, WellFormedBefore
    <3>2. ChecksumAt(k) \in Int
      <4>1. k + 1 \in (k + 1)..(k + 4) /\ k \in Int
        BY <1>4
      <4>2. text[k + 1] \in Byte
        BY <4>1 DEF IsImage, WellFormed
      <4>. QED BY <4>1, <4>2, ByteBounds DEF CountAt, ChecksumAt
    <3>. QED BY <1>4, <1>5, <2>2, <3>1, <3>2
  <2>4. k = cursor
    BY <1>4, <1>5, <2>2, <2>3 DEF Before
  <2>. QED BY <2>4 DEF IsImage
<1>8. CASE Here(0) \notin {End, Blank} /\ ~IsRecord
  <2>1. cursor \in Starts /\ WellFormed(cursor)
    BY <1>7, <1>8
  <2>2. IsComplete /\ ChecksumHolds /\ Here(0) = Colon
    BY <1>1, <2>1, RecordIsWellFormed, ColonHere
  <2>3. eof_seen
    BY <1>8, <2>2 DEF IsRecord, StartsRecord
  <2>4. PICK end \in Before(cursor) : TypeAt(end) = EOF
    BY <1>1, <2>3 DEF Parsed, EndsBefore, EndIsLast
  <2>5. end \in Starts /\ end < cursor
    BY <2>4 DEF Before
  <2>6. end = last
    BY <1>2, <1>3, <2>4, <2>5 DEF DataInFlash
  <2>7. cursor < last
    BY <1>2, <1>4, <1>5, <2>1, <2>5, <2>6
  <2>. QED BY <1>4, <1>5, <2>5, <2>6, <2>7
\* A record that is read is the end-of-file record or data in flash.
<1>9. ASSUME IsRecord
      PROVE  record_type = EOF \/ (record_type = DATA /\ FitsFlash)
  <2>1. /\ cursor \in Starts /\ HasHeader
    BY <1>1, <1>9, OneMoreRecord
  <2>2. /\ TypeAt(cursor) = record_type
        /\ DataInFlash(cursor) <=> (record_type = DATA /\ FitsFlash)
    BY <1>1, <2>1, HeaderHere, DataHere
  <2>3. TypeAt(cursor) = EOF \/ DataInFlash(cursor)
    BY <1>2, <2>1
  <2>. QED BY <2>2, <2>3
<1>. QED BY <1>1, <1>3, <1>6, <1>8, <1>9 DEF Malformed

LEMMA ParseInvHolds == Spec => []ParseInv
<1>. DEFINE Inv == status = "parsing" => Parsed(cursor, eof_seen, staged)
<1>1. Init => Inv
  BY DEF Init
<1>2. TypeOK /\ TypeOK' /\ Inv /\ [Next]_hexvars => Inv'
  <2>. SUFFICES ASSUME TypeOK, TypeOK', Inv, [Next]_hexvars
                PROVE  Inv'
    OBVIOUS
  <2>1. CASE \E hex_text \in Texts : Begin(hex_text)
    <3>1. /\ text' \in Seq(Token) /\ cursor' = 1 /\ eof_seen' = FALSE /\ staged' = flash'
      BY <2>1 DEF Begin, TypeOK
    <3>. QED BY <3>1, NothingParsed
  <2>2. CASE SkipBlank
    <3>1. Parsed(cursor + 1, eof_seen, staged)
      BY <2>2, BlankParsed DEF SkipBlank
    <3>. QED BY <2>2, <3>1, SameText DEF SkipBlank
  <2>3. CASE DataRecord
    <3>1. Parsed(cursor + RecordLength + 1, eof_seen, Staged)
      BY <2>3, DataParsed DEF DataRecord
    <3>. QED BY <2>3, <3>1, SameText DEF DataRecord
  <2>4. CASE EofRecord
    <3>1. Parsed(cursor + RecordLength + 1, TRUE, staged)
      BY <2>4, EofParsed DEF EofRecord
    <3>. QED BY <2>4, <3>1, SameText DEF EofRecord
  <2>5. CASE Accept \/ Reject
    BY <2>5 DEF Accept, Reject
  <2>6. CASE UNCHANGED hexvars
    <3>1. status' = "parsing" => Parsed(cursor, eof_seen, staged)
      BY <2>6 DEF hexvars
    <3>. QED BY <2>6, <3>1, SameText DEF hexvars
  <2>. QED BY <2>1, <2>2, <2>3, <2>4, <2>5, <2>6 DEF Next, Parse
<1>3. TypeOK /\ Inv => ParseInv
  BY DEF ParseInv
<1>. QED BY <1>1, <1>2, <1>3, HexTypeCorrect, PTL DEF Spec

\* Whatever the text and however large the flash, the loader takes exactly the
\* complete images: it loads one with every byte of the flash as the last record
\* that covers it says, and turns away whatever is not one (avr_mcu.c:278-370).
THEOREM ExactlyTheImagesLoad == Spec => LoadsExactlyTheImages
<1>1. ParseInv /\ [Next]_hexvars =>
        [(status = "parsing" /\ status' # "parsing") =>
           IF IsImage THEN status' = "loaded" /\ Written(flash', flash, Starts)
                      ELSE status' = "rejected"]_hexvars
  <2>. SUFFICES ASSUME ParseInv, Next, status = "parsing", status' # "parsing"
                PROVE  IF IsImage THEN status' = "loaded" /\ Written(flash', flash, Starts)
                                  ELSE status' = "rejected"
    OBVIOUS
  <2>1. Accept \/ Reject
    BY DEF Next, Parse, Begin, SkipBlank, DataRecord, EofRecord
  <2>2. CASE Accept
    <3>1. flash' = staged /\ status' = "loaded"
      BY <2>2 DEF Accept
    <3>. QED BY <2>2, <3>1, AcceptedIsImage
  <2>3. CASE Reject
    BY <2>3, RejectedIsNoImage DEF Reject
  <2>. QED BY <2>1, <2>2, <2>3
<1>. QED BY <1>1, ParseInvHolds, PTL DEF Spec, LoadsExactlyTheImages
-----------------------------------------------------------------------------
(***************************************************************************)
(* Sums over data.                                                         *)
(***************************************************************************)
LEMMA LeastElement ==
  ASSUME NEW S, S \subseteq Nat, S # {}
  PROVE  \E k \in S : \A m \in S : k <= m
<1>. DEFINE Less == OpToRel(<, Nat)
<1>1. IsWellFoundedOn(Less, Nat)
  BY NatLessThanWellFounded
<1>2. \A m, n \in Nat : m < n => <<m, n>> \in Less
  BY DEF OpToRel
<1>. HIDE DEF Less
<1>3. PICK k \in S : \A m \in S : ~(<<m, k>> \in Less)
  BY <1>1, WFMin
<1>4. \A m \in S : k <= m
  <2>1. TAKE m \in S
  <2>2. m \in Nat /\ k \in Nat
    OBVIOUS
  <2>3. ~(m < k)
    BY <1>2, <1>3, <2>2
  <2>. QED BY <2>2, <2>3
<1>. QED BY <1>4

LEMMA Induction ==
  ASSUME NEW N \in Nat, NEW S, 0 \in S,
         \A n \in 1..N : n - 1 \in S => n \in S
  PROVE  \A n \in 0..N : n \in S
<1>. DEFINE T == {n \in 0..N : n \notin S}
<1>1. SUFFICES ASSUME T # {}
               PROVE  FALSE
  OBVIOUS
<1>2. T \subseteq Nat
  OBVIOUS
<1>3. PICK k \in T : \A m \in T : k <= m
  <2>. HIDE DEF T
  <2>. QED BY <1>1, <1>2, LeastElement
<1>4. k \in 1..N /\ k - 1 \in 0..N
  OBVIOUS
<1>5. k - 1 \in S
  BY <1>3, <1>4
<1>. QED BY <1>4, <1>5

\* The sums over the sets of indices, from the set without an element to the set.
Chosen(s) == CHOOSE x \in s : TRUE
SumAt(f, g, s) == IF s = {} THEN 0 ELSE f[Chosen(s)] + g[s \ {Chosen(s)}]
SumsOf(f, g) == g = [s \in SUBSET DOMAIN f |-> SumAt(f, g, s)]
Sums(f) == CHOOSE g : SumsOf(f, g)

LEMMA SumIs ==
  ASSUME NEW f
  PROVE  SumFunction(f) = Sums(f)[DOMAIN f]
BY DEF SumFunction, SumFunctionOnSet, FoldFunctionOnSet, MapThenFoldSet, Sums, SumsOf,
       SumAt, Chosen

LEMMA ChosenOut ==
  ASSUME NEW s, IsFiniteSet(s), s # {}
  PROVE  /\ Chosen(s) \in s
         /\ IsFiniteSet(s \ {Chosen(s)})
         /\ Cardinality(s) \in Nat \ {0}
         /\ Cardinality(s \ {Chosen(s)}) = Cardinality(s) - 1
<1>1. Chosen(s) \in s
  BY DEF Chosen
<1>. QED BY <1>1, FS_RemoveElement, FS_EmptySet, FS_CardinalityType

LEMMA SumsExist ==
  ASSUME NEW f, IsFiniteSet(DOMAIN f)
  PROVE  SumsOf(f, Sums(f))
<1>. DEFINE D == DOMAIN f
            N == Cardinality(D)
            Small(n) == {s \in SUBSET D : Cardinality(s) <= n}
            SumsTo(g, n) == g = [s \in Small(n) |-> SumAt(f, g, s)]
            T == {n \in 0..N : \E g : SumsTo(g, n)}
<1>1. /\ N \in Nat
      /\ \A s \in SUBSET D : IsFiniteSet(s) /\ Cardinality(s) \in Nat /\ Cardinality(s) <= N
  BY FS_CardinalityType, FS_Subset
<1>2. 0 \in T
  <2>. DEFINE g == [s \in Small(0) |-> 0]
  <2>1. \A s \in Small(0) : s = {}
    BY <1>1, FS_EmptySet
  <2>2. SumsTo(g, 0)
    BY <2>1 DEF SumAt
  <2>. HIDE DEF g, SumsTo
  <2>. QED BY <1>1, <2>2
<1>3. ASSUME NEW n \in 1..N, n - 1 \in T
      PROVE  n \in T
  <2>1. PICK g : SumsTo(g, n - 1)
    BY <1>3
  <2>. DEFINE h == [s \in Small(n) |-> SumAt(f, g, s)]
  <2>2. ASSUME NEW s \in Small(n)
        PROVE  SumAt(f, g, s) = SumAt(f, h, s)
    <3>1. CASE s = {}
      BY <3>1 DEF SumAt
    <3>2. CASE s # {}
      <4>. DEFINE r == s \ {Chosen(s)}
      <4>1. r \in SUBSET D /\ Cardinality(r) <= n - 1 /\ Cardinality(r) <= n
        BY <1>1, <3>2, ChosenOut
      <4>2. g[r] = SumAt(f, g, r)
        <5>. HIDE DEF r
        <5>. QED BY <2>1, <4>1
      <4>3. h[r] = SumAt(f, g, r)
        <5>. HIDE DEF r
        <5>. QED BY <4>1
      <4>4. g[r] = h[r]
        BY <4>2, <4>3
      <4>. HIDE DEF h
      <4>. QED BY <3>2, <4>4 DEF SumAt
    <3>. QED BY <3>1, <3>2
  <2>3. SumsTo(h, n)
    <3>. DEFINE v == [s \in Small(n) |-> SumAt(f, h, s)]
    <3>1. h = v
      <4>. QED BY <2>2
    <3>. QED BY <3>1
  <2>. HIDE DEF h, SumsTo
  <2>. QED BY <2>3
<1>4. N \in T
  <2>. HIDE DEF T
  <2>1. \A n \in 1..N : n - 1 \in T => n \in T
    BY <1>3
  <2>2. \A n \in 0..N : n \in T
    BY <1>1, <1>2, <2>1, Induction
  <2>. QED BY <1>1, <2>2
<1>5. PICK g : SumsTo(g, N)
  BY <1>4
<1>6. Small(N) = SUBSET D
  BY <1>1
<1>7. SumsOf(f, g)
  BY <1>5, <1>6 DEF SumsOf
<1>. QED BY <1>7, Zenon DEF Sums

\* A sum changes by what one of its terms changes.
LEMMA SumChanges ==
  ASSUME NEW f, NEW h, IsFiniteSet(DOMAIN f), DOMAIN h = DOMAIN f,
         \A x \in DOMAIN f : f[x] \in Int /\ h[x] \in Int,
         NEW k \in DOMAIN f, \A x \in DOMAIN f \ {k} : h[x] = f[x]
  PROVE  /\ SumFunction(f) \in Int
         /\ SumFunction(h) = SumFunction(f) + h[k] - f[k]
<1>. DEFINE D == DOMAIN f
            N == Cardinality(D)
            a == Sums(f)
            b == Sums(h)
            Moved(s) == /\ a[s] \in Int
                        /\ b[s] = IF k \in s THEN a[s] + h[k] - f[k] ELSE a[s]
            T == {n \in 0..N : \A s \in SUBSET D : Cardinality(s) = n => Moved(s)}
<1>1. /\ N \in Nat
      /\ \A s \in SUBSET D : IsFiniteSet(s) /\ Cardinality(s) \in Nat /\ Cardinality(s) <= N
  BY FS_CardinalityType, FS_Subset
<1>2. \A s \in SUBSET D : a[s] = SumAt(f, a, s) /\ b[s] = SumAt(h, b, s)
  <2>1. SumsOf(f, a) /\ SumsOf(h, b)
    BY SumsExist
  <2>. HIDE DEF a, b
  <2>. QED BY <2>1 DEF SumsOf
<1>. HIDE DEF a, b
<1>3. 0 \in T
  <2>1. ASSUME NEW s \in SUBSET D, Cardinality(s) = 0
        PROVE  Moved(s)
    <3>1. s = {}
      BY <1>1, <2>1, FS_EmptySet
    <3>2. a[s] = 0 /\ b[s] = 0
      BY <1>2, <3>1 DEF SumAt
    <3>. QED BY <3>1, <3>2
  <2>. HIDE DEF Moved
  <2>. QED BY <1>1, <2>1
<1>4. ASSUME NEW n \in 1..N, n - 1 \in T
      PROVE  n \in T
  <2>1. ASSUME NEW s \in SUBSET D, Cardinality(s) = n
        PROVE  Moved(s)
    <3>. DEFINE x == Chosen(s)
                r == s \ {x}
    <3>1. s # {} /\ IsFiniteSet(s)
      BY <1>1, <2>1, FS_EmptySet
    <3>2. x \in s /\ r \in SUBSET D /\ Cardinality(r) = n - 1
      BY <2>1, <3>1, ChosenOut
    <3>3. Moved(r)
      <4>. HIDE DEF Moved, r
      <4>. QED BY <1>4, <3>2
    <3>4. a[s] = f[x] + a[r] /\ b[s] = h[x] + b[r]
      BY <1>2, <3>1 DEF SumAt
    <3>5. f[x] \in Int /\ h[x] \in Int /\ f[k] \in Int /\ h[k] \in Int
      <4>. HIDE DEF x
      <4>. QED BY <3>2
    <3>6. CASE x = k
      <4>1. k \notin r /\ k \in s
        BY <3>2, <3>6
      <4>. HIDE DEF r, x
      <4>. QED BY <3>3, <3>4, <3>5, <3>6, <4>1
    <3>7. CASE x # k
      <4>1. k \in r <=> k \in s
        BY <3>7
      <4>2. h[x] = f[x]
        <5>. HIDE DEF x
        <5>. QED BY <3>2, <3>7
      <4>. HIDE DEF r, x
      <4>. QED BY <3>3, <3>4, <3>5, <4>1, <4>2
    <3>. QED BY <3>6, <3>7
  <2>. HIDE DEF Moved
  <2>. QED BY <2>1
<1>5. Moved(D)
  <2>. HIDE DEF T, Moved
  <2>1. \A n \in 1..N : n - 1 \in T => n \in T
    BY <1>4
  <2>2. N \in T
    BY <1>1, <1>3, <2>1, Induction
  <2>. QED BY <2>2 DEF T
<1>. QED BY <1>5, SumIs DEF a, b

\* The order in which the terms are added does not matter.
LEMMA AnyTerm ==
  ASSUME NEW f, IsFiniteSet(DOMAIN f), \A x \in DOMAIN f : f[x] \in Int
  PROVE  \A s \in SUBSET DOMAIN f :
           /\ Sums(f)[s] \in Int
           /\ s = {} => Sums(f)[s] = 0
           /\ \A x \in s : Sums(f)[s] = f[x] + Sums(f)[s \ {x}]
<1>. DEFINE D == DOMAIN f
            N == Cardinality(D)
            a == Sums(f)
            Any(s) == /\ a[s] \in Int
                      /\ s = {} => a[s] = 0
                      /\ \A x \in s : a[s] = f[x] + a[s \ {x}]
            T == {n \in 0..N : \A s \in SUBSET D : Cardinality(s) <= n => Any(s)}
<1>1. /\ N \in Nat
      /\ \A s \in SUBSET D : IsFiniteSet(s) /\ Cardinality(s) \in Nat /\ Cardinality(s) <= N
  BY FS_CardinalityType, FS_Subset
<1>2. \A s \in SUBSET D : a[s] = SumAt(f, a, s)
  <2>1. SumsOf(f, a)
    BY SumsExist
  <2>. HIDE DEF a
  <2>. QED BY <2>1 DEF SumsOf
<1>. HIDE DEF a
<1>3. 0 \in T
  <2>1. ASSUME NEW s \in SUBSET D, Cardinality(s) <= 0
        PROVE  Any(s)
    <3>1. s = {}
      <4>1. Cardinality(s) = 0
        BY <1>1, <2>1
      <4>. QED BY <1>1, <4>1, FS_EmptySet
    <3>2. a[s] = 0
      BY <1>2, <3>1 DEF SumAt
    <3>. QED BY <3>1, <3>2
  <2>. HIDE DEF Any
  <2>. QED BY <1>1, <2>1
<1>4. ASSUME NEW n \in 1..N, n - 1 \in T
      PROVE  n \in T
  <2>1. ASSUME NEW r \in SUBSET D, Cardinality(r) <= n - 1
        PROVE  Any(r)
    BY <1>4, <2>1
  <2>2. ASSUME NEW s \in SUBSET D, Cardinality(s) = n
        PROVE  Any(s)
    <3>. DEFINE y == Chosen(s)
    <3>1. s # {} /\ IsFiniteSet(s)
      BY <1>1, <2>2, FS_EmptySet
    <3>2. y \in s /\ Cardinality(s \ {y}) = n - 1
      BY <2>2, <3>1, ChosenOut
    <3>3. a[s] = f[y] + a[s \ {y}]
      BY <1>2, <3>1 DEF SumAt
    <3>. HIDE DEF y
    <3>4. Any(s \ {y}) /\ f[y] \in Int
      <4>. HIDE DEF Any
      <4>. QED BY <2>1, <3>2
    <3>5. ASSUME NEW x \in s, x # y
          PROVE  a[s] = f[x] + a[s \ {x}]
      <4>1. Cardinality(s \ {x}) = n - 1
        BY <2>2, <3>1, FS_RemoveElement
      <4>2. Any(s \ {x}) /\ f[x] \in Int
        <5>. HIDE DEF Any
        <5>. QED BY <2>1, <4>1
      <4>. DEFINE r == (s \ {x}) \ {y}
      <4>3. r = (s \ {y}) \ {x}
        OBVIOUS
      <4>4. a[s \ {y}] = f[x] + a[r]
        BY <3>4, <3>5, <4>3
      <4>5. a[s \ {x}] = f[y] + a[r]
        BY <3>2, <3>5, <4>2
      <4>6. a[r] \in Int
        <5>1. IsFiniteSet(s \ {x}) /\ r \in SUBSET (s \ {x}) /\ r \in SUBSET D
          BY <3>1, FS_RemoveElement
        <5>2. Cardinality(r) <= n - 1
          <6>. HIDE DEF r
          <6>. QED BY <4>1, <5>1, FS_Subset
        <5>3. Any(r)
          <6>. HIDE DEF Any, r
          <6>. QED BY <2>1, <5>1, <5>2
        <5>. QED BY <5>3
      <4>. HIDE DEF r
      <4>. QED BY <3>3, <3>4, <4>2, <4>4, <4>5, <4>6
    <3>6. a[s] \in Int
      BY <3>3, <3>4
    <3>. QED BY <3>1, <3>3, <3>5, <3>6
  <2>3. ASSUME NEW s \in SUBSET D, Cardinality(s) <= n
        PROVE  Any(s)
    <3>1. Cardinality(s) = n \/ Cardinality(s) <= n - 1
      BY <1>1, <2>3
    <3>. HIDE DEF Any
    <3>. QED BY <2>1, <2>2, <3>1
  <2>. HIDE DEF Any
  <2>. QED BY <2>3
<1>5. ASSUME NEW s \in SUBSET D
      PROVE  Any(s)
  <2>. HIDE DEF T, Any
  <2>1. \A n \in 1..N : n - 1 \in T => n \in T
    BY <1>4
  <2>2. Cardinality(s) \in T
    BY <1>1, <1>3, <2>1, Induction
  <2>. QED BY <2>2 DEF T
<1>. QED BY <1>5 DEF a

LEMMA WithoutLast == \A m \in Nat : (1..m) \ {m} = 1..(m - 1)
OBVIOUS

\* A sum with one more term in front.
LEMMA SumOneMore ==
  ASSUME NEW N \in Nat, NEW f \in [1..N -> Int], NEW h \in [1..(N + 1) -> Int],
         \A m \in 1..N : h[m + 1] = f[m]
  PROVE  SumFunction(f) \in Int /\ SumFunction(h) = h[1] + SumFunction(f)
<1>. DEFINE a == Sums(f)
            b == Sums(h)
            A(m) == 1..m
            B(m) == 2..(m + 1)
            T == {m \in 0..N : b[B(m)] = a[A(m)]}
<1>1. IsFiniteSet(DOMAIN f) /\ IsFiniteSet(DOMAIN h)
  BY FS_Interval
<1>2. /\ \A s \in SUBSET (1..N) :
           /\ a[s] \in Int
           /\ s = {} => a[s] = 0
           /\ \A x \in s : a[s] = f[x] + a[s \ {x}]
      /\ \A s \in SUBSET (1..(N + 1)) :
           /\ b[s] \in Int
           /\ s = {} => b[s] = 0
           /\ \A x \in s : b[s] = h[x] + b[s \ {x}]
  BY <1>1, AnyTerm, ZenonT(30)
<1>3. /\ A(0) = {} /\ B(0) = {}
      /\ \A m \in 0..N : A(m) \in SUBSET (1..N) /\ B(m) \in SUBSET (1..(N + 1))
  OBVIOUS
<1>4. ASSUME NEW m \in 1..N
      PROVE  /\ m \in A(m) /\ A(m) \ {m} = A(m - 1)
             /\ m + 1 \in B(m) /\ B(m) \ {m + 1} = B(m - 1)
  <2>1. A(m) \ {m} = A(m - 1)
    <3>1. m \in Nat
      OBVIOUS
    <3>. QED BY <3>1, WithoutLast, Zenon
  <2>2. B(m) \ {m + 1} = B(m - 1)
    <3>1. (m - 1) + 1 = m
      OBVIOUS
    <3>2. B(m) \ {m + 1} = 2..m
      BY SMTT(30)
    <3>. QED BY <3>1, <3>2
  <2>. QED BY <2>1, <2>2
<1>5. (1..(N + 1)) \ {1} = B(N) /\ 1 \in 1..(N + 1)
  OBVIOUS
<1>. HIDE DEF a, b, A, B
<1>6. 0 \in T
  <2>1. a[A(0)] = 0
    BY <1>2, <1>3
  <2>2. b[B(0)] = 0
    BY <1>2, <1>3
  <2>. QED BY <2>1, <2>2
<1>7. ASSUME NEW m \in 1..N, m - 1 \in T
      PROVE  m \in T
  <2>. DEFINE s == A(m)
              r == B(m)
  <2>0. s \in SUBSET (1..N) /\ r \in SUBSET (1..(N + 1)) /\ m \in s /\ m + 1 \in r
    BY <1>3, <1>4
  <2>1. b[B(m)] = h[m + 1] + b[B(m - 1)]
    <3>1. b[r] = h[m + 1] + b[r \ {m + 1}]
      <4>. HIDE DEF r
      <4>. QED BY <1>2, <2>0
    <3>. QED BY <1>4, <3>1
  <2>2. a[A(m)] = f[m] + a[A(m - 1)]
    <3>1. a[s] = f[m] + a[s \ {m}]
      <4>. HIDE DEF s
      <4>. QED BY <1>2, <2>0
    <3>. QED BY <1>4, <3>1
  <2>. QED BY <1>7, <2>1, <2>2
<1>8. b[B(N)] = a[A(N)]
  <2>1. N \in T
    <3>. HIDE DEF T
    <3>1. \A m \in 1..N : m - 1 \in T => m \in T
      BY <1>7
    <3>2. \A m \in 0..N : m \in T
      BY <1>6, <3>1, Induction
    <3>. QED BY <3>2
  <2>. QED BY <2>1
<1>9. b[1..(N + 1)] = h[1] + b[B(N)]
  <2>. DEFINE all == 1..(N + 1)
  <2>1. all \in SUBSET (1..(N + 1)) /\ 1 \in all /\ all \ {1} = B(N)
    BY <1>5
  <2>. HIDE DEF all
  <2>2. b[all] = h[1] + b[all \ {1}]
    BY <1>2, <2>1
  <2>. QED BY <2>1, <2>2 DEF all
<1>10. a[A(N)] \in Int
  BY <1>2, <1>3
<1>11. SumFunction(f) = a[A(N)] /\ SumFunction(h) = b[1..(N + 1)]
  <2>1. DOMAIN f = A(N) /\ DOMAIN h = 1..(N + 1)
    BY DEF A
  <2>. QED BY <2>1, SumIs DEF a, b
<1>. QED BY <1>8, <1>9, <1>10, <1>11

-----------------------------------------------------------------------------
(***************************************************************************)
(* One fault on the way.                                                   *)
(***************************************************************************)

\* The shape of an image, token by token: every byte belongs to one record, whose
\* bytes add up to zero and are followed by none.
StartsIn(t) == {k \in DOMAIN t : t[k] = Colon}
LastIn(t, k) == k + 5 + t[k + 1]
BytesIn(t, k) == (k + 1)..LastIn(t, k)
SumIn(t, k) == SumFunction([m \in 1..(5 + t[k + 1]) |-> t[k + m]])
Shape(t) ==
  /\ \A k \in StartsIn(t) : /\ k \in Nat /\ t[k + 1] \in Byte
                            /\ \A m \in BytesIn(t, k) : m \in DOMAIN t /\ t[m] \in Byte
                            /\ SumIn(t, k) % 256 = 0
                            /\ LastIn(t, k) + 1 \in DOMAIN t => t[LastIn(t, k) + 1] \notin Byte
  /\ \A m \in DOMAIN t : /\ m \in Nat /\ (t[m] \in Byte \/ t[m] \in {Colon, Blank})
                         /\ t[m] \in Byte => \E k \in StartsIn(t) : m \in BytesIn(t, k)

LEMMA ImageShape == text \in Seq(Token) /\ IsImage => Shape(text)
<1>. SUFFICES ASSUME text \in Seq(Token), IsImage
              PROVE  Shape(text)
  OBVIOUS
<1>1. \A m \in DOMAIN text : m \in Nat
  OBVIOUS
<1>. DEFINE Last(k) == LastIn(text, k)
            Bytes(k) == BytesIn(text, k)
<1>2. ASSUME NEW k \in Starts
      PROVE  /\ k \in Nat /\ text[k] = Colon /\ text[k + 1] \in Byte
             /\ Last(k) \in Nat /\ Last(k) >= k + 5 /\ Last(k) = ChecksumAt(k)
             /\ \A m \in Bytes(k) : m \in DOMAIN text /\ text[m] \in Byte
             /\ SumIn(text, k) % 256 = 0
  <2>1. k \in Nat /\ text[k] = Colon /\ WellFormed(k)
    BY <1>1 DEF Starts, IsImage
  <2>2. k + 1 \in (k + 1)..(k + 4)
    BY <2>1
  <2>3. text[k + 1] \in Byte
    BY <2>1, <2>2 DEF WellFormed
  <2>4. Last(k) \in Nat /\ Last(k) >= k + 5 /\ Last(k) = ChecksumAt(k)
    BY <2>1, <2>3, ByteBounds DEF ChecksumAt, CountAt, LastIn
  <2>5. ASSUME NEW m \in Bytes(k)
        PROVE  m \in DOMAIN text /\ text[m] \in Byte
    <3>1. m \in (k + 1)..(k + 4) \/ m \in (k + 5)..ChecksumAt(k)
      BY <2>1, <2>4 DEF BytesIn
    <3>. QED BY <2>1, <3>1 DEF WellFormed
  <2>. QED BY <2>1, <2>3, <2>4, <2>5 DEF WellFormed, SumIn, CountAt
<1>3. ASSUME NEW m \in DOMAIN text
      PROVE  \/ text[m] = Blank
             \/ m \in Starts
             \/ \E k \in Starts : m \in Bytes(k)
  <2>1. text[m] = Blank \/ \E k \in Starts : m \in k..ChecksumAt(k)
    BY DEF IsImage
  <2>2. ASSUME NEW k \in Starts, m \in k..ChecksumAt(k), m # k
        PROVE  m \in Bytes(k)
    BY <1>2, <2>2 DEF BytesIn
  <2>. QED BY <2>1, <2>2
<1>4. ASSUME NEW m \in DOMAIN text, text[m] \in Byte
      PROVE  \E k \in Starts : m \in Bytes(k)
  BY <1>2, <1>3, <1>4, NotBytes
<1>5. ASSUME NEW k \in Starts, Last(k) + 1 \in DOMAIN text, text[Last(k) + 1] \in Byte
      PROVE  FALSE
  <2>. DEFINE m == Last(k) + 1
  <2>1. PICK j \in Starts : m \in Bytes(j)
    BY <1>4, <1>5
  <2>2. /\ k \in Nat /\ j \in Nat /\ Last(k) \in Nat /\ Last(j) \in Nat
        /\ Last(k) >= k + 5 /\ text[k] = Colon /\ text[j] = Colon
    BY <1>2
  <2>3. j + 1 <= m /\ m <= Last(j)
    BY <2>1, <2>2 DEF BytesIn
  <2>4. k \notin Bytes(j) /\ j \notin Bytes(k)
    BY <1>2, <2>2, NotBytes
  <2>5. CASE j < k
    <3>1. k \in Bytes(j)
      BY <2>2, <2>3, <2>5 DEF BytesIn
    <3>. QED BY <2>4, <3>1
  <2>6. CASE j = k
    BY <2>2, <2>3, <2>6
  <2>7. CASE k < j
    <3>1. j \in Bytes(k)
      BY <2>2, <2>3, <2>7 DEF BytesIn
    <3>. QED BY <2>4, <3>1
  <2>. QED BY <2>2, <2>5, <2>6, <2>7
<1>6. ASSUME NEW m \in DOMAIN text
      PROVE  m \in Nat /\ (text[m] \in Byte \/ text[m] \in {Colon, Blank})
  BY <1>1, <1>2, <1>3 DEF Starts
<1>7. StartsIn(text) = Starts
  BY DEF StartsIn, Starts
<1>. QED BY <1>2, <1>4, <1>5, <1>6, <1>7 DEF Shape

\* What the shape says of a record.
LEMMA RecordShape ==
  ASSUME NEW t, Shape(t), NEW k \in StartsIn(t)
  PROVE  /\ k \in Nat /\ t[k] = Colon /\ t[k + 1] \in Byte
         /\ t[k + 1] \in Nat /\ LastIn(t, k) \in Nat /\ LastIn(t, k) = k + 5 + t[k + 1]
         /\ k + 1 \in BytesIn(t, k)
         /\ \A m \in BytesIn(t, k) : m \in Nat /\ m \in DOMAIN t /\ t[m] \in Byte
         /\ SumIn(t, k) % 256 = 0
         /\ LastIn(t, k) + 1 \in DOMAIN t => t[LastIn(t, k) + 1] \notin Byte
<1>1. k \in Nat /\ t[k] = Colon /\ t[k + 1] \in Byte
  BY DEF Shape, StartsIn
<1>2. t[k + 1] \in Nat /\ LastIn(t, k) \in Nat /\ LastIn(t, k) = k + 5 + t[k + 1]
  BY <1>1, ByteBounds DEF LastIn
<1>3. k + 1 \in BytesIn(t, k) /\ \A m \in BytesIn(t, k) : m \in Nat
  BY <1>1, <1>2 DEF BytesIn
<1>. QED BY <1>1, <1>2, <1>3 DEF Shape

\* One token of a text is another one in the second text.
OneDiffers(t, u, n) ==
  /\ DOMAIN t = DOMAIN u
  /\ n \in DOMAIN t
  /\ t[n] # u[n]
  /\ \A m \in DOMAIN t \ {n} : t[m] = u[m]

\* A start that is lost leaves bytes behind.
LEMMA NoStartDiffers ==
  ASSUME NEW t, NEW u, NEW n, Shape(t), Shape(u), OneDiffers(t, u, n), t[n] = Colon
  PROVE  FALSE
<1>1. n \in StartsIn(t)
  BY DEF OneDiffers, StartsIn
<1>2. n \in Nat /\ n + 1 \in DOMAIN t /\ t[n + 1] \in Byte
  BY <1>1, RecordShape
<1>3. n + 1 \in DOMAIN u /\ u[n + 1] \in Byte
  BY <1>2 DEF OneDiffers
<1>4. PICK k \in StartsIn(u) : n + 1 \in BytesIn(u, k)
  BY <1>3 DEF Shape
<1>5. k \in Nat /\ u[k] = Colon /\ LastIn(u, k) \in Nat /\ LastIn(u, k) = k + 5 + u[k + 1]
  BY RecordShape
<1>6. k # n /\ k \in StartsIn(t)
  BY <1>5 DEF OneDiffers, StartsIn
<1>7. k < n /\ n <= LastIn(u, k)
  BY <1>2, <1>4, <1>5, <1>6 DEF BytesIn
<1>8. n # k + 1 /\ k + 1 \in DOMAIN t
  BY <1>6, RecordShape, NotBytes
<1>9. LastIn(t, k) = LastIn(u, k)
  BY <1>8 DEF LastIn, OneDiffers
<1>10. n \in BytesIn(t, k)
  BY <1>2, <1>5, <1>7, <1>9 DEF BytesIn
<1>. QED BY <1>6, <1>10, RecordShape, NotBytes

\* A byte does not become a blank.
LEMMA ByteStaysByte ==
  ASSUME NEW t, NEW u, NEW n, Shape(t), Shape(u), OneDiffers(t, u, n), t[n] \in Byte
  PROVE  u[n] \in Byte
<1>1. PICK k \in StartsIn(t) : n \in BytesIn(t, k)
  BY DEF Shape, OneDiffers
<1>2. /\ k \in Nat /\ t[k] = Colon /\ k # n /\ LastIn(t, k) \in Nat
      /\ k + 1 \in DOMAIN t
  BY <1>1, RecordShape, NotBytes
<1>3. k \in StartsIn(u)
  BY <1>2 DEF OneDiffers, StartsIn
<1>4. CASE n = k + 1
  BY <1>3, <1>4, RecordShape
<1>5. CASE n # k + 1
  <2>1. LastIn(t, k) = LastIn(u, k)
    BY <1>2, <1>5 DEF LastIn, OneDiffers
  <2>2. n \in BytesIn(u, k)
    BY <1>1, <2>1 DEF BytesIn
  <2>. QED BY <1>3, <2>2, RecordShape
<1>. QED BY <1>4, <1>5

\* A count that is smaller leaves bytes behind.
LEMMA NoCountIsLess ==
  ASSUME NEW t, NEW u, NEW k \in StartsIn(t), k \in StartsIn(u),
         Shape(t), Shape(u), OneDiffers(t, u, k + 1)
  PROVE  ~(u[k + 1] < t[k + 1])
<1>. SUFFICES ASSUME u[k + 1] < t[k + 1]
              PROVE  FALSE
  OBVIOUS
<1>. DEFINE m == LastIn(u, k) + 1
<1>1. /\ k \in Nat /\ t[k + 1] \in Int /\ u[k + 1] \in Int /\ u[k + 1] >= 0
      /\ LastIn(t, k) = k + 5 + t[k + 1] /\ LastIn(u, k) = k + 5 + u[k + 1]
  BY RecordShape, ByteBounds
<1>2. m \in BytesIn(t, k) /\ m # k + 1
  BY <1>1 DEF BytesIn
<1>3. m \in DOMAIN t /\ t[m] \in Byte
  BY <1>2, RecordShape
<1>4. m \in DOMAIN u /\ u[m] \in Byte
  BY <1>2, <1>3 DEF OneDiffers
<1>. QED BY <1>4, RecordShape

\* Any other byte changes the sum.
LEMMA NoSumDiffers ==
  ASSUME NEW t, NEW u, NEW n, NEW k \in StartsIn(t), n \in BytesIn(t, k), n # k + 1,
         Shape(t), Shape(u), OneDiffers(t, u, n), u[n] \in Byte
  PROVE  FALSE
<1>1. /\ k \in Nat /\ t[k] = Colon /\ k # n /\ LastIn(t, k) = k + 5 + t[k + 1] /\ n \in Nat
      /\ k + 1 \in DOMAIN t /\ t[k + 1] \in Nat
  BY RecordShape, NotBytes
<1>2. k \in StartsIn(u) /\ u[k + 1] = t[k + 1]
  BY <1>1 DEF OneDiffers, StartsIn
<1>. DEFINE N == 5 + t[k + 1]
            f == [m \in 1..N |-> t[k + m]]
            h == [m \in 1..N |-> u[k + m]]
            p == n - k
<1>3. SumFunction(f) % 256 = 0 /\ SumFunction(h) % 256 = 0
  <2>1. SumIn(t, k) = SumFunction(f) /\ SumIn(u, k) = SumFunction(h)
    BY <1>2 DEF SumIn
  <2>2. SumIn(t, k) % 256 = 0 /\ SumIn(u, k) % 256 = 0
    BY <1>2, RecordShape
  <2>. QED BY <2>1, <2>2
<1>4. N \in Nat /\ p \in 1..N
  BY <1>1 DEF BytesIn
<1>5. IsFiniteSet(1..N)
  BY <1>4, FS_Interval
<1>6. BytesIn(u, k) = BytesIn(t, k)
  BY <1>2 DEF BytesIn, LastIn
<1>7. \A m \in 1..N : k + m \in BytesIn(t, k)
  BY <1>1 DEF BytesIn
<1>8. \A m \in 1..N : t[k + m] \in Byte /\ u[k + m] \in Byte /\ k + m \in DOMAIN t
  BY <1>2, <1>6, <1>7, RecordShape
<1>9. \A m \in 1..N : f[m] \in Int /\ h[m] \in Int
  BY <1>8, ByteBounds
<1>10. \A m \in (1..N) \ {p} : h[m] = f[m]
  <2>. SUFFICES ASSUME NEW m \in (1..N) \ {p}
                PROVE  u[k + m] = t[k + m]
    OBVIOUS
  <2>1. k + m # n
    BY <1>1
  <2>. QED BY <1>8, <2>1 DEF OneDiffers
<1>11. f[p] = t[n] /\ h[p] = u[n]
  BY <1>1, <1>4
<1>12. t[n] \in Byte /\ t[n] # u[n]
  BY RecordShape DEF OneDiffers
<1>13. SumFunction(f) \in Int /\ SumFunction(h) = SumFunction(f) + u[n] - t[n]
  <2>1. DOMAIN f = 1..N /\ DOMAIN h = 1..N
    OBVIOUS
  <2>. HIDE DEF f, h, p, N
  <2>2. /\ IsFiniteSet(DOMAIN f) /\ DOMAIN h = DOMAIN f /\ p \in DOMAIN f
        /\ \A x \in DOMAIN f : f[x] \in Int /\ h[x] \in Int
        /\ \A x \in DOMAIN f \ {p} : h[x] = f[x]
    BY <1>4, <1>5, <1>9, <1>10, <2>1
  <2>3. SumFunction(f) \in Int /\ SumFunction(h) = SumFunction(f) + h[p] - f[p]
    BY <2>2, SumChanges
  <2>. QED BY <1>11, <2>3
<1>14. /\ t[n] \in Int /\ 0 <= t[n] /\ t[n] <= 255
       /\ u[n] \in Int /\ 0 <= u[n] /\ u[n] <= 255
  BY <1>12, ByteBounds
<1>. DEFINE S == SumFunction(f)
            d == u[n] - t[n]
<1>15. S \in Int /\ d \in Int /\ -255 <= d /\ d <= 255 /\ S % 256 = 0 /\ (S + d) % 256 = 0
  <2>1. SumFunction(h) = S + d
    <3>. HIDE DEF f, h
    <3>. QED BY <1>13, <1>14
  <2>2. S % 256 = 0 /\ (S + d) % 256 = 0
    BY <1>3, <2>1, Zenon
  <2>3. d \in Int /\ -255 <= d /\ d <= 255
    BY <1>14
  <2>. QED BY <1>13, <2>2, <2>3
<1>16. d = 0
  <2>. HIDE DEF S, d
  <2>. QED BY <1>15
<1>. QED BY <1>12, <1>14, <1>16

LEMMA NoTokenDiffers ==
  ASSUME NEW t, NEW u, NEW n, Shape(t), Shape(u), OneDiffers(t, u, n)
  PROVE  FALSE
<1>1. OneDiffers(u, t, n)
  BY DEF OneDiffers
<1>2. t[n] # Colon /\ u[n] # Colon
  BY <1>1, NoStartDiffers
<1>3. n \in DOMAIN t /\ n \in DOMAIN u /\ t[n] # u[n]
  BY DEF OneDiffers
<1>4. t[n] \in Byte /\ u[n] \in Byte
  <2>1. t[n] \in Byte \cup {Blank} /\ u[n] \in Byte \cup {Blank}
    BY <1>2, <1>3 DEF Shape
  <2>. QED BY <1>1, <1>3, <2>1, ByteStaysByte
<1>5. PICK k \in StartsIn(t) : n \in BytesIn(t, k)
  BY <1>3, <1>4 DEF Shape
<1>6. n = k + 1
  BY <1>4, <1>5, NoSumDiffers
<1>7. k \in StartsIn(u)
  <2>1. t[k] = Colon /\ k # n
    BY <1>4, <1>5, RecordShape, NotBytes
  <2>. QED BY <2>1 DEF OneDiffers, StartsIn
<1>8. ~(u[n] < t[n]) /\ ~(t[n] < u[n])
  BY <1>1, <1>6, <1>7, NoCountIsLess
<1>. QED BY <1>3, <1>4, <1>8, ByteBounds

\* One token of an image, replaced by any other, makes it no image: a count, an
\* address, a type, a byte or a sum, a colon or what is between the records
\* (avr_mcu.c:293-345).
THEOREM OneWrongTokenIsNoticed ==
  ASSUME text \in Seq(Token), IsImage,
         NEW n \in DOMAIN text, NEW token \in Token, token # text[n],
         text' = [text EXCEPT ![n] = token]
  PROVE  ~IsImage'
<1>. SUFFICES ASSUME IsImage'
              PROVE  FALSE
  OBVIOUS
<1>1. Shape(text)
  BY ImageShape
<1>2. text' \in Seq(Token)
  OBVIOUS
<1>3. (text \in Seq(Token) /\ IsImage => Shape(text))'
  BY ImageShape, PTL
<1>4. Shape(text')
  BY <1>2, <1>3
<1>5. OneDiffers(text, text', n)
  BY DEF OneDiffers
<1>. QED BY <1>1, <1>4, <1>5, NoTokenDiffers

\* The second text is the first with one token more, at n.
OneMore(t, u, n) ==
  /\ DOMAIN t \subseteq Nat /\ DOMAIN u \subseteq Nat
  /\ n \in DOMAIN u
  /\ \A m \in Nat : m < n => /\ m \in DOMAIN u <=> m \in DOMAIN t
                             /\ m \in DOMAIN t => u[m] = t[m]
  /\ \A m \in Nat : m >= n => /\ m + 1 \in DOMAIN u <=> m \in DOMAIN t
                              /\ m \in DOMAIN t => u[m + 1] = t[m]

\* A start that is added cuts a record in two.
LEMMA NoStartMore ==
  ASSUME NEW t, NEW u, NEW n, Shape(t), Shape(u), OneMore(t, u, n), u[n] = Colon
  PROVE  FALSE
<1>1. n \in StartsIn(u) /\ n \in Nat
  BY DEF OneMore, StartsIn
<1>2. n + 1 \in DOMAIN u /\ u[n + 1] \in Byte
  BY <1>1, RecordShape
<1>3. n \in DOMAIN t /\ t[n] \in Byte
  BY <1>1, <1>2 DEF OneMore
<1>4. PICK k \in StartsIn(t) : n \in BytesIn(t, k)
  BY <1>3 DEF Shape
<1>5. /\ k \in Nat /\ t[k] = Colon /\ LastIn(t, k) = k + 5 + t[k + 1] /\ t[k + 1] \in Nat
      /\ k + 1 \in DOMAIN t /\ k \in DOMAIN t
  BY RecordShape DEF StartsIn
<1>6. k < n /\ n <= LastIn(t, k)
  BY <1>1, <1>4, <1>5 DEF BytesIn
<1>7. k \in StartsIn(u)
  BY <1>5, <1>6 DEF OneMore, StartsIn
<1>8. k + 1 # n
  BY <1>7, RecordShape, NotBytes
<1>9. u[k + 1] = t[k + 1]
  BY <1>1, <1>5, <1>6, <1>8 DEF OneMore
<1>10. n \in BytesIn(u, k)
  BY <1>4, <1>9 DEF BytesIn, LastIn
<1>. QED BY <1>7, <1>10, RecordShape, NotBytes

\* A byte that is added is one too many, unless it is the count; then the count and
\* the sum do not agree.
LEMMA NoByteMore ==
  ASSUME NEW t, NEW u, NEW n, Shape(t), Shape(u), OneMore(t, u, n), u[n] \in Byte
  PROVE  FALSE
<1>1. PICK k \in StartsIn(u) : n \in BytesIn(u, k)
  BY DEF Shape, OneMore
<1>2. n \in Nat /\ k \in Nat /\ k < n /\ n <= LastIn(u, k)
  BY <1>1, RecordShape DEF OneMore, BytesIn
<1>3. k \in StartsIn(t)
  BY <1>2 DEF OneMore, StartsIn
<1>. DEFINE c == t[k + 1]
            d == u[k + 1]
<1>4. /\ c \in Nat /\ d \in Nat /\ c \in Byte /\ d \in Byte
      /\ LastIn(t, k) = k + 5 + c /\ LastIn(u, k) = k + 5 + d
  BY <1>3, RecordShape
<1>5. \A m \in Nat : m >= n => /\ m + 1 \in DOMAIN u <=> m \in DOMAIN t
                               /\ m \in DOMAIN t => u[m + 1] = t[m]
  BY DEF OneMore
<1>6. CASE n # k + 1
  <2>1. k + 1 \in DOMAIN u
    BY RecordShape
  <2>2. d = c
    BY <1>2, <1>6, <2>1 DEF OneMore
  <2>. HIDE DEF c, d
  <2>3. LastIn(t, k) \in BytesIn(t, k) /\ LastIn(t, k) \in Nat /\ LastIn(t, k) >= n
    BY <1>2, <1>4, <2>2 DEF BytesIn
  <2>4. LastIn(t, k) \in DOMAIN t /\ t[LastIn(t, k)] \in Byte
    BY <1>3, <2>3, RecordShape
  <2>5. LastIn(u, k) + 1 \in DOMAIN u /\ u[LastIn(u, k) + 1] \in Byte
    BY <1>4, <1>5, <2>2, <2>3, <2>4
  <2>. QED BY <2>5, RecordShape
<1>7. CASE n = k + 1
  <2>1. ~(d <= c)
    <3>. SUFFICES ASSUME d <= c
                  PROVE  FALSE
      OBVIOUS
    <3>. DEFINE m == k + 5 + d
    <3>1. m \in BytesIn(t, k) /\ m \in Nat /\ m >= n
      <4>. HIDE DEF c, d
      <4>. QED BY <1>2, <1>4, <1>7 DEF BytesIn
    <3>2. m \in DOMAIN t /\ t[m] \in Byte
      BY <1>3, <3>1, RecordShape
    <3>3. m + 1 \in DOMAIN u /\ u[m + 1] \in Byte
      <4>. HIDE DEF m
      <4>. QED BY <1>5, <3>1, <3>2
    <3>. QED BY <1>4, <3>3, RecordShape
  <2>2. ~(d > c + 1)
    <3>. SUFFICES ASSUME d > c + 1
                  PROVE  FALSE
      OBVIOUS
    <3>. DEFINE m == k + 6 + c
    <3>1. m + 1 \in BytesIn(u, k) /\ m \in Nat /\ m >= n
      <4>. HIDE DEF c, d
      <4>. QED BY <1>2, <1>4, <1>7 DEF BytesIn
    <3>2. m + 1 \in DOMAIN u /\ u[m + 1] \in Byte
      BY <3>1, RecordShape
    <3>3. m \in DOMAIN t /\ t[m] \in Byte
      <4>. HIDE DEF m
      <4>. QED BY <1>5, <3>1, <3>2
    <3>4. m = LastIn(t, k) + 1
      <4>. HIDE DEF c
      <4>. QED BY <1>2, <1>4
    <3>. HIDE DEF m
    <3>. QED BY <1>3, <3>3, <3>4, RecordShape
  <2>3. d = c + 1
    <3>. HIDE DEF c, d
    <3>. QED BY <1>4, <2>1, <2>2
  <2>. DEFINE N == 5 + c
              f == [m \in 1..N |-> t[k + m]]
              h == [m \in 1..(N + 1) |-> u[k + m]]
  <2>4. SumIn(t, k) = SumFunction(f) /\ SumIn(u, k) = SumFunction(h)
    <3>1. 5 + u[k + 1] = N + 1
      <4>. HIDE DEF c, d
      <4>1. 5 + d = (5 + c) + 1
        BY <1>4, <2>3
      <4>. QED BY <4>1 DEF d
    <3>. QED BY <3>1 DEF SumIn
  <2>5. SumFunction(f) % 256 = 0 /\ SumFunction(h) % 256 = 0
    BY <1>3, <2>4, RecordShape
  <2>6. N \in Nat
    BY <1>4
  <2>7. f \in [1..N -> Int]
    <3>. SUFFICES ASSUME NEW m \in 1..N
                  PROVE  t[k + m] \in Int
      OBVIOUS
    <3>1. k + m \in BytesIn(t, k)
      <4>. HIDE DEF c
      <4>. QED BY <1>2, <1>4 DEF BytesIn
    <3>. QED BY <1>3, <3>1, RecordShape, ByteBounds
  <2>8. h \in [1..(N + 1) -> Int]
    <3>. SUFFICES ASSUME NEW m \in 1..(N + 1)
                  PROVE  u[k + m] \in Int
      OBVIOUS
    <3>1. k + m \in BytesIn(u, k)
      <4>. HIDE DEF c, d
      <4>. QED BY <1>2, <1>4, <2>3 DEF BytesIn
    <3>. QED BY <3>1, RecordShape, ByteBounds
  <2>9. \A m \in 1..N : h[m + 1] = f[m]
    <3>. SUFFICES ASSUME NEW m \in 1..N
                  PROVE  u[k + (m + 1)] = t[k + m]
      <4>1. \A m \in 1..N : m + 1 \in 1..(N + 1)
        BY <2>6
      <4>. QED BY <4>1
    <3>1. k + m \in BytesIn(t, k) /\ k + m \in Nat /\ k + m >= n /\ k + (m + 1) = (k + m) + 1
      <4>. HIDE DEF c
      <4>. QED BY <1>2, <1>4, <1>7 DEF BytesIn
    <3>2. k + m \in DOMAIN t
      BY <1>3, <3>1, RecordShape
    <3>. QED BY <1>5, <3>1, <3>2
  <2>10. h[1] = d
    BY <2>6
  <2>11. SumFunction(f) \in Int /\ SumFunction(h) = d + SumFunction(f)
    <3>. HIDE DEF f, h, N, d
    <3>. QED BY <2>6, <2>7, <2>8, <2>9, <2>10, SumOneMore
  <2>12. d \in Int /\ 1 <= d /\ d <= 255
    <3>. HIDE DEF c, d
    <3>. QED BY <1>4, <2>3, ByteBounds
  <2>. DEFINE S == SumFunction(f)
  <2>13. S \in Int /\ S % 256 = 0 /\ (d + S) % 256 = 0
    <3>. HIDE DEF f, h, d
    <3>. QED BY <2>5, <2>11, Zenon
  <2>. HIDE DEF S, d
  <2>. QED BY <2>12, <2>13
<1>. QED BY <1>6, <1>7

LEMMA OnlyBlanksMore ==
  ASSUME NEW t, NEW u, NEW n, Shape(t), Shape(u), OneMore(t, u, n)
  PROVE  u[n] = Blank
<1>1. u[n] \in Byte \/ u[n] \in {Colon, Blank}
  BY DEF Shape, OneMore
<1>. QED BY <1>1, NoStartMore, NoByteMore

\* A text without one of its tokens.
Without(t, n) == [m \in 1..(Len(t) - 1) |-> IF m < n THEN t[m] ELSE t[m + 1]]

LEMMA WithoutOne ==
  ASSUME NEW u \in Seq(Token), NEW n \in DOMAIN u
  PROVE  Without(u, n) \in Seq(Token) /\ OneMore(Without(u, n), u, n)
<1>1. Len(u) \in Nat /\ DOMAIN u = 1..Len(u) /\ n \in Nat
  OBVIOUS
<1>. DEFINE t == Without(u, n)
<1>2. /\ DOMAIN t = 1..(Len(u) - 1)
      /\ \A m \in 1..(Len(u) - 1) : t[m] = IF m < n THEN u[m] ELSE u[m + 1]
  BY DEF Without
<1>3. t \in Seq(Token)
  <2>1. Len(u) - 1 \in Nat
    BY <1>1
  <2>2. t \in [1..(Len(u) - 1) -> Token]
    BY <1>1 DEF Without
  <2>. HIDE DEF t
  <2>. QED BY <2>1, <2>2
<1>. HIDE DEF t
<1>4. ASSUME NEW m \in Nat, m < n
      PROVE  /\ m \in DOMAIN u <=> m \in DOMAIN t
             /\ m \in DOMAIN t => u[m] = t[m]
  BY <1>1, <1>2, <1>4
<1>5. ASSUME NEW m \in Nat, m >= n
      PROVE  /\ m + 1 \in DOMAIN u <=> m \in DOMAIN t
             /\ m \in DOMAIN t => u[m + 1] = t[m]
  BY <1>1, <1>2, <1>5
<1>6. OneMore(t, u, n)
  BY <1>1, <1>2, <1>4, <1>5 DEF OneMore
<1>. QED BY <1>3, <1>6 DEF t

\* An image that lost one token is an image only if it lost a blank, also when the
\* count of a record is lost and the next byte taken for it (avr_mcu.c:293-345).
THEOREM LostTokenIsNoticed ==
  ASSUME text \in Seq(Token), IsImage, NEW n \in DOMAIN text,
         text' = Without(text, n), IsImage'
  PROVE  text[n] = Blank
<1>1. Shape(text)
  BY ImageShape
<1>2. (text \in Seq(Token) /\ IsImage => Shape(text))'
  BY ImageShape, PTL
<1>3. text' \in Seq(Token) /\ OneMore(text', text, n)
  BY WithoutOne
<1>4. Shape(text')
  BY <1>2, <1>3
<1>. QED BY <1>1, <1>3, <1>4, OnlyBlanksMore

\* An image with one token too many, a repeated one for instance, is an image only if
\* that is a blank (avr_mcu.c:293-345).
THEOREM AddedTokenIsNoticed ==
  ASSUME text' \in Seq(Token), IsImage, NEW n \in DOMAIN (text'),
         text = Without(text', n), IsImage'
  PROVE  text'[n] = Blank
<1>1. text \in Seq(Token) /\ OneMore(text, text', n)
  BY WithoutOne
<1>2. Shape(text)
  BY <1>1, ImageShape
<1>3. (text \in Seq(Token) /\ IsImage => Shape(text))'
  BY ImageShape, PTL
<1>4. Shape(text')
  BY <1>3
<1>. QED BY <1>1, <1>2, <1>4, OnlyBlanksMore

\* Of an image that is cut off, what is left is an image only if nothing but blanks
\* was lost (avr_mcu.c:285-290, 363-367).
THEOREM CutIsNoticed ==
  ASSUME text \in Seq(Token), IsImage, NEW n \in 0..Len(text),
         text' = SubSeq(text, 1, n), IsImage'
  PROVE  \A m \in DOMAIN text \ DOMAIN text' : text[m] = Blank
<1>. DEFINE t == text
            u == text'
<1>1. /\ u \in Seq(Token) /\ DOMAIN t = 1..Len(t) /\ DOMAIN u = 1..n /\ DOMAIN u \subseteq DOMAIN t
      /\ \A m \in DOMAIN u : u[m] = t[m]
  OBVIOUS
<1>2. Shape(t)
  BY ImageShape
<1>3. (text \in Seq(Token) /\ IsImage => Shape(text))'
  BY ImageShape, PTL
<1>4. Shape(u)
  BY <1>1, <1>3
<1>5. StartsIn(u) \subseteq StartsIn(t)
  BY <1>1 DEF StartsIn
<1>6. PICK last \in StartsIn(t) : \A k \in StartsIn(t) \ {last} : k < last /\ t[k + 4] = DATA
  BY DEF IsImage, Starts, StartsIn, DataInFlash, TypeAt
<1>7. PICK end \in StartsIn(u) : u[end + 4] = EOF
  BY DEF IsImage, Starts, StartsIn, TypeAt
<1>8. end + 4 \in DOMAIN u
  <2>. HIDE DEF u
  <2>1. end + 4 \in BytesIn(u, end)
    BY <1>4, RecordShape, SMTT(30) DEF BytesIn
  <2>. QED BY <1>4, <2>1, RecordShape
<1>9. end = last
  BY <1>1, <1>5, <1>6, <1>7, <1>8 DEF EOF, DATA
<1>10. StartsIn(t) \subseteq StartsIn(u)
  <2>. SUFFICES ASSUME NEW k \in StartsIn(t), k # last
                PROVE  k \in StartsIn(u)
    BY <1>9
  <2>1. k < last /\ k \in Nat /\ last \in Nat /\ last \in DOMAIN u /\ k \in DOMAIN t
    BY <1>1, <1>6, <1>9 DEF StartsIn
  <2>2. k \in DOMAIN u
    BY <1>1, <2>1
  <2>. QED BY <1>1, <2>2 DEF StartsIn
<1>. SUFFICES ASSUME NEW m \in DOMAIN t, t[m] # Blank
              PROVE  m \in DOMAIN u
  OBVIOUS
<1>11. CASE t[m] = Colon
  BY <1>10, <1>11 DEF StartsIn
<1>12. CASE t[m] \in Byte
  <2>1. PICK k \in StartsIn(t) : m \in BytesIn(t, k)
    BY <1>2, <1>12 DEF Shape
  <2>2. k \in StartsIn(u)
    BY <1>10
  <2>3. u[k + 1] = t[k + 1]
    BY <1>1, <1>4, <2>2, RecordShape
  <2>4. m \in BytesIn(u, k)
    BY <2>1, <2>3 DEF BytesIn, LastIn
  <2>. QED BY <1>4, <2>2, <2>4, RecordShape
<1>. QED BY <1>2, <1>11, <1>12 DEF Shape
=============================================================================
