---------------------------- MODULE AvrHexLoader ----------------------------
(***************************************************************************)
(* avr_mcu_load_intel_hex: the loop over the records of an Intel HEX text. *)
(* One iteration of the loop is one step.                                  *)
(*                                                                         *)
(* The text is a sequence of tokens: a byte stands for its two hexadecimal *)
(* digits, Colon and Blank for themselves, Junk for any other character (a *)
(* digit without its partner included).  End is the terminating NUL.       *)
(***************************************************************************)
EXTENDS AvrBits, Sequences, Functions

CONSTANTS FlashSize,  \* AVR_FLASH_SIZE, in words
          Texts       \* the texts the host passes

Colon == -1
Blank == -2
Junk  == -3
End   == -4

Token == Byte \cup {Colon, Blank, Junk}

ASSUME HexAssumption ==
  /\ FlashSize \in Nat \ {0}
  /\ Texts \subseteq Seq(Token)

VARIABLES
  flash,     \* the program memory of the MCU
  text,      \* hex_text
  cursor,    \* the position of the cursor in it
  staged,    \* staged_flash, the copy the records are applied to
  eof_seen,  \* end_of_file_seen
  status     \* "idle" | "parsing" | "loaded" | "rejected"

hexvars == <<flash, text, cursor, staged, eof_seen, status>>

FlashAddress == 0..(FlashSize - 1)

TypeOK ==
  /\ flash \in [FlashAddress -> Word]
  /\ text \in Seq(Token)
  /\ cursor \in 1..(Len(text) + 1)
  /\ staged \in [FlashAddress -> Word]
  /\ eof_seen \in BOOLEAN
  /\ status \in {"idle", "parsing", "loaded", "rejected"}

Init ==
  /\ flash = [a \in FlashAddress |-> 0]
  /\ text = <<>>
  /\ cursor = 1
  /\ staged = flash
  /\ eof_seen = FALSE
  /\ status = "idle"

\* The call: from here to Accept or Reject the host waits.
Begin(hex_text) ==
  /\ status # "parsing"
  /\ text' = hex_text
  /\ cursor' = 1
  /\ staged' = flash
  /\ eof_seen' = FALSE
  /\ status' = "parsing"
  /\ UNCHANGED flash
-----------------------------------------------------------------------------
(***************************************************************************)
(* The record at the cursor: a colon, then byte count, address (two        *)
(* bytes), record type, data, checksum.                                    *)
(***************************************************************************)
Here(k) == IF cursor + k <= Len(text) THEN text[cursor + k] ELSE End

HasHeader == \A k \in 1..4 : Here(k) \in Byte
byte_count == Here(1)
address == WordOf(Here(2), Here(3))
record_type == Here(4)
RecordLength == 5 + byte_count

\* Every byte of the record is there, and they add up to 0 modulo 256.
IsComplete == HasHeader /\ \A k \in 5..RecordLength : Here(k) \in Byte

\* Mutant of ChecksumHolds: any sum will do.
ChecksumIgnored == TRUE

ChecksumHolds == SumFunction([k \in 1..RecordLength |-> Here(k)]) % 256 = 0

StartsRecord == Here(0) = Colon /\ ~eof_seen
IsRecord == StartsRecord /\ IsComplete /\ ChecksumHolds

DATA == 0
EOF == 1

\* The byte addresses the data covers.  They are 32-bit: no wrap at 65536.
Covered == address..(address + byte_count - 1)

\* Mutant of FitsFlash: an off-by-one at the last byte.
FitsFlashStrictly == Covered \subseteq 0..(2 * FlashSize - 2)

FitsFlash == Covered \subseteq 0..(2 * FlashSize - 1)

\* The byte at byte address p once the data is applied; even addresses are the
\* low bytes of the words.
ByteAt(p, old) == IF p \in Covered THEN Here(5 + p - address) ELSE old

Staged ==
  [a \in FlashAddress |-> WordOf(ByteAt(2 * a + 1, HighByte(staged[a])),
                                 ByteAt(2 * a, LowByte(staged[a])))]
-----------------------------------------------------------------------------
(***************************************************************************)
(* The iterations of the loop, and its two ways out.                       *)
(***************************************************************************)
\* Mutant of SkipBlank: the loop continues without advancing.
SkipBlankStays ==
  /\ status = "parsing"
  /\ Here(0) = Blank
  /\ UNCHANGED <<flash, text, cursor, staged, eof_seen, status>>

SkipBlank ==
  /\ status = "parsing"
  /\ Here(0) = Blank
  /\ cursor' = cursor + 1
  /\ UNCHANGED <<flash, text, staged, eof_seen, status>>

\* Mutant of DataRecord: applied to the flash itself as it is read.
DataRecordInPlace ==
  /\ status = "parsing"
  /\ IsRecord /\ record_type = DATA /\ FitsFlash
  /\ staged' = Staged
  /\ flash' = Staged
  /\ cursor' = cursor + RecordLength + 1
  /\ UNCHANGED <<text, eof_seen, status>>

DataRecord ==
  /\ status = "parsing"
  /\ IsRecord /\ record_type = DATA /\ FitsFlash
  /\ staged' = Staged
  /\ cursor' = cursor + RecordLength + 1
  /\ UNCHANGED <<flash, text, eof_seen, status>>

\* Mutant of EofRecord: it also skips the character after the record, which it
\* takes for a line end.
EofRecordAndLineEnd ==
  /\ status = "parsing"
  /\ IsRecord /\ record_type = EOF
  /\ eof_seen' = TRUE
  /\ cursor' = cursor + RecordLength + 2
  /\ UNCHANGED <<flash, text, staged, status>>

\* The data of an end-of-file record, if any, is skipped.
EofRecord ==
  /\ status = "parsing"
  /\ IsRecord /\ record_type = EOF
  /\ eof_seen' = TRUE
  /\ cursor' = cursor + RecordLength + 1
  /\ UNCHANGED <<flash, text, staged, status>>

Accept ==
  /\ status = "parsing"
  /\ Here(0) = End
  /\ eof_seen
  /\ flash' = staged
  /\ status' = "loaded"
  /\ UNCHANGED <<text, cursor, staged, eof_seen>>

\* The early returns.
Malformed ==
  \/ Here(0) = End /\ ~eof_seen
  \/ Here(0) \notin {End, Blank} /\ ~IsRecord
  \/ IsRecord /\ record_type \notin {DATA, EOF}
  \/ IsRecord /\ record_type = DATA /\ ~FitsFlash

Reject ==
  /\ status = "parsing"
  /\ Malformed
  /\ status' = "rejected"
  /\ UNCHANGED <<flash, text, cursor, staged, eof_seen>>

Parse == SkipBlank \/ DataRecord \/ EofRecord \/ Accept \/ Reject

Next == (\E hex_text \in Texts : Begin(hex_text)) \/ Parse

\* The loop of a call that has started runs on; the host need not call.
Spec == Init /\ [][Next]_hexvars /\ WF_hexvars(Parse)
-----------------------------------------------------------------------------
(***************************************************************************)
(* Properties.                                                             *)
(***************************************************************************)

\* The comment at avr_mcu.c:273: a malformed image never partially mutates the
\* flash.  It changes in one step, the last of a successful call.
FlashChangesOnlyOnAccept == [][flash' # flash => status' = "loaded"]_hexvars

\* What a text says: its records are where its colons are.
Starts == {k \in DOMAIN text : text[k] = Colon}
CountAt(k) == text[k + 1]
AddressAt(k) == WordOf(text[k + 2], text[k + 3])
TypeAt(k) == text[k + 4]
ChecksumAt(k) == k + 5 + CountAt(k)
Lands(k, p) == TypeAt(k) = DATA /\ AddressAt(k) <= p /\ p < AddressAt(k) + CountAt(k)

WellFormed(k) ==
  /\ \A n \in (k + 1)..(k + 4) : n \in DOMAIN text /\ text[n] \in Byte
  /\ \A n \in (k + 5)..ChecksumAt(k) : n \in DOMAIN text /\ text[n] \in Byte
  /\ SumFunction([n \in 1..(5 + CountAt(k)) |-> text[k + n]]) % 256 = 0
DataInFlash(k) ==
  TypeAt(k) = DATA /\ (CountAt(k) = 0 \/ AddressAt(k) + CountAt(k) <= 2 * FlashSize)

\* A complete image: well-formed records with nothing but blanks between them,
\* data records inside flash, and the last record the only end-of-file record.
IsImage ==
  /\ \A k \in Starts : WellFormed(k)
  /\ \A n \in DOMAIN text : text[n] = Blank \/ \E k \in Starts : n \in k..ChecksumAt(k)
  /\ \E last \in Starts : /\ TypeAt(last) = EOF
                          /\ \A k \in Starts \ {last} : k < last /\ DataInFlash(k)

\* The byte at byte address p of a flash.
ByteIn(f, p) == IF p % 2 = 0 THEN LowByte(f[p \div 2]) ELSE HighByte(f[p \div 2])

\* Each byte of the flash is what the last of the records in starts that covers it
\* says, or what it was when none does.
Written(f, old, starts) ==
  \A p \in 0..(2 * FlashSize - 1) :
    \/ \E k \in starts : /\ Lands(k, p)
                         /\ \A j \in starts : Lands(j, p) => j <= k
                         /\ ByteIn(f, p) = text[k + 5 + p - AddressAt(k)]
    \/ /\ \A k \in starts : ~Lands(k, p)
       /\ ByteIn(f, p) = ByteIn(old, p)

\* A call loads the text when it is a complete image, with every byte of the
\* flash as the image says, and turns everything else away: a record after the
\* end, a wrong sum, a byte beyond flash, a text that stops within a record
\* (avr_mcu.c:278-370).
LoadsExactlyTheImages ==
  [][(status = "parsing" /\ status' # "parsing") =>
       IF IsImage THEN status' = "loaded" /\ Written(flash', flash, Starts)
                  ELSE status' = "rejected"]_hexvars

\* Every call returns: whatever the text, no iteration leaves the cursor where
\* it is or finds nothing to do.
LoadReturns == status = "parsing" ~> status \in {"loaded", "rejected"}
=============================================================================
