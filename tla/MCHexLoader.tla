---------------------------- MODULE MCHexLoader ----------------------------
(***************************************************************************)
(* A host that prints an image as Intel HEX, as some tool would, sends it  *)
(* over a medium that may damage one token, and loads what arrives: first  *)
(* a clean image that fills the flash, then any image.                     *)
(***************************************************************************)
EXTENDS AvrHexLoader, SequencesExt

VARIABLES
  image,    \* the records the text was printed from
  damaged,  \* whether the text was damaged on its way
  before    \* the flash when the call was made

mcvars == <<hexvars, image, damaged, before>>

Record(type, a, bytes) == [type |-> type, address |-> a, data |-> bytes]

\* Records at both ends of the four bytes of flash, across them, and beyond.
DataRecords ==
  {Record(DATA, a, d) : a \in {0, 3}, d \in {<<>>, <<18>>, <<255, 1>>}}
    \cup {Record(DATA, 1, <<35, 52>>), Record(DATA, 65535, <<18, 1>>)}
EofRecords == {Record(EOF, 0, <<>>), Record(EOF, 1, <<7>>)}
Extended == Record(4, 0, <<0, 1>>)
Filling == <<Record(DATA, 0, <<17, 34, 51, 68>>), Record(EOF, 0, <<>>)>>

\* Complete images, one without an end, and records after the end.
Images ==
  {<<e>> : e \in EofRecords}
    \cup {<<r, e>> : r \in DataRecords \cup {Extended}, e \in EofRecords}
    \cup {<<r1, r2, Record(EOF, 0, <<>>)>> : r1 \in DataRecords, r2 \in DataRecords}
    \cup {<<r>> : r \in DataRecords}
    \cup {<<Record(EOF, 0, <<>>), r>> : r \in DataRecords \cup EofRecords}

Header(r) == <<Len(r.data), HighByte(r.address), LowByte(r.address), r.type>>
Checksum(bytes) == (-SumFunction(bytes)) % 256
Printed(r) ==
  LET bytes == Header(r) \o r.data
  IN  <<Colon>> \o bytes \o <<Checksum(bytes), Blank>>
Print1(records) == FlattenSeq([k \in DOMAIN records |-> Printed(records[k])])

\* One token replaced, lost or repeated, or the end of the text cut off.
Damages(t) ==
  UNION {{ReplaceAt(t, k, token) : token \in {0, 1, 2, 255, Colon, Blank, Junk}}
           \cup {RemoveAt(t, k), InsertAt(t, k, t[k]), SubSeq(t, 1, k - 1)} :
         k \in DOMAIN t}

MCInit == Init /\ image = <<>> /\ damaged = FALSE /\ before = flash

Send(records, t) ==
  /\ Begin(t)
  /\ image' = records
  /\ damaged' = (t # Print1(records))
  /\ before' = flash

Fill == image = <<>> /\ Send(Filling, Print1(Filling))

SendAny ==
  /\ image = Filling
  /\ \E records \in Images :
       \E t \in {Print1(records)} \cup Damages(Print1(records)) : Send(records, t)

MCNext == Fill \/ SendAny \/ (Parse /\ UNCHANGED <<image, damaged, before>>)

MCSpec == MCInit /\ [][MCNext]_mcvars /\ WF_hexvars(Parse)
-----------------------------------------------------------------------------
\* What an image means: data records inside flash, closed by the only
\* end-of-file record; the last record that covers a byte decides it.
Bytes(r) == r.address..(r.address + Len(r.data) - 1)

Valid(records) ==
  /\ records # <<>>
  /\ Last(records).type = EOF
  /\ \A r \in Range(Front(records)) :
       r.type = DATA /\ Bytes(r) \subseteq 0..(2 * FlashSize - 1)

Holds(f, records, p) ==
  LET covering == {k \in DOMAIN records :
                     records[k].type = DATA /\ p \in Bytes(records[k])}
      decisive == records[Max(covering)]
  IN  ByteIn(f, p) = IF covering = {} THEN ByteIn(before, p)
                        ELSE decisive.data[p - decisive.address + 1]

\* Whatever one fault does to the text of a valid image, a load that succeeds
\* has loaded that image: checksum, framing and end-of-file rule together let
\* nothing else pass.  Sent intact, an invalid image is never loaded and a valid
\* one never turned away (avr_mcu.c:273-367).
LoadsTheImage ==
  /\ status = "loaded" =>
       IF Valid(image) THEN \A p \in 0..(2 * FlashSize - 1) : Holds(flash, image, p)
                       ELSE damaged
  /\ status = "rejected" => damaged \/ ~Valid(image)
=============================================================================
