\* The codec with the flash size of the source, over all 65536 words.
SPECIFICATION Spec
CONSTANT FlashSize = 1024
INVARIANT PatternsDisjoint
INVARIANT DecodeThenEncode
INVARIANT EncodeThenDecode
INVARIANT TextsTellTheWord
INVARIANT TextsFit
CHECK_DEADLOCK FALSE
