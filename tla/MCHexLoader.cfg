\* Two words of flash: four byte addresses, of both parities.
SPECIFICATION MCSpec
CONSTANTS
  FlashSize = 2
  Texts = {}
INVARIANT TypeOK
INVARIANT LoadsTheImage
PROPERTY FlashChangesOnlyOnAccept
PROPERTY LoadsExactlyTheImages
PROPERTY LoadReturns
CHECK_DEADLOCK FALSE
