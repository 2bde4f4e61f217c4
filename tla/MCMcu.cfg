\* Four words of flash and three bytes of SRAM, so that every range check of
\* the code is met on both sides; the cycle counter wraps at 2.
SPECIFICATION MCSpec
CONSTANTS
  FlashSize = 4
  SramSize = 3
  CycleModulus = 2
  HostRegisters = {16, 26, 27, 32}
  HostBytes = {0, 1, 127, 128, 255}
  HostWords = {0, 1, 2, 3, 4, 65535}
  HostFlags <- MCFlags
  HostPorts <- MCPorts
  HostPrograms <- MCPrograms
  HostInstructions <- MCInstructions
  Garbage <- MCGarbage
INVARIANT TypeOK
PROPERTY FailureAtomic
PROPERTY StackPointerStaysInRange
PROPERTY UninitialisedFieldsUnread
PROPERTY BitOpsMoveOnePin
PROPERTY FlagsDiscipline
