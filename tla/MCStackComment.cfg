\* The header comment on sp, against the same instance.
SPECIFICATION MCSpec
CONSTANTS
  FlashSize = 4
  SramSize = 3
  CycleModulus = 2
  HostRegisters = {}
  HostBytes = {0, 7}
  HostWords = {0, 2, 3}
  HostFlags = {}
  HostPorts = {}
  HostPrograms = {}
  HostInstructions <- MCInstructions
  Garbage <- MCGarbage
INVARIANT StackPointerNamesFreeByte
