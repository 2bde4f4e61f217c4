\* Four words of flash, three bytes of SRAM, logs of at most three events
\* instead of 64; a CALL into a full stack fails, and so does leaving flash.
SPECIFICATION MCSpec
CONSTANTS
  FlashSize = 4
  SramSize = 3
  CycleModulus = 2
  EventLogCapacity = 3
  HostRegisters = {}
  HostBytes = {0, 1, 128, 255}
  HostWords = {0, 1, 2, 3, 65535}
  HostFlags <- MCFlags
  HostPorts <- MCPorts
  HostPrograms = {}
  HostInstructions = {}
  Garbage <- MCGarbage
INVARIANT TrackerShowsAll
PROPERTY LogIsTheDifference
PROPERTY JumpsGoWhereTheTextsSay
