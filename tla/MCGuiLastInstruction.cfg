\* As MCGui; the line of the change tracker that names the last instruction.
\* (The loop ends when the user quits.)
SPECIFICATION MCSpec
CONSTANTS
  FlashSize = 10
  SramSize = 2
  CycleModulus = 1
  EventLogCapacity = 64
  HostRegisters = {}
  HostBytes = {}
  HostWords = {}
  HostFlags = {}
  HostPorts = {}
  HostPrograms = {}
  HostInstructions = {}
  Garbage <- MCGarbage
  InputBits = {0, 5}
  FrameTicks = {8, 64}

INVARIANT LastInstructionIsTracked
CHECK_DEADLOCK FALSE
