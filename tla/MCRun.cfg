\* Three words of flash; runs of up to three instructions; the cycle counter
\* wraps at 3, so that runs cross the wrap.
SPECIFICATION MCSpec
CONSTANTS
  FlashSize = 3
  SramSize = 2
  CycleModulus = 3
  HostRegisters = {}
  HostBytes = {}
  HostWords = {0, 1, 3}
  HostFlags = {}
  HostPorts = {}
  HostPrograms <- MCPrograms
  HostInstructions = {}
  Garbage <- MCGarbage
  HostLimits = {0, 3}
INVARIANT RunTypeOK
INVARIANT CountsEveryCycle
PROPERTY EndsAtTheFirstReason
PROPERTY ResultIsTrue
PROPERTY RunReturns
