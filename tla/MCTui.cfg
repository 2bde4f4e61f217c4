\* Flash is as long as the demo; the cycle counter wraps at 2; the user
\* toggles PB0 and PB5.  The loop ends when the user quits.
SPECIFICATION MCSpec
CONSTANTS
  FlashSize = 10
  EventLogCapacity = 64
  SramSize = 2
  CycleModulus = 2
  HostRegisters = {}
  HostBytes = {}
  HostWords = {}
  HostFlags = {}
  HostPorts = {}
  HostPrograms = {}
  HostInstructions = {}
  Garbage <- MCGarbage
  HostLimits = {}
  InputKeys = {0, 5}
INVARIANT ScreenIsCurrent
INVARIANT DemoNeverFails
PROPERTY MirrorsTheInput
PROPERTY DemoMirrors
CHECK_DEADLOCK FALSE
