\* Flash is as long as the demo; cycles are not counted; the user toggles PB0 and
\* PB5.  The loop ends when the user quits.
SPECIFICATION MCSpec
CONSTANTS
  FlashSize = 10
  SramSize = 2
  CycleModulus = 1
  EventLogCapacity = 64
  HostRegisters = {}
  HostBytes = {}
  HostWords = {}
  HostFlags = {}
  HostPorts = {}
  HostPrograms = {}
  HostInstructions = {}
  Garbage <- MCGarbage
  InputBits = {0, 5}
  FrameTicks = {8, 64}
INVARIANT ScreenIsCurrent
INVARIANT TrackerAgreesWithPanels
PROPERTY ClickMovesThePin
PROPERTY QuitEnds
PROPERTY RunsOn
PROPERTY MirrorsTheInput
PROPERTY DemoMirrors
CHECK_DEADLOCK FALSE
