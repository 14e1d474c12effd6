CONSTANTS
  MaxTasks = 2
  MaxGeneration = 1
  MaxTick = 3
  Durations = {2}
  Flags = {f1, f2}
  Contexts = {c1}
  NoFlag = NoFlag
  MicrosPerSecond = 2
  TickRate = 3
  MaxFiniteTicks = 4
SPECIFICATION FlagSpec
SYMMETRY FlagSymmetry
INVARIANTS
  ArmedExact
  NoLostSignal
  NoSleepOnSignal
  TimeoutsCover
  NoOversleep
CHECK_DEADLOCK FALSE
