CONSTANTS
  MaxTasks = 1
  MaxGeneration = 2
  MaxTick = 3
  Durations = {1, 2}
  Flags = {f1}
  Contexts = {c1, c2}
  NoFlag = NoFlag
  MicrosPerSecond = 3
  TickRate = 2
  MaxFiniteTicks = 1
SPECIFICATION FlagFairSpec
PROPERTIES
  SignalsDelivered
  DelaysEndAsleep
CHECK_DEADLOCK FALSE
