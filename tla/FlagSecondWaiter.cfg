CONSTANTS
  MaxTasks = 2
  MaxGeneration = 1
  MaxTick = 0
  Durations = {0}
  Flags = {f1}
  Contexts = {c1}
  NoFlag = NoFlag
  MicrosPerSecond = 3
  TickRate = 2
  MaxFiniteTicks = 1
SPECIFICATION FlagSpec
PROPERTIES
  SecondWaiterReported
