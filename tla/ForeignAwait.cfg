CONSTANTS
  MaxTasks = 2
  MaxGeneration = 1
  MaxTick = 1
  Durations = {0, 1}
SPECIFICATION ForeignSpec
INVARIANTS
  ReadyOrWaiting
