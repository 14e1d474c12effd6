CONSTANTS
  MaxTasks = 2
  MaxGeneration = 2
  MaxTick = 0
  Durations = {0}
SPECIFICATION OrderSpec
PROPERTIES
  OldestReused
