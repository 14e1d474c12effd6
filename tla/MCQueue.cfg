CONSTANTS
  MaxTasks = 2
  MaxGeneration = 1
  MaxTick = 0
  Durations = {0}
  Capacity = 2
  Values = {v1, v2}
  NoValue = NoValue
SPECIFICATION QueueFairSpec
INVARIANTS
  CellsExact
  NoNeedlessWait
  ParkedExact
  ReceiverHasValue
PROPERTIES
  ImplementsChannel
  QueueWaitsEnd
