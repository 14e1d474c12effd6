CONSTANTS
  MaxTasks = 3
  MaxGeneration = 1
  MaxTick = 0
  Durations = {0}
  Events = {e1, e2}
SPECIFICATION ListFairSpec
INVARIANTS
  ListsSpellQueues
  WaitersExact
  NoWaiterWhileSet
PROPERTIES
  WakesInOrder
  EventWaitsEnd
