CONSTANTS
  MaxTasks = 1
  MaxGeneration = 1
  MaxTick = 0
  Durations = {0}
  Events = {e1}
SPECIFICATION ListSpec
INVARIANTS
  DetachedIsTombstone
