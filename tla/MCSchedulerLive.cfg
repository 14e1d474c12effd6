CONSTANTS
  MaxTasks = 2
  MaxGeneration = 2
  MaxTick = 2
  Durations = {0, 1, 2}
SPECIFICATION FairSpec
PROPERTIES
  ReadyTasksRun
  DelaysEnd
  ParentsResume
