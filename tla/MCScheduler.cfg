CONSTANTS
  MaxTasks = 3
  MaxGeneration = 2
  MaxTick = 2
  Durations = {0, 1}
SPECIFICATION Spec
INVARIANTS
  TypeOK
  ReadyQueueExact
  PassIsSnapshot
  OneRunner
  FramesCounted
  ChildLink
  NoAwaitCycle
  NoOverdueTimer
  NearestIsReal
  TeardownReleasesFrames
  DetachedIsTombstone
PROPERTIES
  HandlesStayTrue
