\* A channel of two frames, paused once, stopped from every side at every moment.
SPECIFICATION FairSpec
CONSTANTS
  MaxFrames = 4
  Capacity = 2
  MaxPauses = 1
INVARIANTS TypeOK FramesInOrder FinishedMeansHeard
PROPERTIES KeepsContract StopReleases PlaysToTheEnd
CHECK_DEADLOCK FALSE
