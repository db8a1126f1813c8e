\* The wait for a session inside Cleanup.
SPECIFICATION FairSpec
CONSTANTS
  Capture = {1}
  Response = {r}
  NoTranscriber = NoTranscriber
  MaxCaptures = 1
  MaxDucks = 2
  Closers = {"guild"}
PROPERTY TeardownEnds
CHECK_DEADLOCK FALSE
