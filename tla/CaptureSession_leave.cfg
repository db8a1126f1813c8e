\* A speaker who leaves in the middle of a capture.
SPECIFICATION FairSpec
CONSTANTS
  Capture = {1}
  Response = {r}
  NoTranscriber = NoTranscriber
  MaxCaptures = 1
  MaxDucks = 2
  Closers = {"connection"}
PROPERTY DuckIsRestored
CHECK_DEADLOCK FALSE
