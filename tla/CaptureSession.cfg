\* Two captures of one speaker, or one and a spoken response, a Cleanup, and a speaker who leaves.
SPECIFICATION FairSpec
CONSTANTS
  Capture = {1, 2}
  Response = {r}
  NoTranscriber = NoTranscriber
  MaxCaptures = 2
  MaxDucks = 2
  Closers = {"guild", "connection"}
INVARIANTS
  TypeOK
  TranscriberOfThisCapture
  OpenTranscriberHasOwner
  OneDispatchPerCapture
PROPERTIES
  CaptureEnds
  MusicComesBack
CHECK_DEADLOCK FALSE
