SPECIFICATION FairSpec
CONSTANTS
  Song = {s1}
  NoSong = NoSong
  Session = {a, b}
  NoSession = NoSession
  Player = {p, q}
  NoPlayer = NoPlayer
  RepeatOne = TRUE
  NetworkFails = TRUE
  MaxCommands = 2
  MaxTimeline = 2
  MaxPending = 1
INVARIANTS TypeOK OneLiveSession QuietAfterCleanup
PROPERTIES StoppedSessionIsSilent SessionsKeepContract StoppedSessionsEnd CleanupWindsDown
CHECK_DEADLOCK FALSE
