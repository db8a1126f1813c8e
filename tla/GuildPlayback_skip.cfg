SPECIFICATION Spec
CONSTANTS
  Song = {s1}
  NoSong = NoSong
  Session = {a, b}
  NoSession = NoSession
  Player = {p, q}
  NoPlayer = NoPlayer
  RepeatOne = FALSE
  NetworkFails = FALSE
  MaxCommands = 3
  MaxTimeline = 2
  MaxPending = 1
SYMMETRY Symmetry
PROPERTY EndKeepsNewSong
CHECK_DEADLOCK FALSE
