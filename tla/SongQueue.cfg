\* Every command, under every setting of Repeat, Shuffle and Autoplay.
SPECIFICATION Spec
CONSTANTS
  Song = {s1, s2}
  NoSong = NoSong
  RepeatModes = {"Off", "One", "All"}
  ShuffleModes = {TRUE, FALSE}
  AutoplayModes = {TRUE, FALSE}
  MaxTimeline = 4
  MaxSuggestions = 2
SYMMETRY Symmetry
INVARIANTS
  TypeOK
  NothingWaitsBehindEmptySlot
  BackAndForthAgree
PROPERTIES
  GoingBackKeepsTimeline
  NothingIsLost
  MoveKeepsTheRest
  AutoplayContinues
CHECK_DEADLOCK TRUE
