SPECIFICATION Spec
CONSTANTS
  Saver = {s1, s2}
  SavedName = {n1, n2, n3}
  Snapshot = {x, y}
  NoSnapshot = nothing
  MaxSaved = 2
  MaxSavedCalls = 2
  Job = {j1, j2}
  Song <- MCSong
  OldSearches <- MCOldSearches
  Notification = {"n"}
  MaxRecent = 2
  MaxJobs = 2
  MaxRestarts = 1
  Caller = {c1, c2}
  Track = {t1}
  Token = token
  TokenLife = {1, 5}
  TokenMargin = 2
  HttpTimeout = 1
  UrlLife = 2
  MaxClock = 5
  MaxLookups = 3
  Request = {r1, r2}
  MaxItems = 3
  Source = {a, b}
  NoSource = none
  FrameSize = 2
  Parts = 2
  Speed = {1, 2, 3}
  Player = {p1, p2}
  OverlayLen = {1, 2}
  MaxFrames = 4
  MaxOverlays = 3
  Speaker = {u, v}
  NoSpeaker = nobody
  MaxReceivers = 1
  MaxSessions = 2
  Word = {wa, wb}
  MaxWords = 2
  HeaderProbe = 4
  TailProbe = 6
  WholeProbe = 10
  MovieSize = 2
  SampleSize = {1, 2}
  OtherData = {0, 6}
  MaxInFile = 3
  InboxSize = 2
  PrerollSize = 2
  PreCaptureSize = 4
  PcmBufSize = 3
  ChunkSize = 2
  MaxHeard = 5
  MaxWakes = 2
  MaxConns = 4
  MaxOpeners = 3
  MaxEvents = 2
  MaxFailures = 2
  MaxSends = 1
  Page = {d1, d2}
  Title = {ta, tb}
  NoTitle = notitle
  MaxChanges = 2
  MaxStates = 1
  MaxLinks = 2
  MaxAttempts = 1
INVARIANTS
  TypeOK SavedQueuesKept PlaylistKept SoundIsWhole PagesKept TranscriptKept GatewayKept
PROPERTIES UserRecordKept CacheKept EverythingEnds
CHECK_DEADLOCK FALSE
