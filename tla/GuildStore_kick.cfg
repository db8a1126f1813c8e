\* Two goroutines at a time, two commands that connect, and two
\* of anything else.
SPECIFICATION Spec
CONSTANTS
  Worker = {w1, w2}
  MaxConns = 2
  MaxConnects = 2
  MaxCalls = 2
PROPERTY OnlyKicksAreCleaned
CHECK_DEADLOCK FALSE
