\* Two goroutines at a time, two commands that connect, with the timers they
\* arm, and one of anything else.
SPECIFICATION FairSpec
CONSTANTS
  Worker = {w1, w2}
  MaxConns = 2
  MaxConnects = 2
  MaxCalls = 1
INVARIANTS
  TypeOK
  CleanedIsDone
  ConnsAreKept
 
CHECK_DEADLOCK FALSE
