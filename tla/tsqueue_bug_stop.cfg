SPECIFICATION FairSpec
CONSTANTS
  w1 = w1  w2 = w2  r1 = r1  r2 = r2  c = c
  None = None
  Threads = {w1, r1, c}
  Items = {i1}
  MaxSize = 1
  Calls <- CallsStopped
PROPERTIES StopReleasesReaders
CHECK_DEADLOCK FALSE
