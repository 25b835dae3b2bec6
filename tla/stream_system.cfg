SPECIFICATION FairSpec
CONSTANTS
  s1 = s1
  s2 = s2
  t1 = t1
  t2 = t2
  t3 = t3
  Streams = {s1, s2}
  Threads = {t1, t2, t3}
  StreamOf <- MCStreamOf
  MaxMessages = 1
  Replies = 2
  WordSize = 16
  NetCap = 2
  MayStop = TRUE
INVARIANTS TypeOK NoWedge ClosedAfterThreads
PROPERTY EveryReplyShown
CHECK_DEADLOCK FALSE
