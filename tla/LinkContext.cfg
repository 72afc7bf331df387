CONSTANTS
  host = host
  chat = chat
  NoJob = NoJob
  Calls = {w1, w2}
  Links = {l1, l2}
  Hosts = {host}
  Chats = {chat}
  HostOf <- MCHostOf
  Photos = {p1}
  Burst <- MCBurst
  MaxJobs = 1
  MaxVision = 1
  CacheSize = 1
SPECIFICATION FairSpec
CHECK_DEADLOCK FALSE
INVARIANTS OneJobPerLink LimitsAreKept ResultsBelongToTheLink ClosedIsQuiet
PROPERTY CloseEnds
