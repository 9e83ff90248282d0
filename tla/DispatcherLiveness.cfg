SPECIFICATION FairSpec
CONSTANTS
  Threads = {t1}
  LoopThread = loop
  Limit <- PostsAndDeferred
  MaxExits = 1
  Initialized = TRUE
PROPERTIES HandedIsDelivered ExitReturns
CHECK_DEADLOCK FALSE
