SPECIFICATION FairSpec
CONSTANTS
  Threads = {t1}
  LoopThread = loop
  Limit <- PostsAndDeferred
  MaxExits = 1
  Initialized = FALSE
PROPERTY HandedIsDelivered
CHECK_DEADLOCK FALSE
