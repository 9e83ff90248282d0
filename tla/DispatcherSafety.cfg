SPECIFICATION Spec
CONSTANTS
  Threads = {t1, t2}
  LoopThread = loop
  Limit <- EveryKind
  MaxExits = 0
  Initialized = TRUE
SYMMETRY Sym
INVARIANTS NoLostWakeup DeferredScheduled NothingLostOrReordered
PROPERTY MailboxSpec
CHECK_DEADLOCK FALSE
